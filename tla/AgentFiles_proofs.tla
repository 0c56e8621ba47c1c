-------------------------- MODULE AgentFiles_proofs --------------------------
(***************************************************************************)
(* Proofs about the skill file and MEMORY.md, for any number of goroutines *)
(* and calls.                                                              *)
(*                                                                         *)
(* No lock orders the system calls; what keeps the files in order is that  *)
(* every call has a name of its own (CreateTemp's random suffix, one       *)
(* section per call), so that the calls in flight own disjoint things.     *)
(***************************************************************************)
EXTENDS AgentFiles, SequenceTheorems, FiniteSetTheorems, TLAPS

Steps == {"fetch", "mkdir", "temp", "write", "chmod", "rename", "stat", "entries",
          "rmdir", "read", "open", "append", "truncate", "replace"}
Busy == [kind : Kinds, id : Id, end : Nat, at : Steps]

\* The steps of each kind of call, and that call o is at one of its kind.
PullSteps == {"fetch", "mkdir", "temp", "write", "chmod", "rename"}
DeleteSteps == {"stat", "entries", "rmdir"}
RememberSteps == {"open", "append"}
WriteSteps == {"truncate", "replace"}
Fits(o) ==
    \/ o.kind = "pull" /\ o.at \in PullSteps
    \/ o.kind = "delete" /\ o.at \in DeleteSteps
    \/ o.kind = "read" /\ o.at = "read"
    \/ o.kind = "remember" /\ o.at \in RememberSteps
    \/ o.kind = "write" /\ o.at \in WriteSteps

\* The calls in flight have started, are at a step of their kind, and have
\* different numbers.
Numbered ==
    /\ \A c \in Calls : op[c] # Idle => op[c].id <= ops /\ Fits(op[c])
    /\ \A c, d \in Calls : c # d /\ op[c] # Idle /\ op[d] # Idle => op[c].id # op[d].id

\* SKILL.md is whole, and there if a pull was acknowledged.
Whole ==
    /\ skill.whole /\ seen.whole
    /\ held => skill # Absent

\* A temporary file is made by a call that has come to its CreateTemp.
Temporary ==
    /\ \A i \in tmps : i <= ops
    /\ \A c \in Calls : op[c].at \in {"fetch", "mkdir", "temp"} => op[c].id \notin tmps
    /\ NoLitter

\* Every section of MEMORY.md is of another call, and of one that has written.
Sections ==
    /\ \A i \in DOMAIN memory : memory[i].id <= ops
    /\ \A i, j \in DOMAIN memory : memory[i].id = memory[j].id => i = j
    /\ \A c \in Calls : op[c].at \in RememberSteps \cup WriteSteps =>
          \A i \in DOMAIN memory : memory[i].id # op[c].id

\* What was acknowledged is in MEMORY.md.
Kept == \A e \in acked : \E i \in DOMAIN memory : memory[i].id = e /\ memory[i].whole

Inv == TypeOK /\ Numbered /\ Whole /\ Temporary /\ Sections /\ Kept

---------------------------------------------------------------------------
(* The calls *)

\* A step of call c: it goes on with its next step, or returns; the other calls
\* and the count of calls stay as they are.
Moved(c) ==
    /\ op[c] \in Busy /\ ops' = ops
    /\ DOMAIN op' = Calls
    /\ \A d \in Calls : d # c => op'[d] = op[d]
    /\ \/ op'[c] = Idle
       \/ /\ op'[c] \in Busy /\ Fits(op'[c])
          /\ op'[c].kind = op[c].kind /\ op'[c].id = op[c].id

\* A slot is idle, or holds a call with all its fields.
LEMMA OpType == TypeOK => op \in [Calls -> {Idle} \cup Busy]
  BY DEF TypeOK, Busy, Steps

\* The two are told apart by the kind of call.
LEMMA BusyIsNotIdle == Idle \notin Busy /\ Idle.kind = "none" /\ Idle.at = "none"
  BY DEF Idle, Busy, Kinds

\* A call that is at a step has started.
LEMMA AtIsBusy ==
    ASSUME TypeOK, NEW c \in Calls, op[c].at \in Steps
    PROVE  op[c] \in Busy
  BY OpType, BusyIsNotIdle DEF Steps

\* The call goes on with another step of its kind.
LEMMA GotoMoves ==
    ASSUME TypeOK, Numbered, NEW c \in Calls,
           NEW S \in {PullSteps, DeleteSteps, RememberSteps, WriteSteps},
           op[c].at \in S, NEW step \in S, ops' = ops,
           NEW n \in Nat,
           op' = [op EXCEPT ![c] = [op[c] EXCEPT !.at = step, !.end = n]]
    PROVE  Moved(c) /\ op'[c].at = step /\ op' \in [Calls -> {Idle} \cup Busy]
  <1> DEFINE v == [op[c] EXCEPT !.at = step, !.end = n]
  <1>0. S \subseteq Steps
    BY DEF Steps, PullSteps, DeleteSteps, RememberSteps, WriteSteps
  <1>1. op[c] \in Busy
    BY <1>0, AtIsBusy
  <1>2. v \in Busy /\ v.kind = op[c].kind /\ v.id = op[c].id /\ v.at = step
    BY <1>0, <1>1 DEF Busy
  <1>3. op' = [op EXCEPT ![c] = v]
    OBVIOUS
  <1>4. Fits(op[c])
    BY <1>1, BusyIsNotIdle DEF Numbered
  <1> HIDE DEF v
  <1>5. Fits(v)
    BY <1>2, <1>4 DEF Fits, PullSteps, DeleteSteps, RememberSteps, WriteSteps
  <1>6. op' \in [Calls -> {Idle} \cup Busy] /\ op'[c] = v
        /\ \A d \in Calls : d # c => op'[d] = op[d]
    BY <1>2, <1>3, OpType
  <1> QED
    BY <1>1, <1>2, <1>5, <1>6 DEF Moved

\* A call that moves on and keeps its end of file.
LEMMA GotoIs ==
    ASSUME TypeOK, Numbered, NEW c \in Calls,
           NEW S \in {PullSteps, DeleteSteps, RememberSteps, WriteSteps},
           op[c].at \in S, NEW step \in S, ops' = ops, Goto(c, step)
    PROVE  Moved(c) /\ op'[c].at = step /\ op' \in [Calls -> {Idle} \cup Busy]
  <1>0. S \subseteq Steps
    BY DEF Steps, PullSteps, DeleteSteps, RememberSteps, WriteSteps
  <1>1. op[c] \in Busy
    BY <1>0, AtIsBusy
  <1>2. op[c].end \in Nat
    BY <1>1 DEF Busy
  <1>3. [op[c] EXCEPT !.at = step, !.end = op[c].end] = [op[c] EXCEPT !.at = step]
    BY <1>1 DEF Busy
  <1>4. op' = [op EXCEPT ![c] = [op[c] EXCEPT !.at = step, !.end = op[c].end]]
    BY <1>3 DEF Goto
  <1> QED
    BY <1>2, <1>4, GotoMoves

\* The call returns.
LEMMA ReturnMoves ==
    ASSUME TypeOK, NEW c \in Calls, op[c].at \in Steps, Return(c), ops' = ops
    PROVE  Moved(c) /\ op'[c] = Idle /\ op' \in [Calls -> {Idle} \cup Busy]
  BY OpType, AtIsBusy DEF Moved, Return

\* Such a step keeps the numbering.
LEMMA MovedNumbered ==
    ASSUME TypeOK, Numbered, NEW c \in Calls, Moved(c)
    PROVE  Numbered'
  <1>1. \A d \in Calls : op'[d] # Idle =>
           op[d] # Idle /\ op'[d].id = op[d].id /\ (d = c => Fits(op'[d]))
    BY BusyIsNotIdle DEF Moved
  <1>2. \A d \in Calls : op'[d] # Idle => op'[d].id <= ops' /\ Fits(op'[d])
    BY <1>1 DEF Numbered, Moved
  <1> QED
    BY <1>1, <1>2 DEF Numbered

---------------------------------------------------------------------------
(* The steps on the skill: those of handlePull, skill delete and load_skill *)

PullStep(c) ==
    \/ Refused(c) \/ Fetched(c) \/ MkdirAll(c) \/ CreateTemp(c) \/ WriteTemp(c) \/ Chmod(c)
    \/ Rename(c) \/ InstallFails(c)
DeleteStep(c) == Stat(c) \/ RemoveEntries(c) \/ RemoveDir(c)

\* The calls during a step of a pull: it makes a temporary file under its own
\* number, and has removed it when it returns.
LEMMA PullMoves ==
    ASSUME Inv, NEW c \in Calls, PullStep(c)
    PROVE  /\ Moved(c) /\ op' \in [Calls -> {Idle} \cup Busy]
           /\ op[c].at \in PullSteps
           /\ tmps' \subseteq tmps \cup {op[c].id}
           /\ op'[c] = Idle => op[c].id \notin tmps'
           /\ op'[c].at \in {"fetch", "mkdir", "temp"} => op[c].id \notin tmps'
           /\ UNCHANGED <<memory, acked, crashed>>
  <1> USE DEF Inv
  <1>0. PullSteps \subseteq Steps /\ Idle.at = "none"
    BY BusyIsNotIdle DEF PullSteps, Steps
  <1>1. /\ op[c].at \in PullSteps /\ ops' = ops
        /\ UNCHANGED <<memory, acked, crashed>>
        /\ tmps' \subseteq tmps \cup {op[c].id}
        /\ \/ \E step \in PullSteps :
                 Goto(c, step) /\ (step \in {"fetch", "mkdir", "temp"} => op[c].id \notin tmps')
           \/ Return(c) /\ op[c].id \notin tmps'
    BY DEF PullStep, Refused, Fetched, MkdirAll, CreateTemp, WriteTemp, Chmod, Rename,
           InstallFails, At, PullSteps, skillVars, memoryVars, Temporary
  <1>2. CASE Return(c) /\ op[c].id \notin tmps'
    BY <1>0, <1>1, <1>2, ReturnMoves
  <1>3. ASSUME NEW step \in PullSteps, Goto(c, step),
               step \in {"fetch", "mkdir", "temp"} => op[c].id \notin tmps'
        PROVE  /\ Moved(c) /\ op'[c].at = step /\ op' \in [Calls -> {Idle} \cup Busy]
               /\ op'[c] # Idle
    <2>1. Moved(c) /\ op'[c].at = step /\ op' \in [Calls -> {Idle} \cup Busy]
      BY <1>1, <1>3, GotoIs
    <2> QED
      BY <2>1, <1>0 DEF PullSteps
  <1> QED
    BY <1>1, <1>2, <1>3

\* The system calls of a pull, a delete and a read keep the invariant.
LEMMA PullStepInv ==
    ASSUME Inv, NEW c \in Calls, PullStep(c)
    PROVE  Inv'
  <1> USE DEF Inv
  <1>1. /\ Moved(c) /\ op' \in [Calls -> {Idle} \cup Busy]
        /\ op[c].at \in PullSteps
        /\ tmps' \subseteq tmps \cup {op[c].id}
        /\ op'[c] = Idle => op[c].id \notin tmps'
        /\ op'[c].at \in {"fetch", "mkdir", "temp"} => op[c].id \notin tmps'
        /\ UNCHANGED <<memory, acked, crashed>>
    BY PullMoves
  <1>2. /\ op[c] \in Busy /\ op[c] # Idle /\ ops' = ops
        /\ op[c].id \in Id /\ op[c].id <= ops
        /\ op[c].kind = "pull"
    BY <1>1, BusyIsNotIdle
       DEF Moved, Busy, Numbered, Fits, PullSteps, DeleteSteps, RememberSteps, WriteSteps
  <1>3. TypeOK'
    <2>1. dir' \in BOOLEAN /\ held' \in BOOLEAN
      BY DEF PullStep, Refused, Fetched, MkdirAll, CreateTemp, WriteTemp, Chmod, Rename,
             InstallFails, skillVars, TypeOK
    <2>2. skill' \in File /\ seen' \in File
      <3>1. op[c].id \in 0 .. MaxOps
        BY <1>2, OpsAssumption DEF Id
      <3>2. [pull |-> op[c].id, whole |-> TRUE] \in File
        BY <3>1 DEF File
      <3> QED
        BY <3>2 DEF PullStep, Refused, Fetched, MkdirAll, CreateTemp, WriteTemp, Chmod,
               Rename, InstallFails, skillVars, TypeOK
    <2>3. tmps' \in SUBSET Id
      BY <1>1, <1>2 DEF TypeOK
    <2> QED
      BY <1>1, <1>2, <2>1, <2>2, <2>3 DEF TypeOK, Busy, Steps
  <1>4. Numbered'
    BY <1>1, MovedNumbered
  <1>5. Whole'
    <2>1. \/ UNCHANGED <<skill, seen, held>>
          \/ skill' = [pull |-> op[c].id, whole |-> TRUE] /\ UNCHANGED seen
      BY DEF PullStep, Refused, Fetched, MkdirAll, CreateTemp, WriteTemp, Chmod, Rename,
             InstallFails, skillVars
    <2>2. [pull |-> op[c].id, whole |-> TRUE] # Absent
      BY <1>2, OpsAssumption DEF Absent, Id
    <2> QED
      BY <2>1, <2>2 DEF Whole
  <1>6. Temporary'
    <2>1. \A i \in tmps' : i <= ops'
      BY <1>1, <1>2 DEF Temporary
    <2>2. ASSUME NEW d \in Calls, op'[d].at \in {"fetch", "mkdir", "temp"}
          PROVE  op'[d].id \notin tmps'
      <3>1. CASE d = c
        <4>1. op'[c].id = op[c].id
          BY <1>1, <2>2, <3>1, BusyIsNotIdle DEF Moved
        <4> QED
          BY <1>1, <2>2, <3>1, <4>1
      <3>2. CASE d # c
        <4>1. op'[d] = op[d]
          BY <1>1, <3>2 DEF Moved
        <4>2. op[d].id # op[c].id
          BY <1>2, <2>2, <3>2, <4>1, BusyIsNotIdle DEF Numbered
        <4> QED
          BY <1>1, <2>2, <4>1, <4>2 DEF Temporary
      <3> QED
        BY <3>1, <3>2
    <2>3. NoLitter'
      <3> SUFFICES ASSUME NEW i \in tmps', i \notin crashed
                   PROVE  \E d \in Calls : op'[d].kind = "pull" /\ op'[d].id = i
        BY <1>1 DEF NoLitter
      <3>1. CASE i = op[c].id
        <4>1. op'[c].kind = "pull" /\ op'[c].id = i
          BY <1>1, <1>2, <3>1 DEF Moved
        <4> QED
          BY <4>1
      <3>2. CASE i # op[c].id
        <4>1. i \in tmps
          BY <1>1, <3>2
        <4>2. PICK d \in Calls : op[d].kind = "pull" /\ op[d].id = i
          BY <4>1 DEF Temporary, NoLitter
        <4>3. op'[d] = op[d]
          BY <1>1, <3>2, <4>2 DEF Moved
        <4> QED
          BY <4>2, <4>3
      <3> QED
        BY <3>1, <3>2
    <2> QED
      BY <2>1, <2>2, <2>3 DEF Temporary
  <1>7. Sections'
    <2>1. ASSUME NEW d \in Calls, op'[d].at \in RememberSteps \cup WriteSteps
          PROVE  op'[d] = op[d]
      <3>1. d # c
        BY <1>1, <1>2, <2>1, BusyIsNotIdle
           DEF Moved, Fits, PullSteps, DeleteSteps, RememberSteps, WriteSteps
      <3> QED
        BY <1>1, <3>1 DEF Moved
    <2> QED
      BY <1>1, <1>2, <2>1 DEF Sections
  <1>8. Kept'
    BY <1>1 DEF Kept
  <1> QED
    BY <1>3, <1>4, <1>5, <1>6, <1>7, <1>8

\* A delete or a read has no temporary file of its own.
LEMMA ReaderStepInv ==
    ASSUME Inv, NEW c \in Calls, DeleteStep(c) \/ ReadSkill(c)
    PROVE  Inv'
  <1> USE DEF Inv
  <1>1. /\ op[c].at \in DeleteSteps \cup {"read"} /\ ops' = ops
        /\ UNCHANGED <<memory, acked, crashed>>
        /\ \/ op[c].at \in DeleteSteps /\ \E step \in DeleteSteps : Goto(c, step)
           \/ Return(c)
    BY DEF DeleteStep, Stat, RemoveEntries, RemoveDir, ReadSkill, At, DeleteSteps,
           skillVars, memoryVars
  <1>2. Moved(c) /\ op' \in [Calls -> {Idle} \cup Busy]
    <2>1. DeleteSteps \cup {"read"} \subseteq Steps
      BY DEF DeleteSteps, Steps
    <2>2. CASE Return(c)
      BY <1>1, <2>1, <2>2, ReturnMoves
    <2>3. CASE op[c].at \in DeleteSteps /\ \E step \in DeleteSteps : Goto(c, step)
      BY <1>1, <2>3, GotoIs
    <2> QED
      BY <1>1, <2>2, <2>3
  <1>3. /\ op[c] \in Busy /\ op[c] # Idle
        /\ op[c].kind \in {"delete", "read"}
        /\ op'[c].at \in DeleteSteps \cup {"read", "none"}
    BY <1>1, <1>2, BusyIsNotIdle
       DEF Moved, Busy, Numbered, Fits, PullSteps, DeleteSteps, RememberSteps, WriteSteps
  <1>4. /\ dir' \in BOOLEAN /\ skill' \in {skill, Absent} /\ seen' \in {seen, skill}
        /\ tmps' \subseteq tmps
        /\ (held' = FALSE \/ UNCHANGED <<held, skill>>)
    BY DEF DeleteStep, Stat, RemoveEntries, RemoveDir, ReadSkill, skillVars, TypeOK
  <1>5. TypeOK'
    <2>1. 0 \in 0 .. MaxOps
      BY OpsAssumption
    <2>2. Absent \in File
      BY <2>1 DEF Absent, File
    <2>3. held' \in BOOLEAN
      BY <1>4 DEF TypeOK
    <2> QED
      BY <1>1, <1>2, <1>4, <2>2, <2>3 DEF TypeOK, Busy, Steps
  <1>6. Numbered'
    BY <1>2, MovedNumbered
  <1>7. Whole'
    BY <1>4 DEF Whole, Absent
  <1>8. Temporary'
    <2>1. ASSUME NEW d \in Calls, op'[d].at \in {"fetch", "mkdir", "temp"}
          PROVE  op'[d] = op[d]
      BY <1>2, <1>3, <2>1 DEF Moved, DeleteSteps
    <2>2. \A d \in Calls : op[d].kind = "pull" => op'[d] = op[d]
      BY <1>2, <1>3 DEF Moved
    <2> QED
      BY <1>1, <1>4, <2>1, <2>2 DEF Temporary, NoLitter
  <1>9. Sections'
    <2>1. ASSUME NEW d \in Calls, op'[d].at \in RememberSteps \cup WriteSteps
          PROVE  op'[d] = op[d]
      BY <1>2, <1>3, <2>1 DEF Moved, DeleteSteps, RememberSteps, WriteSteps
    <2> QED
      BY <1>1, <2>1 DEF Sections
  <1>10. Kept'
    BY <1>1 DEF Kept
  <1> QED
    BY <1>5, <1>6, <1>7, <1>8, <1>9, <1>10

---------------------------------------------------------------------------
(* The steps on MEMORY.md: those of remember and write_file *)

MemoryStep(c) == Open(c) \/ WriteSection(c) \/ SectionFails(c) \/ Truncate(c) \/ Replace(c)

\* What a call does to the sections: nothing, one more at the end, none left, or
\* its own in the place of the first k.
LEMMA MemoryMoves ==
    ASSUME Inv, NEW c \in Calls, MemoryStep(c)
    PROVE  /\ Moved(c) /\ op' \in [Calls -> {Idle} \cup Busy]
           /\ op[c].at \in RememberSteps \cup WriteSteps
           /\ UNCHANGED <<dir, skill, tmps, seen, held, crashed>>
           /\ \/ UNCHANGED <<memory, acked>>
              \/ /\ op'[c] = Idle
                 /\ \E w \in BOOLEAN :
                       /\ memory' = memory \o <<Entry(c, w)>>
                       /\ acked' = acked \/ (w /\ acked' = acked \cup {op[c].id})
              \/ memory' = <<>> /\ acked' = {}
              \/ /\ op'[c] = Idle
                 /\ \E k \in 0 .. Len(memory) :
                       /\ memory' = <<Entry(c, TRUE)>> \o SubSeq(memory, k + 1, Len(memory))
                       /\ acked' = acked \ {memory[i].id : i \in 1 .. k}
  <1> USE DEF Inv
  <1>0. RememberSteps \cup WriteSteps \subseteq Steps
    BY DEF RememberSteps, WriteSteps, Steps
  <1>1. CASE Open(c)
    <2>1. op[c].at = "open" /\ UNCHANGED <<ops, skillVars, memory, acked, crashed>>
      BY <1>1 DEF Open, At, memoryVars
    <2>2. Len(memory) \in Nat
      BY LenProperties DEF TypeOK
    <2>3. op' = [op EXCEPT ![c] = [op[c] EXCEPT !.at = "append", !.end = Len(memory)]]
      BY <1>1, OpType DEF Open
    <2>4. Moved(c) /\ op' \in [Calls -> {Idle} \cup Busy]
      BY <2>1, <2>2, <2>3, GotoMoves DEF RememberSteps
    <2> QED
      BY <2>1, <2>4 DEF RememberSteps, skillVars
  <1>2. CASE WriteSection(c) \/ SectionFails(c)
    <2>1. op[c].at \in RememberSteps /\ Return(c) /\ UNCHANGED <<ops, skillVars, crashed>>
      BY <1>2 DEF WriteSection, SectionFails, At, RememberSteps
    <2>2. Moved(c) /\ op'[c] = Idle /\ op' \in [Calls -> {Idle} \cup Busy]
      BY <1>0, <2>1, ReturnMoves
    <2>3. \/ UNCHANGED <<memory, acked>>
          \/ \E w \in BOOLEAN :
                /\ memory' = memory \o <<Entry(c, w)>>
                /\ acked' = acked \/ (w /\ acked' = acked \cup {op[c].id})
      BY <1>2 DEF WriteSection, SectionFails
    <2> QED
      BY <2>1, <2>2, <2>3 DEF skillVars
  <1>3. CASE Truncate(c)
    <2>1. /\ op[c].at = "truncate" /\ Goto(c, "replace")
          /\ UNCHANGED <<ops, skillVars, crashed>>
          /\ memory' = <<>> /\ acked' = {}
      BY <1>3 DEF Truncate, At
    <2>2. Moved(c) /\ op' \in [Calls -> {Idle} \cup Busy]
      BY <2>1, GotoIs DEF WriteSteps
    <2> QED
      BY <2>1, <2>2 DEF skillVars, WriteSteps
  <1>4. CASE Replace(c)
    <2>1. /\ op[c].at \in WriteSteps /\ Return(c)
          /\ UNCHANGED <<ops, skillVars, crashed>>
      BY <1>4 DEF Replace, At, WriteSteps
    <2>2. Moved(c) /\ op'[c] = Idle /\ op' \in [Calls -> {Idle} \cup Busy]
      BY <1>0, <2>1, ReturnMoves
    <2> QED
      BY <1>4, <2>1, <2>2 DEF Replace, skillVars
  <1> QED
    BY <1>1, <1>2, <1>3, <1>4 DEF MemoryStep

\* The sections of MEMORY.md after such a step: every one is the call's own or was
\* there before, none stands twice, and an acknowledged one is there.
SectionsMoved(c) ==
    /\ memory' \in Seq(Section)
    /\ \A i \in DOMAIN memory' :
          \/ memory'[i].id = op[c].id /\ op'[c] = Idle
          \/ \E j \in DOMAIN memory : memory'[i].id = memory[j].id
    /\ \A i, j \in DOMAIN memory' : memory'[i].id = memory'[j].id => i = j
    /\ acked' \in SUBSET Id
    /\ Kept'

\* A writer of MEMORY.md moves on.
LEMMA MemoryMoved ==
    ASSUME Inv, NEW c \in Calls, MemoryStep(c)
    PROVE  SectionsMoved(c)
  <1> USE DEF Inv
  <1>1. /\ op[c] \in Busy /\ op[c].id \in Id
        /\ op[c].at \in RememberSteps \cup WriteSteps
    BY MemoryMoves DEF Moved, Busy
  <1>2. /\ memory \in Seq(Section) /\ Len(memory) \in Nat
        /\ DOMAIN memory = 1 .. Len(memory)
        /\ \A i \in 1 .. Len(memory) : memory[i] \in Section
        /\ acked \in SUBSET Id
    BY LenProperties, ElementOfSeq DEF TypeOK
  <1>3. \A i \in 1 .. Len(memory) : memory[i].id # op[c].id
    BY <1>1, <1>2 DEF Sections
  <1>4. \A i, j \in 1 .. Len(memory) : memory[i].id = memory[j].id => i = j
    BY <1>2 DEF Sections
  <1>5. \A e \in acked : \E i \in 1 .. Len(memory) : memory[i].id = e /\ memory[i].whole
    BY <1>2 DEF Kept
  <1>6. \A w \in BOOLEAN : /\ Entry(c, w) \in Section
                          /\ Entry(c, w).id = op[c].id /\ Entry(c, w).whole = w
    BY <1>1 DEF Entry, Section
  <1>7. CASE UNCHANGED <<memory, acked>>
    BY <1>2, <1>4, <1>5, <1>7 DEF SectionsMoved, Kept
  <1>8. CASE memory' = <<>> /\ acked' = {}
    BY <1>8 DEF SectionsMoved, Kept
  <1>9. ASSUME NEW w \in BOOLEAN, op'[c] = Idle,
               memory' = memory \o <<Entry(c, w)>>,
               acked' = acked \/ (w /\ acked' = acked \cup {op[c].id})
        PROVE  SectionsMoved(c)
    <2> DEFINE n == Len(memory) x == Entry(c, w)
    <2>1. x \in Section /\ x.id = op[c].id /\ x.whole = w
      BY <1>6
    <2> HIDE DEF x
    <2>2. memory' = Append(memory, x)
      BY <1>2, <1>9, <2>1, AppendIsConcat DEF x
    <2>3. /\ memory' \in Seq(Section) /\ Len(memory') = n + 1
          /\ DOMAIN memory' = 1 .. n + 1
          /\ \A i \in 1 .. n : memory'[i] = memory[i]
          /\ memory'[n + 1] = x
      BY <1>2, <2>1, <2>2, AppendProperties, LenProperties
    <2> HIDE DEF n
    <2>4. \A i \in 1 .. n + 1 : i \in 1 .. n \/ i = n + 1
      BY <1>2 DEF n
    <2>5. \A i \in DOMAIN memory' :
             \/ memory'[i].id = op[c].id /\ op'[c] = Idle
             \/ \E j \in DOMAIN memory : memory'[i].id = memory[j].id
      BY <1>2, <1>9, <2>1, <2>3, <2>4 DEF n
    <2>6. \A i, j \in DOMAIN memory' : memory'[i].id = memory'[j].id => i = j
      BY <1>3, <1>4, <2>1, <2>3, <2>4 DEF n
    <2>7. acked' \in SUBSET Id
      BY <1>1, <1>2, <1>9
    <2>8. Kept'
      <3> SUFFICES ASSUME NEW e \in acked'
                   PROVE  \E i \in DOMAIN memory' : memory'[i].id = e /\ memory'[i].whole
        BY DEF Kept
      <3>1. CASE e \in acked
        <4>1. PICK i \in 1 .. n : memory[i].id = e /\ memory[i].whole
          BY <1>5, <3>1 DEF n
        <4>2. i \in 1 .. n + 1
          BY <1>2 DEF n
        <4> QED
          BY <2>3, <4>1, <4>2
      <3>2. CASE e \notin acked
        <4>1. e = op[c].id /\ w
          BY <1>9, <3>2
        <4>2. n + 1 \in 1 .. n + 1
          BY <1>2 DEF n
        <4> QED
          BY <2>1, <2>3, <4>1, <4>2
      <3> QED
        BY <3>1, <3>2
    <2> QED
      BY <2>3, <2>5, <2>6, <2>7, <2>8 DEF SectionsMoved
  <1>10. ASSUME NEW k \in 0 .. Len(memory), op'[c] = Idle,
                memory' = <<Entry(c, TRUE)>> \o SubSeq(memory, k + 1, Len(memory)),
                acked' = acked \ {memory[i].id : i \in 1 .. k}
         PROVE  SectionsMoved(c)
    <2> DEFINE n == Len(memory) x == Entry(c, TRUE) rest == SubSeq(memory, k + 1, n)
    <2>1. x \in Section /\ x.id = op[c].id
      BY <1>6
    <2>2. n \in Nat /\ k \in Nat /\ k <= n
      BY <1>2
    <2> HIDE DEF x, n
    <2>3. \A i \in k + 1 .. n : memory[i] \in Section
      BY <1>2, <2>2 DEF n
    <2>4. /\ rest \in Seq(Section)
          /\ Len(rest) = IF k + 1 <= n THEN n - (k + 1) + 1 ELSE 0
          /\ \A i \in 1 .. n - (k + 1) + 1 : rest[i] = memory[(k + 1) + i - 1]
      BY <2>2, <2>3, SubSeqProperties, SMTT(20)
    <2>5. /\ Len(rest) = n - k
          /\ \A i \in 1 .. n - k : rest[i] = memory[k + i]
      BY <2>2, <2>4
    <2>6. memory' = <<x>> \o rest
      BY <1>10 DEF x, n
    <2> HIDE DEF rest
    <2>7. <<x>> \in Seq(Section) /\ Len(<<x>>) = 1 /\ <<x>>[1] = x
      BY <2>1
    <2>8. /\ memory' \in Seq(Section) /\ Len(memory') = 1 + (n - k)
          /\ \A i \in 1 .. 1 + (n - k) :
                memory'[i] = IF i <= 1 THEN <<x>>[i] ELSE rest[i - 1]
      BY <2>4, <2>5, <2>6, <2>7, ConcatProperties
    <2>9. /\ DOMAIN memory' = 1 .. 1 + (n - k)
          /\ memory'[1] = x
          /\ \A i \in 2 .. 1 + (n - k) :
                memory'[i] = memory[k + i - 1] /\ k + i - 1 \in 1 .. n
      <3>1. DOMAIN memory' = 1 .. 1 + (n - k)
        BY <2>8, LenProperties
      <3>2. memory'[1] = x
        BY <2>2, <2>7, <2>8
      <3>3. ASSUME NEW i \in 2 .. 1 + (n - k)
            PROVE  memory'[i] = memory[k + i - 1] /\ k + i - 1 \in 1 .. n
        <4>1. i - 1 \in 1 .. n - k /\ i \in 1 .. 1 + (n - k) /\ ~(i <= 1)
          BY <2>2
        <4>2. memory'[i] = rest[i - 1]
          BY <2>8, <4>1
        <4>3. rest[i - 1] = memory[k + (i - 1)]
          BY <2>5, <4>1
        <4> QED
          BY <2>2, <4>1, <4>2, <4>3
      <3> QED
        BY <3>1, <3>2, <3>3
    <2>10. \A i \in 1 .. 1 + (n - k) : i = 1 \/ i \in 2 .. 1 + (n - k)
      BY <2>2
    <2>11. \A i \in DOMAIN memory' :
             \/ memory'[i].id = op[c].id /\ op'[c] = Idle
             \/ \E j \in DOMAIN memory : memory'[i].id = memory[j].id
      BY <1>2, <1>10, <2>1, <2>9, <2>10 DEF n
    <2>12. \A i, j \in DOMAIN memory' : memory'[i].id = memory'[j].id => i = j
      <3> SUFFICES ASSUME NEW i \in DOMAIN memory', NEW j \in DOMAIN memory',
                          memory'[i].id = memory'[j].id
                   PROVE  i = j
        OBVIOUS
      <3>1. CASE i = 1 \/ j = 1
        BY <1>3, <2>1, <2>9, <2>10, <3>1 DEF n
      <3>2. CASE i # 1 /\ j # 1
        <4>1. i \in 2 .. 1 + (n - k) /\ j \in 2 .. 1 + (n - k)
          BY <2>9, <2>10, <3>2
        <4>2. /\ memory'[i] = memory[k + i - 1] /\ k + i - 1 \in 1 .. n
              /\ memory'[j] = memory[k + j - 1] /\ k + j - 1 \in 1 .. n
          BY <2>9, <4>1
        <4>3. k + i - 1 = k + j - 1
          BY <1>4, <4>2 DEF n
        <4> QED
          BY <2>2, <4>1, <4>3
      <3> QED
        BY <3>1, <3>2
    <2>13. acked' \in SUBSET Id
      BY <1>2, <1>10
    <2>14. Kept'
      <3> SUFFICES ASSUME NEW e \in acked'
                   PROVE  \E i \in DOMAIN memory' : memory'[i].id = e /\ memory'[i].whole
        BY DEF Kept
      <3>1. e \in acked /\ \A i \in 1 .. k : memory[i].id # e
        BY <1>10
      <3>2. PICK j \in 1 .. n : memory[j].id = e /\ memory[j].whole
        BY <1>5, <3>1 DEF n
      <3>3. j \in k + 1 .. n
        BY <2>2, <3>1, <3>2
      <3> DEFINE i == j - k + 1
      <3>4. i \in 2 .. 1 + (n - k) /\ i \in 1 .. 1 + (n - k) /\ k + i - 1 = j
        BY <2>2, <3>3
      <3> HIDE DEF i
      <3>5. memory'[i] = memory[j]
        BY <2>9, <3>4
      <3> QED
        BY <2>9, <3>2, <3>4, <3>5
    <2> QED
      BY <2>8, <2>11, <2>12, <2>13, <2>14 DEF SectionsMoved
  <1> QED
    BY <1>7, <1>8, <1>9, <1>10, MemoryMoves

\* The system calls of the writers of MEMORY.md keep the invariant.
LEMMA MemoryStepInv ==
    ASSUME Inv, NEW c \in Calls, MemoryStep(c)
    PROVE  Inv'
  <1> USE DEF Inv
  <1>1. /\ Moved(c) /\ op' \in [Calls -> {Idle} \cup Busy]
        /\ op[c].at \in RememberSteps \cup WriteSteps
        /\ UNCHANGED <<dir, skill, tmps, seen, held, crashed>>
        /\ SectionsMoved(c)
    BY MemoryMoves, MemoryMoved
  <1>2. /\ op[c] \in Busy /\ op[c] # Idle /\ ops' = ops
        /\ op[c].kind \in {"remember", "write"}
        /\ op[c].id <= ops
        /\ op'[c].at \in RememberSteps \cup WriteSteps \cup {"none"}
    BY <1>1, BusyIsNotIdle
       DEF Moved, Busy, Numbered, Fits, PullSteps, DeleteSteps, RememberSteps, WriteSteps
  <1>3. TypeOK'
    BY <1>1, <1>2 DEF TypeOK, Busy, Steps, SectionsMoved
  <1>4. Numbered'
    BY <1>1, MovedNumbered
  <1>5. Whole' /\ Kept'
    BY <1>1 DEF Whole, SectionsMoved
  <1>6. Temporary'
    <2>1. ASSUME NEW d \in Calls, op'[d].at \in {"fetch", "mkdir", "temp"}
          PROVE  op'[d] = op[d]
      BY <1>1, <1>2, <2>1 DEF Moved, RememberSteps, WriteSteps
    <2>2. \A d \in Calls : op[d].kind = "pull" => op'[d] = op[d]
      BY <1>1, <1>2 DEF Moved
    <2> QED
      BY <1>1, <1>2, <2>1, <2>2 DEF Temporary, NoLitter
  <1>7. Sections'
    <2>1. \A i \in DOMAIN memory' : memory'[i].id <= ops'
      BY <1>1, <1>2 DEF SectionsMoved, Sections
    <2>2. ASSUME NEW d \in Calls, op'[d].at \in RememberSteps \cup WriteSteps,
                 NEW i \in DOMAIN memory'
          PROVE  memory'[i].id # op'[d].id
      <3>1. op'[d].id = op[d].id /\ op[d] # Idle
            /\ op[d].at \in RememberSteps \cup WriteSteps
        BY <1>1, <1>2, <2>2, BusyIsNotIdle DEF Moved, RememberSteps, WriteSteps
      <3>2. \A j \in DOMAIN memory : memory[j].id # op[d].id
        BY <3>1 DEF Sections
      <3>3. CASE \E j \in DOMAIN memory : memory'[i].id = memory[j].id
        BY <3>1, <3>2, <3>3
      <3>4. CASE memory'[i].id = op[c].id /\ op'[c] = Idle
        <4>1. d # c
          <5>1. op'[d] # Idle
            BY <2>2, BusyIsNotIdle DEF RememberSteps, WriteSteps
          <5> QED
            BY <3>4, <5>1
        <4>2. op[d].id # op[c].id
          BY <1>2, <3>1, <4>1 DEF Numbered
        <4> QED
          BY <3>1, <3>4, <4>2
      <3> QED
        BY <1>1, <3>3, <3>4 DEF SectionsMoved
    <2> QED
      BY <1>1, <2>1, <2>2 DEF SectionsMoved, Sections
  <1> QED
    BY <1>3, <1>4, <1>5, <1>6, <1>7

---------------------------------------------------------------------------
(* Calls begin and processes crash *)

\* A call begins, in an idle slot.
LEMMA StartInv ==
    ASSUME Inv, NEW c \in Calls, Start(c)
    PROVE  Inv'
  <1> USE DEF Inv
  <1>1. PICK v \in Busy : /\ op' = [op EXCEPT ![c] = v]
                          /\ Fits(v) /\ v.id = ops + 1 /\ v.at # "none"
    <2>1. ops + 1 \in Id
      BY OpsAssumption DEF Start, TypeOK, Id
    <2>2. PICK k \in Kinds :
             op' = [op EXCEPT ![c] =
                      [kind |-> k, id |-> ops + 1, end |-> 0,
                       at |-> CASE k = "pull" -> "fetch"
                                [] k = "delete" -> "stat"
                                [] k = "read" -> "read"
                                [] k = "remember" -> "open"
                                [] k = "write" -> "truncate"]]
      BY DEF Start
    <2> DEFINE first == CASE k = "pull" -> "fetch"
                          [] k = "delete" -> "stat"
                          [] k = "read" -> "read"
                          [] k = "remember" -> "open"
                          [] k = "write" -> "truncate"
               v == [kind |-> k, id |-> ops + 1, end |-> 0, at |-> first]
    <2>3. \/ k = "pull" /\ first = "fetch"
          \/ k = "delete" /\ first = "stat"
          \/ k = "read" /\ first = "read"
          \/ k = "remember" /\ first = "open"
          \/ k = "write" /\ first = "truncate"
      BY DEF Kinds
    <2>4. op' = [op EXCEPT ![c] = v]
      BY <2>2
    <2> HIDE DEF first
    <2>5. first \in Steps
      BY <2>3 DEF Steps
    <2>6. v \in Busy /\ v.id = ops + 1 /\ v.at = first /\ v.kind = k
      BY <2>1, <2>5 DEF Busy
    <2> HIDE DEF v
    <2>7. Fits(v) /\ v.at # "none"
      BY <2>3, <2>6 DEF Fits, PullSteps, DeleteSteps, RememberSteps, WriteSteps
    <2> QED
      BY <2>4, <2>6, <2>7
  <1>2. /\ op[c] = Idle /\ ops \in Nat /\ ops' = ops + 1 /\ ops' \in 0 .. MaxOps
        /\ UNCHANGED <<dir, skill, tmps, seen, held, memory, acked, crashed>>
    BY OpsAssumption DEF Start, TypeOK, skillVars, memoryVars
  <1>3. /\ op' \in [Calls -> {Idle} \cup Busy] /\ op'[c] = v
        /\ \A d \in Calls : d # c => op'[d] = op[d]
    BY <1>1, OpType
  <1>4. TypeOK'
    BY <1>2, <1>3 DEF TypeOK, Busy, Steps
  <1>5. \A d \in Calls : d # c /\ op[d] # Idle => op[d].id \in Nat /\ op[d].id <= ops
    BY OpType, OpsAssumption DEF Numbered, Busy, Id
  <1>6. Numbered'
    <2>1. \A d \in Calls : op'[d] # Idle => op'[d].id <= ops' /\ Fits(op'[d])
      BY <1>1, <1>2, <1>3, <1>5 DEF Numbered
    <2>2. ASSUME NEW d \in Calls, NEW e \in Calls, d # e, op'[d] # Idle, op'[e] # Idle
          PROVE  op'[d].id # op'[e].id
      BY <1>1, <1>2, <1>3, <1>5, <2>2 DEF Numbered
    <2> QED
      BY <2>1, <2>2 DEF Numbered
  <1>7. Whole' /\ Kept'
    BY <1>2 DEF Whole, Kept
  <1>8. Temporary'
    <2>1. \A i \in tmps : i \in Nat /\ i <= ops
      BY OpsAssumption DEF TypeOK, Temporary, Id
    <2>2. NoLitter'
      <3> SUFFICES ASSUME NEW i \in tmps, i \notin crashed
                   PROVE  \E d \in Calls : op'[d].kind = "pull" /\ op'[d].id = i
        BY <1>2 DEF NoLitter
      <3>1. PICK d \in Calls : op[d].kind = "pull" /\ op[d].id = i
        BY DEF Temporary, NoLitter
      <3>2. d # c
        BY <1>2, <3>1, BusyIsNotIdle
      <3> QED
        BY <1>3, <3>1, <3>2
    <2> QED
      BY <1>1, <1>2, <1>3, <2>1, <2>2 DEF Temporary
  <1>9. Sections'
    <2>1. \A i \in DOMAIN memory : memory[i].id \in Nat /\ memory[i].id <= ops
      <3>1. \A i \in DOMAIN memory : memory[i] \in Section
        BY LenProperties, ElementOfSeq DEF TypeOK
      <3>2. \A i \in DOMAIN memory : memory[i].id \in Id
        BY <3>1 DEF Section
      <3> QED
        BY <3>2, OpsAssumption DEF Sections, Id
    <2> QED
      BY <1>1, <1>2, <1>3, <2>1 DEF Sections
  <1> QED
    BY <1>4, <1>6, <1>7, <1>8, <1>9

\* The process dies: the calls are gone, the files stay as they are.
LEMMA CrashInv ==
    ASSUME Inv, Crash
    PROVE  Inv'
  <1> USE DEF Inv
  <1>1. PICK kinds \in {Puller, Agent} :
           LET gone == {c \in Calls : op[c].kind \in kinds} IN
           /\ op' = [c \in Calls |-> IF c \in gone THEN Idle ELSE op[c]]
           /\ crashed' = crashed \cup {op[c].id : c \in gone}
           /\ UNCHANGED <<ops, dir, skill, tmps, seen, held, memory, acked>>
    BY DEF Crash, skillVars, memoryVars
  <1> DEFINE gone == {c \in Calls : op[c].kind \in kinds}
  <1>2. /\ op' \in [Calls -> {Idle} \cup Busy]
        /\ \A c \in Calls : op'[c] = op[c] \/ (op'[c] = Idle /\ op[c].id \in crashed')
    BY <1>1, OpType
  <1>3. crashed' \in SUBSET Id
    <2>1. \A c \in gone : op[c] \in Busy
      BY OpType, BusyIsNotIdle DEF Puller, Agent
    <2>2. \A c \in gone : op[c].id \in Id
      BY <2>1 DEF Busy
    <2> QED
      BY <1>1, <2>2 DEF TypeOK
  <1>4. TypeOK'
    BY <1>1, <1>2, <1>3 DEF TypeOK, Busy, Steps
  <1>5. Numbered'
    BY <1>1, <1>2 DEF Numbered
  <1>6. Whole' /\ Kept'
    BY <1>1 DEF Whole, Kept
  <1>7. Temporary'
    <2>1. NoLitter'
      <3>1. crashed \subseteq crashed'
        BY <1>1
      <3> QED
        BY <1>1, <1>2, <3>1 DEF Temporary, NoLitter
    <2> QED
      BY <1>1, <1>2, <2>1, BusyIsNotIdle DEF Temporary
  <1>8. Sections'
    BY <1>1, <1>2, BusyIsNotIdle DEF Sections, RememberSteps, WriteSteps
  <1> QED
    BY <1>4, <1>5, <1>6, <1>7, <1>8

---------------------------------------------------------------------------
(* The properties *)

\* No files and no calls to begin with.
LEMMA InitInv == Init => Inv
  <1> SUFFICES ASSUME Init PROVE Inv
    OBVIOUS
  <1>1. 0 \in 0 .. MaxOps
    BY OpsAssumption
  <1>2. Absent \in File
    BY <1>1 DEF Absent, File
  <1>3. TypeOK
    <2>1. op \in [Calls -> {Idle} \cup Busy]
      BY DEF Init
    <2> QED
      BY <1>1, <1>2, <2>1, EmptySeq DEF Init, TypeOK, Busy, Steps
  <1>4. Numbered /\ Temporary /\ Sections /\ Kept
    BY BusyIsNotIdle
       DEF Init, Numbered, Temporary, NoLitter, Sections, Kept, RememberSteps, WriteSteps
  <1>5. Whole
    BY DEF Init, Whole, Absent
  <1> QED
    BY <1>3, <1>4, <1>5 DEF Inv

\* Whatever pulls, deletes, reads and writers of MEMORY.md do at the same time,
\* with failing calls and crashes, directories are whole or temporary and sections
\* follow one another (the puller's rename and the O_APPEND writes of the memory
\* tool).
THEOREM Invariance == Spec => []Inv
  <1>1. ASSUME Inv, [Next]_vars PROVE Inv'
    <2>1. CASE UNCHANGED vars
      BY <1>1, <2>1 DEF vars, skillVars, memoryVars, Inv, TypeOK, Numbered, Whole,
                        Temporary, NoLitter, Sections, Kept
    <2>2. CASE Crash
      BY <1>1, <2>2, CrashInv
    <2>3. ASSUME NEW c \in Calls, Start(c) \/ Step(c) PROVE Inv'
      BY <1>1, <2>3, StartInv, PullStepInv, ReaderStepInv, MemoryStepInv
         DEF Step, PullStep, DeleteStep, MemoryStep
    <2> QED
      BY <1>1, <2>1, <2>2, <2>3 DEF Next
  <1> QED
    BY InitInv, <1>1, PTL DEF Spec

\* Readers, clients and the volume see all of a pulled skill or nothing, whatever
\* pulls, deletes and crashes run together (server.go:113-154).
THEOREM Atomic == Spec => []PullIsAtomic
  <1>1. Inv => PullIsAtomic
    BY DEF Inv, Whole, Temporary, PullIsAtomic, NoTornSkill, AckedIsInstalled
  <1> QED
    BY <1>1, Invariance, PTL

\* An acknowledged entry stands whole and once in MEMORY.md until write_file
\* replaces it (memory.go:60, 91).
THEOREM Remembered == Spec => []RememberedIsKept
  <1>1. Inv => RememberedIsKept
    <2> SUFFICES ASSUME Inv, NEW e \in acked
                 PROVE  Cardinality({i \in DOMAIN memory :
                                       memory[i].id = e /\ memory[i].whole}) = 1
      BY DEF RememberedIsKept
    <2>1. PICK i \in DOMAIN memory : memory[i].id = e /\ memory[i].whole
      BY DEF Inv, Kept
    <2>2. {j \in DOMAIN memory : memory[j].id = e /\ memory[j].whole} = {i}
      BY <2>1 DEF Inv, Sections
    <2> QED
      BY <2>2, FS_Singleton
  <1> QED
    BY <1>1, Invariance, PTL
=============================================================================
