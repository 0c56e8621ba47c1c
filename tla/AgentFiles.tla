----------------------------- MODULE AgentFiles -----------------------------
(***************************************************************************)
(* The two files of an agent's pod that several goroutines and processes   *)
(* write: a skill's SKILL.md, installed by the skill-puller                *)
(* (internal/skillpuller), removed by "docsclaw skill delete" and read by  *)
(* load_skill (pkg/skills), and MEMORY.md, to which remember (pkg/memory)  *)
(* appends and which write_file may replace.  No lock is shared: an action *)
(* is one system call, and either process may crash between two of them.   *)
(***************************************************************************)
EXTENDS Naturals, Sequences, FiniteSets

CONSTANTS
    Calls,   \* goroutines that serve one call after another
    MaxOps   \* bound on the calls started

ASSUME OpsAssumption == MaxOps \in Nat

VARIABLES
    op,        \* the call each goroutine executes: its kind, number and next step
    ops,       \* calls started so far
    dir,       \* the directory of the skill exists
    skill,     \* its SKILL.md: the pull it comes from, 0 if there is none
    tmps,      \* the pulls whose temporary file exists
    memory,    \* the sections of MEMORY.md
    seen,      \* history: the SKILL.md a reader saw last
    held,      \* history: a pull was acknowledged since the last delete
    acked,     \* history: entries acknowledged and not replaced by write_file
    crashed    \* history: pulls that were cut off by a crash

skillVars == <<dir, skill, tmps, seen, held>>
memoryVars == <<memory, acked>>
vars == <<op, ops, skillVars, memoryVars, crashed>>

Id == 1 .. MaxOps
Idle == [kind |-> "none", id |-> 0, at |-> "none", end |-> 0]
Kinds == {"pull", "delete", "read", "remember", "write"}
Puller == {"pull"}
Agent == {"read", "remember", "write"}

File == [pull : 0 .. MaxOps, whole : BOOLEAN]
Absent == [pull |-> 0, whole |-> TRUE]
\* A section: an entry of remember or the content of a write_file call, whole or
\* cut off.
Section == [id : Id, whole : BOOLEAN]

TypeOK ==
    /\ op \in [Calls -> {Idle} \cup
                  [kind : Kinds, id : Id, end : Nat,
                   at : {"fetch", "mkdir", "temp", "write", "chmod", "rename", "stat",
                         "entries", "rmdir", "read", "open", "append", "truncate",
                         "replace"}]]
    /\ ops \in 0 .. MaxOps
    /\ dir \in BOOLEAN
    /\ skill \in File /\ seen \in File
    /\ tmps \in SUBSET Id
    /\ memory \in Seq(Section)
    /\ held \in BOOLEAN
    /\ acked \in SUBSET Id
    /\ crashed \in SUBSET Id

Init ==
    /\ op = [c \in Calls |-> Idle]
    /\ ops = 0
    /\ dir = FALSE /\ skill = Absent /\ tmps = {}
    /\ memory = <<>>
    /\ seen = Absent /\ held = FALSE /\ acked = {} /\ crashed = {}

At(c, step) == op[c].at = step
Goto(c, step) == op' = [op EXCEPT ![c].at = step]
Return(c) == op' = [op EXCEPT ![c] = Idle]

Start(c) ==
    /\ op[c] = Idle /\ ops < MaxOps
    /\ ops' = ops + 1
    /\ \E k \in Kinds :
          op' = [op EXCEPT ![c] =
                    [kind |-> k, id |-> ops + 1, end |-> 0,
                     at |-> CASE k = "pull" -> "fetch"
                              [] k = "delete" -> "stat"
                              [] k = "read" -> "read"
                              [] k = "remember" -> "open"
                              [] k = "write" -> "truncate"]]
    /\ UNCHANGED <<skillVars, memoryVars, crashed>>

---------------------------------------------------------------------------
(* handlePull *)

\* The request is refused, the source fails or the name is not a file name: no
\* file has been touched.
Refused(c) ==
    /\ At(c, "fetch")
    /\ Return(c)
    /\ UNCHANGED <<ops, skillVars, memoryVars, crashed>>

\* URLSource.Pull or GitHubSource.Pull: the whole content, within maxSkillSize.
Fetched(c) ==
    /\ At(c, "fetch")
    /\ Goto(c, "mkdir")
    /\ UNCHANGED <<ops, skillVars, memoryVars, crashed>>

MkdirAll(c) ==
    /\ At(c, "mkdir")
    /\ dir' = TRUE
    /\ Goto(c, "temp")
    /\ UNCHANGED <<ops, skill, tmps, seen, held, memoryVars, crashed>>

\* It fails in a directory that is gone.
CreateTemp(c) ==
    /\ At(c, "temp")
    /\ IF dir
       THEN tmps' = tmps \cup {op[c].id} /\ Goto(c, "write")
       ELSE UNCHANGED tmps /\ Return(c)
    /\ UNCHANGED <<ops, dir, skill, seen, held, memoryVars, crashed>>

\* Mutant: the content is written to SKILL.md itself, which is opened here.
WriteTemp_InPlace(c) ==
    /\ At(c, "write")
    /\ skill' = [pull |-> op[c].id, whole |-> FALSE]
    /\ Goto(c, "chmod")
    /\ UNCHANGED <<ops, dir, tmps, seen, held, memoryVars, crashed>>

\* Write and Close: also into a file that was removed in the meantime.
WriteTemp(c) ==
    /\ At(c, "write")
    /\ Goto(c, "chmod")
    /\ UNCHANGED <<ops, skillVars, memoryVars, crashed>>

Chmod(c) ==
    /\ At(c, "chmod") /\ op[c].id \in tmps
    /\ Goto(c, "rename")
    /\ UNCHANGED <<ops, skillVars, memoryVars, crashed>>

\* The temporary file takes the place of SKILL.md; status 200.
Rename(c) ==
    /\ At(c, "rename") /\ op[c].id \in tmps
    /\ skill' = [pull |-> op[c].id, whole |-> TRUE]
    /\ tmps' = tmps \ {op[c].id}
    /\ held' = TRUE
    /\ Return(c)
    /\ UNCHANGED <<ops, dir, seen, memoryVars, crashed>>

\* One of the calls fails, as Chmod and Rename do when the file is gone: the
\* temporary file is removed; status 500.
InstallFails(c) ==
    /\ op[c].at \in {"write", "chmod", "rename"}
    /\ tmps' = tmps \ {op[c].id}
    /\ Return(c)
    /\ UNCHANGED <<ops, dir, skill, seen, held, memoryVars, crashed>>

---------------------------------------------------------------------------
(* docsclaw skill delete, and the readers of a skill *)

Stat(c) ==
    /\ At(c, "stat")
    /\ IF skill # Absent THEN Goto(c, "entries") ELSE Return(c)
    /\ UNCHANGED <<ops, skillVars, memoryVars, crashed>>

\* os.RemoveAll removes what is in the directory,
RemoveEntries(c) ==
    /\ At(c, "entries")
    /\ skill' = Absent /\ tmps' = {} /\ held' = FALSE
    /\ Goto(c, "rmdir")
    /\ UNCHANGED <<ops, dir, seen, memoryVars, crashed>>

\* then the directory; if something was put into it meanwhile that fails, unless
\* it is found and removed as well.
RemoveDir(c) ==
    /\ At(c, "rmdir")
    /\ IF skill = Absent /\ tmps = {}
       THEN dir' = FALSE /\ Return(c)
       ELSE UNCHANGED dir /\ (Return(c) \/ Goto(c, "entries"))
    /\ UNCHANGED <<ops, skill, tmps, seen, held, memoryVars, crashed>>

\* load_skill, the list of the puller and Discover.
ReadSkill(c) ==
    /\ At(c, "read")
    /\ seen' = skill
    /\ Return(c)
    /\ UNCHANGED <<ops, dir, skill, tmps, held, memoryVars, crashed>>

---------------------------------------------------------------------------
(* remember and write_file on MEMORY.md *)

\* OpenFile with O_APPEND|O_CREATE|O_WRONLY, chmod, seek to the end.
Open(c) ==
    /\ At(c, "open")
    /\ op' = [op EXCEPT ![c].at = "append", ![c].end = Len(memory)]
    /\ UNCHANGED <<ops, skillVars, memoryVars, crashed>>

Entry(c, whole) == [id |-> op[c].id, whole |-> whole]

\* Mutant: without O_APPEND the entry is written at the end that Seek has found.
WriteSection_AtSeek(c) ==
    /\ At(c, "append")
    /\ memory' = SubSeq(memory, 1, op[c].end) \o <<Entry(c, TRUE)>>
                   \o SubSeq(memory, op[c].end + 2, Len(memory))
    /\ acked' = acked \cup {op[c].id}
    /\ Return(c)
    /\ UNCHANGED <<ops, skillVars, crashed>>

\* One write at the end of the file.
WriteSection(c) ==
    /\ At(c, "append")
    /\ memory' = memory \o <<Entry(c, TRUE)>>
    /\ acked' = acked \cup {op[c].id}
    /\ Return(c)
    /\ UNCHANGED <<ops, skillVars, crashed>>

\* Nothing or a part of the section is written, or Close fails after all of it was;
\* the error is returned.
SectionFails(c) ==
    /\ op[c].at \in {"open", "append"}
    /\ \/ UNCHANGED memory
       \/ At(c, "append") /\ \E whole \in BOOLEAN : memory' = memory \o <<Entry(c, whole)>>
    /\ Return(c)
    /\ UNCHANGED <<ops, skillVars, acked, crashed>>

\* os.WriteFile truncates the file,
Truncate(c) ==
    /\ At(c, "truncate")
    /\ memory' = <<>> /\ acked' = {}
    /\ Goto(c, "replace")
    /\ UNCHANGED <<ops, skillVars, crashed>>

\* then writes at its beginning, over the k first of the entries appended since.
Replace(c) ==
    /\ At(c, "replace")
    /\ \E k \in 0 .. Len(memory) :
          /\ memory' = <<Entry(c, TRUE)>> \o SubSeq(memory, k + 1, Len(memory))
          /\ acked' = acked \ {memory[i].id : i \in 1 .. k}
    /\ Return(c)
    /\ UNCHANGED <<ops, skillVars, crashed>>

---------------------------------------------------------------------------
\* The puller or the agent crashes and is restarted: its calls are gone.
Crash ==
    \E kinds \in {Puller, Agent} :
        LET gone == {c \in Calls : op[c].kind \in kinds} IN
        /\ gone # {}
        /\ op' = [c \in Calls |-> IF c \in gone THEN Idle ELSE op[c]]
        /\ crashed' = crashed \cup {op[c].id : c \in gone}
        /\ UNCHANGED <<ops, skillVars, memoryVars>>

Step(c) ==
    \/ Refused(c) \/ Fetched(c) \/ MkdirAll(c) \/ CreateTemp(c) \/ WriteTemp(c) \/ Chmod(c)
    \/ Rename(c) \/ InstallFails(c)
    \/ Stat(c) \/ RemoveEntries(c) \/ RemoveDir(c) \/ ReadSkill(c)
    \/ Open(c) \/ WriteSection(c) \/ SectionFails(c) \/ Truncate(c) \/ Replace(c)

Next == (\E c \in Calls : Start(c) \/ Step(c)) \/ Crash

Spec == Init /\ [][Next]_vars

---------------------------------------------------------------------------
(* Properties *)

\* Whoever reads a skill finds none, or the whole content of one pull, while
\* others pull it, delete it, fail or crash (server.go:113-146).
NoTornSkill == seen.whole

\* After a pull was answered with 200 the skill is there until a delete begins to
\* remove it; pulls of it that fail later do not matter (server.go:140-154).
AckedIsInstalled == held => skill # Absent

\* A temporary file belongs to a pull that is running, or was cut off by a crash:
\* failed pulls clean up after themselves, also when a delete interferes.
NoLitter ==
    \A i \in tmps : i \in crashed \/ \E c \in Calls : op[c].kind = "pull" /\ op[c].id = i

\* A pull installs all of a skill or nothing of it, for readers, for the client
\* and for the volume.
PullIsAtomic == NoTornSkill /\ AckedIsInstalled /\ NoLitter

\* An entry of which remember said "Recorded in long-term memory." stands whole and
\* once in MEMORY.md, through other entries recorded at the same time, failed
\* writes and crashes, until write_file replaces the file (memory.go:60, 91).
RememberedIsKept ==
    \A e \in acked :
        Cardinality({i \in DOMAIN memory : memory[i].id = e /\ memory[i].whole}) = 1

===========================================================================
