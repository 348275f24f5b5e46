------------------------------- MODULE Identity -------------------------------
(***************************************************************************)
(* load_or_create_identity of src/identity/keygen.py, called by several    *)
(* processes on one path. A process may crash between any two steps. The   *)
(* text of the file reaches the disk when it is closed; until then, and    *)
(* for good if the process dies first, the file exists and is empty, and   *)
(* parsing it raises.                                                      *)
(***************************************************************************)
EXTENDS FiniteSets

CONSTANTS
    Process,
    Key,            \* the keypairs, by their private seeds
    NoFile, Empty   \* contents of the path that are not keys

ASSUME FileAssumption == NoFile \notin Key /\ Empty \notin Key /\ NoFile # Empty

VARIABLES
    file,           \* the content of the path
    pc,             \* where each process is in its call
    key,            \* the keypair a process has generated or read
    drawn,          \* the keypairs generated so far: the CSPRNG repeats none
    answers,        \* history: the identities that calls have returned
    late,           \* history: processes whose call began after a call returned
    died            \* history: where in a call processes have died

vars == <<file, pc, key, drawn, answers, late, died>>

Init ==
    /\ file = NoFile
    /\ pc = [p \in Process |-> "idle"]
    /\ key \in [Process -> {NoFile}]
    /\ drawn = {} /\ answers = {} /\ late = {} /\ died = {}

Goto(p, label) == pc' = [pc EXCEPT ![p] = label]

\* Mutant: no path.exists().
LookReads(p) ==
    /\ pc[p] = "idle"
    /\ Goto(p, "read")
    /\ late' = IF answers = {} THEN late \ {p} ELSE late \cup {p}
    /\ UNCHANGED <<file, key, drawn, answers, died>>

\* path.exists()
Look(p) ==
    /\ pc[p] = "idle"
    /\ Goto(p, IF file = NoFile THEN "generate" ELSE "read")
    /\ late' = IF answers = {} THEN late \ {p} ELSE late \cup {p}
    /\ UNCHANGED <<file, key, drawn, answers, died>>

\* read_text and json.loads, which raises on an empty file.
Read(p) ==
    /\ pc[p] = "read"
    /\ IF file \in Key
       THEN Goto(p, "return") /\ key' = [key EXCEPT ![p] = file]
       ELSE Goto(p, "failed") /\ key' = key
    /\ UNCHANGED <<file, drawn, answers, late, died>>

\* generate_keypair and mkdir
Generate(p) ==
    /\ pc[p] = "generate"
    /\ \E k \in Key \ drawn :
        /\ key' = [key EXCEPT ![p] = k]
        /\ drawn' = drawn \cup {k}
    /\ Goto(p, "create")
    /\ UNCHANGED <<file, answers, late, died>>

\* Mutant: os.open without O_EXCL truncates what is there.
CreateTruncates(p) ==
    /\ pc[p] = "create"
    /\ Goto(p, "write") /\ file' = Empty
    /\ UNCHANGED <<key, drawn, answers, late, died>>

\* os.open with O_EXCL: FileExistsError if another process was faster.
Create(p) ==
    /\ pc[p] = "create"
    /\ IF file = NoFile
       THEN Goto(p, "write") /\ file' = Empty
       ELSE Goto(p, "failed") /\ file' = file
    /\ UNCHANGED <<key, drawn, answers, late, died>>

\* Mutant: the file is not closed.
WriteUnflushed(p) ==
    /\ pc[p] = "write"
    /\ Goto(p, "return")
    /\ UNCHANGED <<file, key, drawn, answers, late, died>>

\* json.dump and the close of the file
Write(p) ==
    /\ pc[p] = "write"
    /\ file' = key[p]
    /\ Goto(p, "return")
    /\ UNCHANGED <<key, drawn, answers, late, died>>

Return(p) ==
    /\ pc[p] = "return"
    /\ answers' = answers \cup {key[p]}
    /\ Goto(p, "idle")
    /\ UNCHANGED <<file, key, drawn, late, died>>

\* The caller of a call that raised; it may call again.
Retry(p) ==
    /\ pc[p] = "failed"
    /\ Goto(p, "idle")
    /\ UNCHANGED <<file, key, drawn, answers, late, died>>

Crash(p) ==
    /\ pc[p] # "idle"
    /\ Goto(p, "idle")
    /\ died' = died \cup {IF pc[p] = "write" THEN "writing" ELSE "elsewhere"}
    /\ UNCHANGED <<file, key, drawn, answers, late>>

Call(p) == Read(p) \/ Generate(p) \/ Create(p) \/ Write(p) \/ Return(p)

Next == \E p \in Process : Look(p) \/ Call(p) \/ Retry(p) \/ Crash(p)

\* A call that has begun goes on. Nobody has to call, or to call again.
Fairness == \A p \in Process : WF_vars(Call(p))

Spec == Init /\ [][Next]_vars /\ Fairness

-----------------------------------------------------------------------------
TypeOK ==
    /\ file \in Key \cup {NoFile, Empty}
    /\ pc \in [Process -> {"idle", "read", "generate", "create", "write", "return", "failed"}]
    /\ key \in [Process -> Key \cup {NoFile}]
    /\ drawn \subseteq Key /\ answers \subseteq Key
    /\ late \subseteq Process /\ died \subseteq {"writing", "elsewhere"}

\* Once a call has returned, every call that begins later loads the identity
\* (keygen.py:42-47): it finds a complete file and does not fail, whoever
\* crashes and whoever else is about to create the file.
SettledForGood == \A p \in late : pc[p] # "failed"

\* An unreadable file is either being written or was left by a process that
\* died between os.open and the end of json.dump (keygen.py:55-63). No other
\* crash, and no race, makes the calls of this device fail for good.
UnreadableExplained ==
    file = Empty => "writing" \in died \/ \E p \in Process : pc[p] = "write"

\* "Generating and persisting it exactly once" (keygen.py:42), as an abstract
\* cell that is written once: the file is the cell once it is complete.
Complete == IF file \in Key THEN file ELSE NoFile

Cell == INSTANCE WriteOnce WITH cell <- Complete, answers <- answers, NoKey <- NoFile

ImplementsWriteOnce == Cell!Spec

\* Of the processes that race to create the file one gets through: a call that
\* has begun leads to a returned identity, unless a process dies.
SomeoneReturns ==
    (\E p \in Process : pc[p] # "idle") ~> (answers # {} \/ died # {})
=============================================================================
