---------------------------- MODULE IdentityProofs ----------------------------
(***************************************************************************)
(* Proofs about Identity, for any number of processes and of keys. The     *)
(* invariant that carries them: at most one process is writing, and while  *)
(* it does the file is empty; a process that is about to return holds what *)
(* the file holds; and so does whoever has been answered.                  *)
(***************************************************************************)
EXTENDS Identity, TLAPS

Holders == \A p \in Process :
    /\ pc[p] \in {"create", "write"} => key[p] \in Key
    /\ pc[p] = "return" => key[p] \in Key /\ file = key[p]

OneWriter == \A p \in Process : pc[p] = "write" =>
    /\ file = Empty
    /\ \A q \in Process : pc[q] = "write" => q = p

Answered == answers \subseteq {file} /\ answers \subseteq Key

Latecomers == \A p \in late : file \in Key /\ pc[p] \in {"idle", "read", "return"}

IInv == TypeOK /\ Holders /\ OneWriter /\ Answered /\ Latecomers /\ UnreadableExplained

\* The invariant holds initially.
LEMMA InitIInv == Init => IInv
  <1> SUFFICES ASSUME Init PROVE IInv
    OBVIOUS
  <1>1. TypeOK
    BY DEF Init, TypeOK
  <1>2. Holders /\ OneWriter /\ Answered /\ Latecomers
    BY DEF Init, Holders, OneWriter, Answered, Latecomers
  <1>3. UnreadableExplained
    BY FileAssumption DEF Init, UnreadableExplained
  <1> QED BY <1>1, <1>2, <1>3 DEF IInv

\* Every step of a call preserves it: only the writer changes a file that
\* exists, and the file it changes is empty.
LEMMA NextIInv == IInv /\ [Next]_vars => IInv'
  <1> SUFFICES ASSUME IInv, [Next]_vars PROVE IInv'
    OBVIOUS
  <1> USE FileAssumption
  <1> USE DEF IInv, TypeOK, Holders, OneWriter, Answered, Latecomers,
              UnreadableExplained, Goto
  <1>1. ASSUME NEW p \in Process, Look(p) PROVE IInv'
    <2>1. TypeOK' /\ Holders' /\ OneWriter' /\ Answered'
      BY <1>1 DEF Look
    <2>2. Latecomers'
      BY <1>1 DEF Look
    <2>3. UnreadableExplained'
      BY <1>1 DEF Look
    <2> QED BY <2>1, <2>2, <2>3
  <1>2. ASSUME NEW p \in Process, Read(p) PROVE IInv'
    <2>1. TypeOK' /\ OneWriter' /\ Answered' /\ UnreadableExplained'
      BY <1>2 DEF Read
    <2>2. Holders' /\ Latecomers'
      BY <1>2 DEF Read
    <2> QED BY <2>1, <2>2
  <1>3. ASSUME NEW p \in Process, Generate(p) PROVE IInv'
    <2>1. TypeOK' /\ OneWriter' /\ Answered' /\ UnreadableExplained'
      BY <1>3 DEF Generate
    <2>2. Holders' /\ Latecomers'
      BY <1>3 DEF Generate
    <2> QED BY <2>1, <2>2
  <1>4. ASSUME NEW p \in Process, Create(p) PROVE IInv'
    <2>1. TypeOK' /\ Answered' /\ UnreadableExplained'
      BY <1>4 DEF Create
    <2>2. Holders' /\ OneWriter' /\ Latecomers'
      BY <1>4 DEF Create
    <2> QED BY <2>1, <2>2
  <1>5. ASSUME NEW p \in Process, Write(p) PROVE IInv'
    <2>1. TypeOK' /\ Answered' /\ UnreadableExplained'
      BY <1>5 DEF Write
    <2>2. Holders' /\ OneWriter' /\ Latecomers'
      BY <1>5 DEF Write
    <2> QED BY <2>1, <2>2
  <1>6. ASSUME NEW p \in Process, Return(p) PROVE IInv'
    <2>1. TypeOK' /\ Answered' /\ UnreadableExplained'
      BY <1>6 DEF Return
    <2>2. Holders' /\ OneWriter' /\ Latecomers'
      BY <1>6 DEF Return
    <2> QED BY <2>1, <2>2
  <1>7. ASSUME NEW p \in Process, Retry(p) PROVE IInv'
    BY <1>7 DEF Retry
  <1>8. ASSUME NEW p \in Process, Crash(p) PROVE IInv'
    <2>1. TypeOK' /\ Answered' /\ UnreadableExplained'
      BY <1>8 DEF Crash
    <2>2. Holders' /\ OneWriter' /\ Latecomers'
      BY <1>8 DEF Crash
    <2> QED BY <2>1, <2>2
  <1>9. CASE UNCHANGED vars
    BY <1>9 DEF vars
  <1> QED BY <1>1, <1>2, <1>3, <1>4, <1>5, <1>6, <1>7, <1>8, <1>9 DEF Next, Call

\* The invariant holds of every behaviour.
LEMMA AlwaysIInv == Spec => []IInv
  BY InitIInv, NextIInv, PTL DEF Spec

\* Types: the file is absent, empty or one complete keypair, and only
\* keypairs are returned (keygen.py:49-64).
THEOREM TypesCorrect == Spec => []TypeOK
  <1>1. IInv => TypeOK
    BY DEF IInv
  <1> QED BY AlwaysIInv, <1>1, PTL

\* Once a call has returned, no call that begins later fails
\* (keygen.py:42-47), whatever crashes.
THEOREM Settled == Spec => []SettledForGood
  <1>1. IInv => SettledForGood
    BY DEF IInv, Latecomers, SettledForGood
  <1> QED BY AlwaysIInv, <1>1, PTL

\* Only a process that died while writing leaves an unreadable file
\* (keygen.py:55-63).
THEOREM Unreadable == Spec => []UnreadableExplained
  <1>1. IInv => UnreadableExplained
    BY DEF IInv
  <1> QED BY AlwaysIInv, <1>1, PTL

\* Each step of a call is one of the abstract cell, or leaves the cell alone:
\* the file becomes complete in one step, and a call that returns answers what
\* is in it.
LEMMA StepRefines == IInv /\ [Next]_vars => [Cell!Next]_<<Complete, answers>>
  <1> SUFFICES ASSUME IInv, [Next]_vars PROVE [Cell!Next]_<<Complete, answers>>
    OBVIOUS
  <1> USE FileAssumption
  <1>1. ASSUME NEW p \in Process, Create(p) PROVE UNCHANGED <<Complete, answers>>
    BY <1>1 DEF Create, Complete
  <1>2. ASSUME NEW p \in Process, Write(p) PROVE Cell!Write
    <2>1. file = Empty /\ file' = key[p] /\ key[p] \in Key /\ answers' = answers
      BY <1>2 DEF Write, IInv, OneWriter, Holders
    <2> QED BY <2>1 DEF Complete, Cell!Write
  <1>3. ASSUME NEW p \in Process, Return(p) PROVE Cell!Answer
    <2>1. file = key[p] /\ file \in Key /\ file' = file /\ answers' = answers \cup {key[p]}
      BY <1>3 DEF Return, IInv, Holders
    <2> QED BY <2>1 DEF Complete, Cell!Answer
  <1>4. ASSUME NEW p \in Process,
               Look(p) \/ Read(p) \/ Generate(p) \/ Retry(p) \/ Crash(p)
        PROVE UNCHANGED <<Complete, answers>>
    BY <1>4 DEF Look, Read, Generate, Retry, Crash, Complete
  <1>5. CASE UNCHANGED vars
    BY <1>5 DEF vars, Complete
  <1> QED BY <1>1, <1>2, <1>3, <1>4, <1>5 DEF Next, Call, Cell!Next

\* The identity is generated and persisted exactly once (keygen.py:42): the
\* calls implement a cell that is written at most once.
THEOREM Refines == Spec => ImplementsWriteOnce
  <1>1. Init => Cell!Init
    BY FileAssumption DEF Init, Complete, Cell!Init
  <1>2. Spec => [][Cell!Next]_<<Complete, answers>>
    BY AlwaysIInv, StepRefines, PTL DEF Spec
  <1> QED BY <1>1, <1>2, PTL DEF Spec, ImplementsWriteOnce, Cell!Spec
=============================================================================
