--------------------------- MODULE RateLimitPolicy ---------------------------
(***************************************************************************)
(* What step 5 promises, without any of its data structures: the verdict   *)
(* on a message is a function of the log of all verdicts so far            *)
(* (rate_limit_check.py:8-10: N messages per sliding window per ephemeral  *)
(* ID; ban the ephem_id after 3 violations in a row).                      *)
(***************************************************************************)
EXTENDS Integers, Sequences, FiniteSets

CONSTANTS
    EphemId,
    WINDOW_SECONDS,
    MAX_MESSAGES_PER_WINDOW,
    BAN_SECONDS,
    BAN_VIOLATION_THRESHOLD

VARIABLES
    log,    \* every check: the sender, the time, the verdict
    now

Of(e) == {i \in DOMAIN log : log[i].ephem = e}

\* The messages of e that count against its window now.
Recent(e) == {i \in Of(e) : log[i].verdict = "pass" /\ now - log[i].at <= WINDOW_SECONDS}

Banned(e) == \E i \in Of(e) : log[i].verdict = "ban" /\ now < log[i].at + BAN_SECONDS

\* The violations of e since its last accepted message or ban.
Streak(e) == {i \in Of(e) : /\ log[i].verdict = "exceeded"
                            /\ \A j \in Of(e) : j > i => log[j].verdict \notin {"pass", "ban"}}

Decide(e) ==
    IF Banned(e) THEN "banned"
    ELSE IF Cardinality(Recent(e)) < MAX_MESSAGES_PER_WINDOW THEN "pass"
    ELSE IF Cardinality(Streak(e)) + 1 >= BAN_VIOLATION_THRESHOLD THEN "ban"
    ELSE "exceeded"

Init == log = <<>> /\ now = 0

Check(e) ==
    /\ log' = Append(log, [ephem |-> e, at |-> now, verdict |-> Decide(e)])
    /\ UNCHANGED now

Tick ==
    /\ now' = now + 1
    /\ UNCHANGED log

Next == Tick \/ \E e \in EphemId : Check(e)

Spec == Init /\ [][Next]_<<log, now>>
=============================================================================
