----------------------------- MODULE RateLimiter -----------------------------
(***************************************************************************)
(* Step 5 of the relay pipeline, src/pipeline/rate_limit_check.py.         *)
(*                                                                         *)
(* A limiter is a value: the state kept per ephemeral identifier (a dict,  *)
(* hence a function on the identifiers it currently holds) and the number  *)
(* of checks made, which triggers the periodic pruning of idle senders.    *)
(***************************************************************************)
EXTENDS Integers, Sequences, FiniteSets

CONSTANTS
    EphemId,                    \* ephemeral identifiers, the rate-limit key
    WINDOW_SECONDS,
    MAX_MESSAGES_PER_WINDOW,
    BAN_SECONDS,
    BAN_VIOLATION_THRESHOLD,
    IDLE_EXPIRY_SECONDS,
    PRUNE_INTERVAL_CHECKS

ASSUME RatePositive ==
    /\ MAX_MESSAGES_PER_WINDOW \in Nat \ {0}
    /\ BAN_VIOLATION_THRESHOLD \in Nat \ {0}
    /\ PRUNE_INTERVAL_CHECKS \in Nat \ {0}

\* The code's 10 s, 60 s and 600 s: a ban outlasts the window, and a sender
\* is not forgotten before its window and its ban are over.
ASSUME RateDurations ==
    /\ WINDOW_SECONDS \in Nat
    /\ BAN_SECONDS \in Nat
    /\ IDLE_EXPIRY_SECONDS \in Nat
    /\ WINDOW_SECONDS < BAN_SECONDS
    /\ BAN_SECONDS <= IDLE_EXPIRY_SECONDS

SenderState == [window       : Seq(Int),   \* accepted-message times
                violations   : Nat,        \* consecutive_violations
                banned_until : Int,
                last_seen    : Int]

Verdict == {"pass", "exceeded", "ban", "banned"}

FreshSender ==
    [window |-> <<>>, violations |-> 0, banned_until |-> 0, last_seen |-> 0]

NewLimiter == [senders |-> [e \in {} |-> FreshSender], checks |-> 0]
-----------------------------------------------------------------------------
(* The sliding window.                                                     *)

\* Mutant: a message exactly WINDOW_SECONDS old leaves the window.
StaleHeadEarly(window, now, k) ==
    k < Len(window) /\ now - window[k + 1] >= WINDOW_SECONDS

\* After k removals the head of the window has to go as well.
StaleHead(window, now, k) ==
    k < Len(window) /\ now - window[k + 1] > WINDOW_SECONDS

\* The window once its stale head is gone.
Slide(window, now) ==
    LET k == CHOOSE k \in 0..Len(window) :
                /\ ~ StaleHead(window, now, k)
                /\ \A j \in 0..(k - 1) : StaleHead(window, now, j)
    IN  SubSeq(window, k + 1, Len(window))
-----------------------------------------------------------------------------
(* One check of a known sender: the verdict and the sender's next state.   *)

\* Mutant: a sender whose window has room is let in although banned.
IsBannedIfBusy(s, now) ==
    now < s.banned_until /\ Len(Slide(s.window, now)) >= MAX_MESSAGES_PER_WINDOW

IsBanned(s, now) == now < s.banned_until

\* Mutant: checking in while banned renews the ban.
RefuseRenewing(s, now) ==
    [verdict |-> "banned", next |-> [s EXCEPT !.banned_until = now + BAN_SECONDS]]

Refuse(s, now) == [verdict |-> "banned", next |-> s]

Admit(s, now) ==
    [verdict |-> "pass",
     next    |-> [s EXCEPT !.violations = 0, !.window = Append(@, now)]]

\* Mutant: the ban does not reset the violations.
ViolateNoReset(s, now) ==
    IF s.violations + 1 >= BAN_VIOLATION_THRESHOLD
    THEN [verdict |-> "ban",
          next    |-> [s EXCEPT !.violations = @ + 1, !.banned_until = now + BAN_SECONDS]]
    ELSE [verdict |-> "exceeded", next |-> [s EXCEPT !.violations = @ + 1]]

Violate(s, now) ==
    IF s.violations + 1 >= BAN_VIOLATION_THRESHOLD
    THEN [verdict |-> "ban",
          next    |-> [s EXCEPT !.violations = 0, !.banned_until = now + BAN_SECONDS]]
    ELSE [verdict |-> "exceeded", next |-> [s EXCEPT !.violations = @ + 1]]

CheckSender(s, now) ==
    LET seen   == [s EXCEPT !.last_seen = now]
        recent == [seen EXCEPT !.window = Slide(s.window, now)]
    IN  IF IsBanned(s, now)
        THEN Refuse(seen, now)
        ELSE IF Len(recent.window) < MAX_MESSAGES_PER_WINDOW
        THEN Admit(recent, now)
        ELSE Violate(recent, now)
-----------------------------------------------------------------------------
(* RateLimiter.check                                                       *)

\* Mutant: idle senders that were ever banned are kept for good.
PruneNeverBanned(senders, now) ==
    LET kept == {e \in DOMAIN senders :
                    \/ now - senders[e].last_seen <= IDLE_EXPIRY_SECONDS
                    \/ senders[e].banned_until > 0}
    IN  [e \in kept |-> senders[e]]

\* Mutant: pruning goes by the ban alone.
PruneUnbanned(senders, now) ==
    LET kept == {e \in DOMAIN senders : now < senders[e].banned_until}
    IN  [e \in kept |-> senders[e]]

Prune(senders, now) ==
    LET kept == {e \in DOMAIN senders :
                    \/ now - senders[e].last_seen <= IDLE_EXPIRY_SECONDS
                    \/ now < senders[e].banned_until}
    IN  [e \in kept |-> senders[e]]

PruneDue(checks) == checks % PRUNE_INTERVAL_CHECKS = 0

\* The verdict on a message of ephem at time now, and the next limiter.
RateCheck(limiter, ephem, now) ==
    LET checks  == limiter.checks + 1
        senders == IF PruneDue(checks) THEN Prune(limiter.senders, now)
                                       ELSE limiter.senders
        state   == IF ephem \in DOMAIN senders THEN senders[ephem] ELSE FreshSender
        result  == CheckSender(state, now)
    IN  [verdict |-> result.verdict,
         next    |-> [senders |-> [e \in DOMAIN senders \cup {ephem} |->
                                     IF e = ephem THEN result.next ELSE senders[e]],
                      checks  |-> checks]]
=============================================================================
