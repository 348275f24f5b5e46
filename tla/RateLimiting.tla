---------------------------- MODULE RateLimiting ----------------------------
(***************************************************************************)
(* One RateLimiter driven by an arbitrary sequence of checks while time    *)
(* passes.  The log is a history variable: every check with its verdict.   *)
(***************************************************************************)
EXTENDS RateLimiter

CONSTANTS
    MaxTime,    \* bound on the clock
    MaxChecks   \* bound on the length of the log

ASSUME RateBounds == MaxTime \in Nat /\ MaxChecks \in Nat

VARIABLES
    limiter,
    now,
    log

vars == <<limiter, now, log>>

Init ==
    /\ limiter = NewLimiter
    /\ now = 0
    /\ log = <<>>

Check(e) ==
    /\ Len(log) < MaxChecks
    /\ LET r == RateCheck(limiter, e, now)
       IN  /\ limiter' = r.next
           /\ log' = Append(log, [ephem |-> e, at |-> now, verdict |-> r.verdict])
    /\ UNCHANGED now

Tick ==
    /\ now < MaxTime
    /\ now' = now + 1
    /\ UNCHANGED <<limiter, log>>

Next ==
    \/ \E e \in EphemId : Check(e)
    \/ Tick

Spec == Init /\ [][Next]_vars
-----------------------------------------------------------------------------
LogEntry == [ephem : EphemId, at : Int, verdict : Verdict]

(* Type correctness; a sender's window and violations stay below their limits. *)
TypeOK ==
    /\ DOMAIN limiter.senders \subseteq EphemId
    /\ limiter.senders \in [DOMAIN limiter.senders -> SenderState]
    /\ \A e \in DOMAIN limiter.senders :
         /\ Len(limiter.senders[e].window) <= MAX_MESSAGES_PER_WINDOW
         /\ limiter.senders[e].violations < BAN_VIOLATION_THRESHOLD
    /\ limiter.checks = Len(log)
    /\ now \in Nat
    /\ log \in Seq(LogEntry)

Of(e) == {i \in DOMAIN log : log[i].ephem = e}

(***************************************************************************)
(* The limit itself: no window of WINDOW_SECONDS ever holds more than      *)
(* MAX_MESSAGES_PER_WINDOW accepted messages of one sender, across bans,   *)
(* prunes and re-creations of its state.                                   *)
(***************************************************************************)
RateBounded ==
    \A e \in EphemId : \A i \in Of(e) :
        Cardinality({j \in Of(e) : /\ j <= i
                                   /\ log[j].verdict = "pass"
                                   /\ log[i].at - log[j].at <= WINDOW_SECONDS})
            <= MAX_MESSAGES_PER_WINDOW

(***************************************************************************)
(* While a ban runs every message of the sender is refused as banned; no   *)
(* prune and no accepted message lifts it early.                           *)
(***************************************************************************)
BanHonoured ==
    \A e \in EphemId : \A i, j \in Of(e) :
        (i < j /\ log[i].verdict = "ban" /\ log[j].at < log[i].at + BAN_SECONDS)
            => log[j].verdict = "banned"

(***************************************************************************)
(* A ban ends: the first message of the sender once BAN_SECONDS are over   *)
(* is accepted, because the ban outlasts the window and further attempts   *)
(* do not extend it.                                                       *)
(***************************************************************************)
BanEnds ==
    \A e \in EphemId : \A i, j \in Of(e) :
        (/\ i < j
         /\ log[i].verdict = "ban"
         /\ log[j].at >= log[i].at + BAN_SECONDS
         /\ \A k \in Of(e) : i < k /\ k < j => log[k].at < log[i].at + BAN_SECONDS)
            => log[j].verdict = "pass"

(***************************************************************************)
(* Housekeeping works: whoever is still held was seen since the last       *)
(* prune, or was not yet idle (or still banned) when that prune ran.       *)
(***************************************************************************)
IdleSendersForgotten ==
    LET pruned == (Len(log) \div PRUNE_INTERVAL_CHECKS) * PRUNE_INTERVAL_CHECKS
    IN  \A e \in DOMAIN limiter.senders :
            \/ \E i \in Of(e) : i >= pruned
            \/ log[pruned].at - limiter.senders[e].last_seen <= IDLE_EXPIRY_SECONDS

(***************************************************************************)
(* Pruning, the deque and the counters are invisible: every verdict is the *)
(* one the policy reaches from the complete log.                           *)
(***************************************************************************)
Policy == INSTANCE RateLimitPolicy WITH log <- log, now <- now
ImplementsPolicy == Policy!Spec
=============================================================================
