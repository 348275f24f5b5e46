-------------------------------- MODULE Relay --------------------------------
(***************************************************************************)
(* One node whose RelayPipeline processes arbitrary packets, one at a      *)
(* time, while tokens arrive and time passes.                              *)
(*                                                                         *)
(* History: `log` records every packet that got past step 4, with the      *)
(* time, the verdict of step 5 and the outcome; `granted` the tokens the   *)
(* attestation cache accepted.                                             *)
(***************************************************************************)
EXTENDS RelayPipeline, FiniteSetsExt

CONSTANTS
    Packet,         \* the packets that may arrive
    Sender,         \* the senders they name
    Token,          \* the attestation tokens that may arrive
    MaxTime,        \* bound on the clock
    MaxProcessed    \* bound on the length of the log

ASSUME RelayBounds == MaxTime \in Nat /\ MaxProcessed \in Nat

\* The fields of the header are unsigned.
ASSUME PacketAssumption ==
    Packet \subseteq [id : MsgId, ephem : EphemId, sender : Sender, timestamp : Nat,
                      ttl : Nat, spray : Nat, size : Nat, payload_len : Nat, genuine : BOOLEAN]

\* timestamp_check.py and dedup_check.py: the span in which a timestamp is
\* accepted (300 s + 30 s) is within the life of a dedup entry (600 s).
ASSUME WindowsAssumption == MAX_AGE_SECONDS + MAX_FUTURE_SECONDS <= TTL_SECONDS

VARIABLES
    node,
    now,
    log,
    granted

vars == <<node, now, log, granted>>

Init ==
    /\ \E attests \in BOOLEAN : node = NewNode(attests)
    /\ now = 0
    /\ log = <<>>
    /\ granted = {}

\* process() of a packet that one of the steps 1 to 4 drops: nothing changes.
Discard(p) ==
    /\ Screen(node, p, now) # "new"
    /\ UNCHANGED vars

\* process() of a packet that is not a duplicate.
Process(p) ==
    /\ Len(log) < MaxProcessed
    /\ Screen(node, p, now) = "new"
    /\ ~ AddRaises(node.dedup.bloom)
    /\ node' = AfterProcess(node, p, now)
    /\ log' = Append(log, [packet |-> p, at |-> now, verdict |-> RateVerdict(node, p, now),
                           outcome |-> Judge(node, p, now)])
    /\ UNCHANGED <<now, granted>>

\* AttestationCache.add_token, called by the application.
Grant(token) ==
    /\ node.attests
    /\ TokenAccepted(token, now)
    /\ node' = [node EXCEPT !.tokens = AddToken(@, token)]
    /\ granted' = granted \cup {token}
    /\ UNCHANGED <<now, log>>

Tick ==
    /\ now < MaxTime
    /\ now' = now + 1
    /\ UNCHANGED <<node, log, granted>>

Next ==
    \/ \E p \in Packet : Discard(p)
    \/ \E p \in Packet : Process(p)
    \/ \E token \in Token : Grant(token)
    \/ Tick

Spec == Init /\ [][Next]_vars
-----------------------------------------------------------------------------
Delivered == {i \in DOMAIN log : log[i].outcome = "deliver"}

(* The dictionaries hold what was inserted and nothing else; the budget    *)
(* tracker never lets go of what it observed.                              *)
TypeOK ==
    /\ node.dedup \in Cache
    /\ DOMAIN node.limiter.senders \subseteq {log[i].packet.ephem : i \in DOMAIN log}
    /\ node.limiter.checks = Len(log)
    /\ DOMAIN node.tokens \subseteq {t.sub : t \in granted}
    /\ DOMAIN node.budget = {log[i].packet.id : i \in Delivered}

(***************************************************************************)
(* No replay: a message gets past step 4 a second time, and so can be      *)
(* delivered a second time, only after CAPACITY others did since.  Time    *)
(* alone never makes a node forget a message it would still accept, since  *)
(* the timestamp check has expired it by then (pipeline.py:75).  The price *)
(* of writing the dedup state first: this holds of a message that a later  *)
(* step refused (throttled, unattested) too, which a retry cannot deliver. *)
(***************************************************************************)
NoReplay ==
    \A i, j \in DOMAIN log :
        (/\ i < j
         /\ log[i].packet.id = log[j].packet.id
         /\ log[i].packet.timestamp = log[j].packet.timestamp) => j - i > CAPACITY

(***************************************************************************)
(* Step order (pipeline.py:45-47): whatever a sender does, the Ed25519     *)
(* work spent on one ephemeral identifier in a window is bounded by the    *)
(* rate limit.                                                             *)
(***************************************************************************)
VerificationBounded ==
    \A i \in DOMAIN log :
        Cardinality({j \in DOMAIN log :
                        /\ j <= i
                        /\ log[j].packet.ephem = log[i].packet.ephem
                        /\ log[j].outcome \in Verified
                        /\ log[i].at - log[j].at <= WINDOW_SECONDS})
            <= MAX_MESSAGES_PER_WINDOW

(***************************************************************************)
(* The spray budget contract (pipeline.py:97-99): even when dedup has      *)
(* forgotten a message, no onward copy carries more than half of the       *)
(* budget the message was first delivered with, and always fewer hops; and *)
(* a message in its Wait phase is not sprayed.                             *)
(***************************************************************************)
FirstDelivery(id) == Min({i \in Delivered : log[i].packet.id = id})

SprayWithinFirstBudget ==
    \A j \in Delivered : \A copy \in OnwardCopies(log[j].packet) :
        /\ ~ IsWaitPhase(log[j].packet.spray)
        /\ 2 * copy.spray <= log[FirstDelivery(copy.id)].packet.spray
        /\ 0 < copy.ttl /\ copy.ttl < log[j].packet.ttl

(***************************************************************************)
(* With an organiser key configured, only holders of a ticket that was     *)
(* accepted and has not expired are delivered (step 7).                    *)
(***************************************************************************)
AttestedOnly ==
    node.attests =>
        \A i \in Delivered :
            \E t \in granted : t.sub = log[i].packet.sender /\ t.exp > log[i].at
=============================================================================
