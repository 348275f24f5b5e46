------------------------------ MODULE RelayProofs ------------------------------
(***************************************************************************)
(* Proofs about the relay pipeline of one node. Its packets drive a        *)
(* DedupCache and a RateLimiter: what DedupProofs and RateProofs show of   *)
(* each, for every sequence of checks, is instantiated with the parts of   *)
(* the node and the matching parts of its log. The last part is about the  *)
(* packets themselves: that decoders take what encoders return, that every *)
(* payload fits a packet that relays accept, and that relaying a packet    *)
(* leaves its signature valid.                                             *)
(***************************************************************************)
EXTENDS Relay, Payloads, Signing, SequenceLemmas

\* What step 4 let through, and what step 5 was asked.
Accepted == [i \in DOMAIN log |-> [id |-> log[i].packet.id, at |-> log[i].at]]
Checks   == [i \in DOMAIN log |-> [ephem   |-> log[i].packet.ephem,
                                   at      |-> log[i].at,
                                   verdict |-> log[i].verdict]]

D == INSTANCE DedupProofs WITH
        cache <- node.dedup, accepted <- Accepted, MaxAccepts <- MaxProcessed,
        falseDrops <- [id \in MsgId |-> 0], MaxFalseDrops <- 0

R == INSTANCE RateProofs WITH
        limiter <- node.limiter, log <- Checks, MaxChecks <- MaxProcessed
-----------------------------------------------------------------------------
(* The two components are those of the pipeline.                           *)

LEMMA SameDedup ==
  /\ D!NewCache = NewCache /\ D!Cache = Cache
  /\ \A c, id, t : /\ D!IsDuplicate(c, id) <=> IsDuplicate(c, id)
                   /\ D!AddRaises(c.bloom) <=> AddRaises(c.bloom)
                   /\ D!Remember(c, id, t) = Remember(c, id, t)
  <1>1. \A S : D!Cardinality(S) = Cardinality(S)
    BY DEF D!Cardinality, Cardinality, D!IsFiniteSet, IsFiniteSet
  <1>2. D!NewCache = NewCache /\ D!Cache = Cache
    BY DEF D!NewCache, NewCache, D!NewBloom, NewBloom, D!Cache, Cache, D!Entry, Entry, D!Bloom, Bloom
  <1>3. ASSUME NEW c, NEW id, NEW t
        PROVE  /\ D!IsDuplicate(c, id) <=> IsDuplicate(c, id)
               /\ D!AddRaises(c.bloom) <=> AddRaises(c.bloom)
    BY DEF D!IsDuplicate, IsDuplicate, D!InBloom, InBloom, D!AddRaises, AddRaises,
           D!BLOOM_CAPACITY, BLOOM_CAPACITY
  <1>4. ASSUME NEW c, NEW id, NEW t PROVE D!Remember(c, id, t) = Remember(c, id, t)
    <2>1. \A lru : D!Rebuilt(lru) = Rebuilt(lru)
      BY <1>1 DEF D!Rebuilt, Rebuilt, D!BitsOf, BitsOf
    <2>2. \A lru : D!EvictCount(lru, t) = EvictCount(lru, t)
      BY DEF D!EvictCount, EvictCount, D!MustEvict, MustEvict
    <2>3. ASSUME NEW a PROVE D!Evict(a, t) = Evict(a, t)
      <3>1. PICK k : k = EvictCount(a.lru, t) /\ k = D!EvictCount(a.lru, t)
        BY <2>2
      <3>2. PICK live : live = SubSeq(a.lru, k + 1, Len(a.lru))
        OBVIOUS
      <3>3. Rebuilt(live) = D!Rebuilt(live)
        BY <2>1
      <3> QED BY <3>1, <3>2, <3>3, Zenon DEF D!Evict, Evict
    <2>4. D!Put(c.lru, id, t) = Put(c.lru, id, t)
      BY DEF D!Put, Put
    <2>5. D!BloomAdd(c.bloom, id) = BloomAdd(c.bloom, id)
      BY DEF D!BloomAdd, BloomAdd, D!InBloom, InBloom
    <2> QED BY <2>3, <2>4, <2>5 DEF D!Remember, Remember
  <1> QED BY <1>2, <1>3, <1>4

LEMMA SameLimiter ==
  /\ R!NewLimiter = NewLimiter /\ R!Verdict = Verdict
  /\ \A l, e, t : R!RateCheck(l, e, t) = RateCheck(l, e, t)
  <1>1. R!NewLimiter = NewLimiter /\ R!Verdict = Verdict
    BY DEF R!NewLimiter, NewLimiter, R!FreshSender, FreshSender, R!Verdict, Verdict
  <1>2. \A w, t : R!Slide(w, t) = Slide(w, t)
    BY DEF R!Slide, Slide, R!StaleHead, StaleHead
  <1>3. ASSUME NEW s, NEW t PROVE R!CheckSender(s, t) = CheckSender(s, t)
    <2>1. PICK v : v = Slide(s.window, t) /\ v = R!Slide(s.window, t)
      BY <1>2
    <2>2. \A a : /\ R!Refuse(a, t) = Refuse(a, t) /\ R!Admit(a, t) = Admit(a, t)
                /\ R!Violate(a, t) = Violate(a, t)
      BY DEF R!Refuse, Refuse, R!Admit, Admit, R!Violate, Violate
    <2>3. R!IsBanned(s, t) <=> IsBanned(s, t)
      BY DEF R!IsBanned, IsBanned
    <2> QED BY <2>1, <2>2, <2>3, Zenon DEF R!CheckSender, CheckSender
  <1>4. ASSUME NEW l, NEW e, NEW t PROVE R!RateCheck(l, e, t) = RateCheck(l, e, t)
    <2>1. R!FreshSender = FreshSender
      BY DEF R!FreshSender, FreshSender
    <2>2. \A senders : R!Prune(senders, t) = Prune(senders, t)
      BY Zenon DEF R!Prune, Prune
    <2>3. \A checks : R!PruneDue(checks) <=> PruneDue(checks)
      BY Zenon DEF R!PruneDue, PruneDue
    <2>4. \A s : R!CheckSender(s, t) = CheckSender(s, t)
      BY <1>3
    <2>5. PICK senders :
             /\ senders = IF PruneDue(l.checks + 1) THEN Prune(l.senders, t) ELSE l.senders
             /\ senders = IF R!PruneDue(l.checks + 1) THEN R!Prune(l.senders, t)
                                                     ELSE l.senders
      BY <2>2, <2>3
    <2>6. PICK result :
             /\ result = CheckSender(IF e \in DOMAIN senders THEN senders[e]
                                                             ELSE FreshSender, t)
             /\ result = R!CheckSender(IF e \in DOMAIN senders THEN senders[e]
                                                               ELSE R!FreshSender, t)
      BY <2>1, <2>4
    <2> QED BY <2>5, <2>6, Zenon DEF R!RateCheck, RateCheck
  <1> QED BY <1>1, <1>4
-----------------------------------------------------------------------------
(* The node and the log.                                                   *)

Outcome == {"throttled"} \cup Verified

Record == [packet : Packet, at : Nat, verdict : Verdict, outcome : Outcome]

NodeShape ==
    node = [attests |-> node.attests, dedup |-> node.dedup, limiter |-> node.limiter,
            tokens |-> node.tokens, budget |-> node.budget]

\* The log holds packets that were timely, and verified only what step 5 passed.
LogOK ==
    /\ now \in Nat /\ log \in Seq(Record)
    /\ \A i \in DOMAIN log : /\ Timely(log[i].packet, log[i].at)
                             /\ log[i].outcome \in Verified => log[i].verdict = "pass"

\* Every expiry that is held is the one of a token that was accepted.
TokensOK ==
    \A s \in DOMAIN node.tokens : \E t \in granted : t.sub = s /\ t.exp = node.tokens[s]

\* The tracker holds the budget of the first delivery of every message.
BudgetOK ==
    /\ DOMAIN node.budget = {log[i].packet.id : i \in Delivered}
    /\ \A id \in DOMAIN node.budget :
          node.budget[id] = log[FirstDelivery(id)].packet.spray

RelayInv == NodeShape /\ LogOK /\ TokensOK /\ BudgetOK /\ AttestedOnly /\ SprayWithinFirstBudget

PacketType == [id : MsgId, ephem : EphemId, sender : Sender, timestamp : Nat,
               ttl : Nat, spray : Nat, size : Nat, payload_len : Nat, genuine : BOOLEAN]

LEMMA PacketFacts ==
  ASSUME NEW p \in Packet
  PROVE  /\ p \in PacketType
         /\ p.id \in MsgId /\ p.ephem \in EphemId
         /\ p.timestamp \in Nat /\ p.ttl \in Nat /\ p.spray \in Nat
  <1>1. p \in PacketType
    BY PacketAssumption DEF PacketType
  <1> QED BY <1>1 DEF PacketType

LEMMA LogFacts ==
  ASSUME LogOK
  PROVE  /\ Len(log) \in Nat /\ DOMAIN log = 1..Len(log)
         /\ \A i \in DOMAIN log : /\ log[i] \in Record /\ log[i].packet \in Packet
                                  /\ log[i].at \in Nat /\ log[i].verdict \in Verdict
                                  /\ log[i].outcome \in Outcome
  <1>1. /\ Len(log) \in Nat /\ DOMAIN log = 1..Len(log)
        /\ \A i \in DOMAIN log : log[i] \in Record
    BY DEF LogOK
  <1> QED BY <1>1 DEF Record

LEMMA JudgeFacts ==
  ASSUME NEW n, NEW p, NEW t
  PROVE  LET judged == Judge(n, p, t)
         IN  /\ judged \in Outcome
             /\ judged \in Verified => RateVerdict(n, p, t) = "pass"
             /\ judged = "deliver" => /\ n.attests => Attested(n.tokens, p.sender, t)
                                      /\ WithinBudget(n.budget, p.id, p.spray)
  BY DEF Judge, Outcome, Verified

LEMMA RateVerdictType ==
  ASSUME NEW n, NEW p, NEW t PROVE RateVerdict(n, p, t) \in Verdict
  BY DEF RateVerdict, RateCheck, CheckSender, Refuse, Admit, Violate, Verdict

\* Every field of the node after a packet that step 4 let through.
LEMMA AfterProcessFields ==
  ASSUME NodeShape, NEW p, NEW t
  PROVE  LET m      == AfterProcess(node, p, t)
             judged == Judge(node, p, t)
         IN  /\ m = [attests |-> m.attests, dedup |-> m.dedup, limiter |-> m.limiter,
                     tokens |-> m.tokens, budget |-> m.budget]
             /\ m.attests = node.attests
             /\ m.dedup = Remember(node.dedup, p.id, t)
             /\ m.limiter = RateCheck(node.limiter, p.ephem, t).next
             /\ m.tokens = IF judged = "unattested" THEN AfterCheck(node.tokens, p.sender, t)
                                                    ELSE node.tokens
             /\ m.budget = IF judged = "deliver" THEN Observe(node.budget, p.id, p.spray)
                                                 ELSE node.budget
  <1>1. PICK a, d, l, k, b : node = [attests |-> a, dedup |-> d, limiter |-> l, tokens |-> k, budget |-> b]
    BY DEF NodeShape
  <1>2. PICK d2, l2, k2, b2 :
           /\ d2 = Remember(d, p.id, t)
           /\ l2 = RateCheck(l, p.ephem, t).next
           /\ k2 = (IF Judge(node, p, t) = "unattested" THEN AfterCheck(k, p.sender, t) ELSE k)
           /\ b2 = (IF Judge(node, p, t) = "deliver" THEN Observe(b, p.id, p.spray) ELSE b)
    OBVIOUS
  <1>3. /\ node.attests = a /\ node.dedup = d /\ node.limiter = l
        /\ node.tokens = k /\ node.budget = b
    BY <1>1
  <1>4. AfterProcess(node, p, t) =
           [node EXCEPT !.dedup = d2, !.limiter = l2, !.tokens = k2, !.budget = b2]
    BY <1>2, <1>3 DEF AfterProcess
  <1>5. AfterProcess(node, p, t) =
           [attests |-> a, dedup |-> d2, limiter |-> l2, tokens |-> k2, budget |-> b2]
    BY <1>1, <1>4
  <1> QED BY <1>2, <1>3, <1>5

\* The entry x is appended for the packet p.
Logged(p, x) ==
    /\ x \in Record /\ x.packet = p /\ x.at = now
    /\ x.verdict = RateVerdict(node, p, now) /\ x.outcome = Judge(node, p, now)
    /\ log' = Append(log, x)

LEMMA ProcessLogs ==
  ASSUME LogOK, NEW p \in Packet, Process(p)
  PROVE  /\ \E x : Logged(p, x)
         /\ node' = AfterProcess(node, p, now) /\ now' = now /\ granted' = granted
         /\ Timely(p, now) /\ ~ IsDuplicate(node.dedup, p.id) /\ ~ AddRaises(node.dedup.bloom)
  <1>1. now \in Nat /\ RateVerdict(node, p, now) \in Verdict /\ Judge(node, p, now) \in Outcome
    BY JudgeFacts, RateVerdictType DEF LogOK
  <1>2. \E x : Logged(p, x)
    <2> WITNESS [packet |-> p, at |-> now, verdict |-> RateVerdict(node, p, now),
                 outcome |-> Judge(node, p, now)]
    <2> QED BY <1>1 DEF Logged, Record, Process
  <1>3. Timely(p, now) /\ ~ IsDuplicate(node.dedup, p.id)
    BY DEF Process, Screen
  <1> QED BY <1>2, <1>3 DEF Process

LEMMA LogGrows ==
  ASSUME LogOK, NEW p \in Packet, NEW x, Logged(p, x), Timely(p, now), now' = now
  PROVE  LET n == Len(log) + 1
         IN  /\ LogOK' /\ n \in Nat /\ DOMAIN log' = DOMAIN log \cup {n} /\ log'[n] = x
             /\ \A i \in DOMAIN log : i \in Nat /\ i < n /\ log'[i] = log[i]
             /\ Delivered' = Delivered \cup (IF x.outcome = "deliver" THEN {n} ELSE {})
             /\ Delivered \subseteq DOMAIN log
  <1> DEFINE n == Len(log) + 1
  <1>1. Len(log) \in Nat /\ DOMAIN log = 1..Len(log) /\ log \in Seq(Record) /\ now \in Nat
    BY LogFacts DEF LogOK
  <1>2. /\ log' = Append(log, x) /\ x \in Record /\ x.packet = p /\ x.at = now
        /\ x.outcome \in Verified => x.verdict = "pass"
    BY JudgeFacts DEF Logged
  <1>3. /\ log' \in Seq(Record) /\ DOMAIN log' = 1..n /\ log'[n] = x
        /\ \A i \in 1..Len(log) : log'[i] = log[i]
    BY <1>1, <1>2
  <1>4. n \in Nat /\ DOMAIN log' = DOMAIN log \cup {n} /\ \A i \in DOMAIN log : i \in Nat /\ i < n
    BY <1>1, <1>3
  <1> HIDE DEF n
  <1>5. LogOK'
    BY <1>1, <1>2, <1>3, <1>4 DEF LogOK
  <1>6. Delivered' = Delivered \cup (IF x.outcome = "deliver" THEN {n} ELSE {})
    BY <1>1, <1>3, <1>4 DEF Delivered
  <1>7. Delivered \subseteq DOMAIN log
    BY DEF Delivered
  <1> QED BY <1>1, <1>3, <1>4, <1>5, <1>6, <1>7 DEF n

\* To its dedup cache a processed packet is an identifier that was accepted.
LEMMA ProcessAccepts ==
  ASSUME RelayInv, NEW p \in Packet, Process(p)
  PROVE  D!Accept(p.id)
  <1>1. PICK x : Logged(p, x)
    BY ProcessLogs DEF RelayInv
  <1>2. /\ Len(log) \in Nat /\ log \in Seq(Record) /\ DOMAIN log = 1..Len(log)
        /\ x \in Record /\ log' = Append(log, x) /\ x.packet = p /\ x.at = now
    BY <1>1, LogFacts DEF RelayInv, LogOK, Logged
  <1> DEFINE e(r) == [id |-> r.packet.id, at |-> r.at]
             n == Len(log) + 1
  <1>3. /\ DOMAIN log' = 1..n /\ Len(log') = n /\ log'[n] = x
        /\ \A i \in 1..Len(log) : log'[i] = log[i]
    BY <1>2
  <1>4. Accepted = [i \in 1..Len(log) |-> e(log[i])] /\ Accepted' = [i \in 1..n |-> e(log'[i])]
    BY <1>2, <1>3 DEF Accepted
  <1> HIDE DEF e
  <1>5. Len(Accepted) = Len(log) /\ Accepted' = Append(Accepted, e(x))
    BY <1>2, <1>3, <1>4
  <1>6. /\ Len(log) < MaxProcessed /\ node' = AfterProcess(node, p, now) /\ now' = now
        /\ ~ IsDuplicate(node.dedup, p.id) /\ ~ AddRaises(node.dedup.bloom)
    BY ProcessLogs DEF RelayInv, Process
  <1>7. node'.dedup = Remember(node.dedup, p.id, now)
    BY <1>6, AfterProcessFields DEF RelayInv
  <1> QED BY <1>2, <1>5, <1>6, <1>7, SameDedup DEF D!Accept, e

\* To its rate limiter it is a check of its ephemeral identifier.
LEMMA ProcessChecks ==
  ASSUME RelayInv, NEW p \in Packet, Process(p)
  PROVE  R!Check(p.ephem)
  <1>1. PICK x : Logged(p, x)
    BY ProcessLogs DEF RelayInv
  <1>2. /\ Len(log) \in Nat /\ log \in Seq(Record) /\ DOMAIN log = 1..Len(log)
        /\ x \in Record /\ log' = Append(log, x) /\ x.packet = p /\ x.at = now
        /\ x.verdict = RateVerdict(node, p, now)
    BY <1>1, LogFacts DEF RelayInv, LogOK, Logged
  <1> DEFINE e(r) == [ephem |-> r.packet.ephem, at |-> r.at, verdict |-> r.verdict]
             n == Len(log) + 1
  <1>3. /\ DOMAIN log' = 1..n /\ Len(log') = n /\ log'[n] = x
        /\ \A i \in 1..Len(log) : log'[i] = log[i]
    BY <1>2
  <1>4. Checks = [i \in 1..Len(log) |-> e(log[i])] /\ Checks' = [i \in 1..n |-> e(log'[i])]
    BY <1>2, <1>3 DEF Checks
  <1> HIDE DEF e
  <1>5. Len(Checks) = Len(log) /\ Checks' = Append(Checks, e(x))
    BY <1>2, <1>3, <1>4
  <1>6. Len(log) < MaxProcessed /\ node' = AfterProcess(node, p, now) /\ now' = now
    BY ProcessLogs DEF RelayInv, Process
  <1>7. node'.limiter = RateCheck(node.limiter, p.ephem, now).next
    BY <1>6, AfterProcessFields DEF RelayInv
  <1> QED BY <1>2, <1>5, <1>6, <1>7, SameLimiter DEF R!Check, RateVerdict, e

\* Granting a token is nothing to either of them.
LEMMA GrantFields ==
  ASSUME NodeShape, NEW token, Grant(token)
  PROVE  /\ NodeShape' /\ node'.attests = node.attests /\ node'.dedup = node.dedup
         /\ node'.limiter = node.limiter /\ node'.budget = node.budget
         /\ node'.tokens = AddToken(node.tokens, token)
  <1>1. PICK a, d, l, k, b : node = [attests |-> a, dedup |-> d, limiter |-> l, tokens |-> k, budget |-> b]
    BY DEF NodeShape
  <1>2. PICK k2 : k2 = AddToken(k, token)
    OBVIOUS
  <1>3. node.tokens = k /\ node' = [node EXCEPT !.tokens = k2]
    BY <1>1, <1>2 DEF Grant
  <1>4. node' = [attests |-> a, dedup |-> d, limiter |-> l, tokens |-> k2, budget |-> b]
    BY <1>1, <1>3
  <1> QED BY <1>1, <1>2, <1>3, <1>4 DEF NodeShape
-----------------------------------------------------------------------------
(* Steps 7 and 8, and what is sent on.                                     *)

\* The first element of a set of positions.
LEMMA MinFacts ==
  ASSUME NEW S \in SUBSET Nat, S # {}
  PROVE  Min(S) \in S /\ \A i \in S : Min(S) <= i
  <1>1. \E m \in S : \A i \in S : m <= i
    BY LeastNatural
  <1> QED BY <1>1 DEF Min

\* A later element does not change which is the first.
LEMMA MinGrows ==
  ASSUME NEW S \in SUBSET Nat, S # {}, NEW n \in Nat, \A i \in S : i < n
  PROVE  Min(S \cup {n}) = Min(S)
  <1>1. Min(S) \in S /\ \A i \in S : Min(S) <= i
    BY MinFacts
  <1>2. S \cup {n} \in SUBSET Nat /\ S \cup {n} # {}
    OBVIOUS
  <1>3. Min(S \cup {n}) \in S \cup {n} /\ \A i \in S \cup {n} : Min(S \cup {n}) <= i
    BY <1>2, MinFacts
  <1>4. Min(S) \in Nat /\ Min(S \cup {n}) \in Nat /\ Min(S) < n
    BY <1>1, <1>3
  <1>5. Min(S \cup {n}) <= Min(S) /\ Min(S) <= Min(S \cup {n})
    BY <1>1, <1>3, <1>4
  <1> QED BY <1>4, <1>5

\* A copy carries at most half of the budget, and one hop less.
LEMMA CopyFacts ==
  ASSUME NEW p \in Packet, NEW copy \in OnwardCopies(p)
  PROVE  /\ copy.id = p.id /\ ~ IsWaitPhase(p.spray)
         /\ copy.spray \in Nat /\ 2 * copy.spray <= p.spray
         /\ 0 < copy.ttl /\ copy.ttl < p.ttl
  <1>1. p \in PacketType /\ p.ttl \in Nat /\ p.spray \in Nat
    BY PacketFacts
  <1>2. PICK f : f = SplitCopies(p.spray).forward
    OBVIOUS
  <1>3. p.ttl - 1 > 0 /\ f # 0 /\ copy = [p EXCEPT !.ttl = p.ttl - 1, !.spray = f]
    BY <1>1, <1>2 DEF OnwardCopies
  <1>4. f \in Nat /\ 2 * f <= p.spray /\ p.spray > 1
    BY <1>1, <1>2, <1>3 DEF SplitCopies
  <1>5. copy.id = p.id /\ copy.ttl = p.ttl - 1 /\ copy.spray = f
    BY <1>1, <1>3 DEF PacketType
  <1> QED BY <1>1, <1>3, <1>4, <1>5 DEF IsWaitPhase

DeliveriesOf(id) == {i \in Delivered : log[i].packet.id = id}

LEMMA ProcessBudget ==
  ASSUME RelayInv, NEW p \in Packet, Process(p)
  PROVE  BudgetOK' /\ SprayWithinFirstBudget'
  <1>1. PICK x : Logged(p, x)
    BY ProcessLogs DEF RelayInv
  <1>2. x.packet = p /\ x.outcome = Judge(node, p, now)
    BY <1>1 DEF Logged
  <1>3. PICK n \in Nat :
           /\ n = Len(log) + 1 /\ log'[n] = x /\ LogOK'
           /\ \A i \in DOMAIN log : i \in Nat /\ i < n /\ log'[i] = log[i]
           /\ Delivered' = Delivered \cup (IF x.outcome = "deliver" THEN {n} ELSE {})
           /\ Delivered \subseteq DOMAIN log
    BY <1>1, ProcessLogs, LogGrows DEF RelayInv
  <1>4. \A id : /\ DeliveriesOf(id) \in SUBSET Nat /\ \A i \in DeliveriesOf(id) : i < n
                /\ FirstDelivery(id) = Min(DeliveriesOf(id))
                /\ FirstDelivery(id)' = Min(DeliveriesOf(id)')
    BY <1>3 DEF DeliveriesOf, FirstDelivery
  <1>5. \A id : DeliveriesOf(id)' = DeliveriesOf(id) \cup
                    (IF x.outcome = "deliver" /\ id = p.id THEN {n} ELSE {})
    BY <1>2, <1>3 DEF DeliveriesOf
  <1>6. node'.budget = IF x.outcome = "deliver" THEN Observe(node.budget, p.id, p.spray)
                                                ELSE node.budget
    BY <1>2, ProcessLogs, AfterProcessFields DEF RelayInv
  <1>7. BudgetOK
    BY DEF RelayInv
  <1>8. ASSUME NEW id \in DOMAIN node.budget
        PROVE  /\ DeliveriesOf(id) # {} /\ FirstDelivery(id) \in Delivered
               /\ FirstDelivery(id)' = FirstDelivery(id)
               /\ log'[FirstDelivery(id)] = log[FirstDelivery(id)]
               /\ node.budget[id] = log[FirstDelivery(id)].packet.spray
    <2>1. DeliveriesOf(id) # {} /\ node.budget[id] = log[FirstDelivery(id)].packet.spray
      BY <1>7 DEF BudgetOK, DeliveriesOf
    <2>2. FirstDelivery(id)' = FirstDelivery(id)
      <3>1. CASE DeliveriesOf(id)' = DeliveriesOf(id)
        BY <1>4, <3>1
      <3>2. CASE DeliveriesOf(id)' = DeliveriesOf(id) \cup {n}
        BY <1>4, <2>1, <3>2, MinGrows
      <3> QED BY <1>5, <3>1, <3>2
    <2>3. FirstDelivery(id) \in Delivered
      BY <1>4, <2>1, MinFacts DEF DeliveriesOf
    <2> QED BY <1>3, <2>1, <2>2, <2>3
  <1>9. ASSUME x.outcome = "deliver", p.id \notin DOMAIN node.budget
        PROVE  FirstDelivery(p.id)' = n
    <2>1. DeliveriesOf(p.id) = {}
      BY <1>7, <1>9 DEF BudgetOK, DeliveriesOf
    <2>2. DeliveriesOf(p.id)' = {n}
      BY <1>5, <1>9, <2>1
    <2>3. Min({n}) \in {n}
      BY MinFacts
    <2> QED BY <1>4, <2>2, <2>3
  <1>10. BudgetOK'
    <2>1. DOMAIN node'.budget = {log'[i].packet.id : i \in Delivered'}
      <3>1. DOMAIN node'.budget = DOMAIN node.budget \cup
                                     (IF x.outcome = "deliver" THEN {p.id} ELSE {})
        BY <1>6 DEF Observe
      <3>2. DOMAIN node.budget = {log[i].packet.id : i \in Delivered}
        BY <1>7 DEF BudgetOK
      <3> QED BY <1>2, <1>3, <3>1, <3>2
    <2>2. ASSUME NEW id \in DOMAIN node'.budget
          PROVE  node'.budget[id] = log'[FirstDelivery(id)'].packet.spray
      <3>1. CASE id \in DOMAIN node.budget
        <4>1. node'.budget[id] = node.budget[id]
          BY <1>6, <3>1 DEF Observe
        <4> QED BY <1>8, <3>1, <4>1
      <3>2. CASE id \notin DOMAIN node.budget
        <4>1. x.outcome = "deliver" /\ id = p.id /\ node'.budget[id] = p.spray
          BY <1>6, <2>2, <3>2 DEF Observe
        <4> QED BY <1>2, <1>3, <1>9, <3>2, <4>1
      <3> QED BY <3>1, <3>2
    <2> QED BY <2>1, <2>2 DEF BudgetOK
  <1>11. ASSUME NEW j \in Delivered', NEW copy \in OnwardCopies(log'[j].packet)
         PROVE  /\ ~ IsWaitPhase(log'[j].packet.spray)
                /\ 2 * copy.spray <= log'[FirstDelivery(copy.id)'].packet.spray
                /\ 0 < copy.ttl /\ copy.ttl < log'[j].packet.ttl
    <2>1. CASE j \in Delivered
      <3>1. log'[j] = log[j] /\ log[j].packet \in Packet /\ j \in DOMAIN log
        BY <1>3, <2>1, LogFacts DEF RelayInv
      <3>2. copy.id = log[j].packet.id
        BY <1>11, <3>1, CopyFacts
      <3>3. copy.id \in DOMAIN node.budget
        BY <1>7, <2>1, <3>2 DEF BudgetOK
      <3>4. /\ ~ IsWaitPhase(log[j].packet.spray)
            /\ 2 * copy.spray <= log[FirstDelivery(copy.id)].packet.spray
            /\ 0 < copy.ttl /\ copy.ttl < log[j].packet.ttl
        BY <1>11, <2>1, <3>1 DEF RelayInv, SprayWithinFirstBudget
      <3> QED BY <1>8, <3>1, <3>3, <3>4
    <2>2. CASE x.outcome = "deliver" /\ j = n
      <3>1. /\ copy.id = p.id /\ ~ IsWaitPhase(p.spray)
            /\ copy.spray \in Nat /\ 2 * copy.spray <= p.spray
            /\ 0 < copy.ttl /\ copy.ttl < p.ttl
        BY <1>2, <1>3, <1>11, <2>2, CopyFacts
      <3>2. p.spray <= log'[FirstDelivery(p.id)'].packet.spray
               /\ log'[FirstDelivery(p.id)'].packet.spray \in Nat
        <4>1. CASE p.id \in DOMAIN node.budget
          <5>1. p.spray <= node.budget[p.id]
            BY <1>2, <2>2, <4>1, JudgeFacts DEF WithinBudget
          <5>2. log[FirstDelivery(p.id)].packet \in Packet
            BY <1>3, <1>8, <4>1, LogFacts DEF RelayInv
          <5> QED BY <1>8, <4>1, <5>1, <5>2, PacketFacts
        <4>2. CASE p.id \notin DOMAIN node.budget
          BY <1>2, <1>3, <1>9, <2>2, <4>2, PacketFacts
        <4> QED BY <4>1, <4>2
      <3>3. p.spray \in Nat
        BY PacketFacts
      <3> QED BY <1>2, <1>3, <2>2, <3>1, <3>2, <3>3
    <2> QED BY <1>3, <2>1, <2>2
  <1>12. SprayWithinFirstBudget'
    BY <1>11 DEF SprayWithinFirstBudget
  <1> QED BY <1>10, <1>12

LEMMA ProcessTokens ==
  ASSUME RelayInv, NEW p \in Packet, Process(p)
  PROVE  TokensOK' /\ AttestedOnly'
  <1>1. PICK x : Logged(p, x)
    BY ProcessLogs DEF RelayInv
  <1>2. x.packet = p /\ x.at = now /\ x.outcome = Judge(node, p, now)
    BY <1>1 DEF Logged
  <1>3. PICK n \in Nat :
           /\ log'[n] = x
           /\ \A i \in DOMAIN log : log'[i] = log[i]
           /\ Delivered' = Delivered \cup (IF x.outcome = "deliver" THEN {n} ELSE {})
           /\ Delivered \subseteq DOMAIN log
    BY <1>1, ProcessLogs, LogGrows DEF RelayInv
  <1>4. /\ granted' = granted /\ node'.attests = node.attests
        /\ \/ node'.tokens = node.tokens
           \/ node'.tokens = AfterCheck(node.tokens, p.sender, now)
    BY ProcessLogs, AfterProcessFields DEF RelayInv
  <1>5. TokensOK'
    <2>1. /\ DOMAIN node'.tokens \subseteq DOMAIN node.tokens
          /\ \A s \in DOMAIN node'.tokens : node'.tokens[s] = node.tokens[s]
      BY <1>4 DEF AfterCheck
    <2> QED BY <1>4, <2>1 DEF RelayInv, TokensOK
  <1>6. ASSUME node'.attests, NEW i \in Delivered'
        PROVE  \E t \in granted' : t.sub = log'[i].packet.sender /\ t.exp > log'[i].at
    <2>1. CASE i \in Delivered
      BY <1>3, <1>4, <1>6, <2>1 DEF RelayInv, AttestedOnly
    <2>2. CASE x.outcome = "deliver" /\ i = n
      <3>1. p.sender \in DOMAIN node.tokens /\ node.tokens[p.sender] > now
        BY <1>2, <1>4, <1>6, <2>2, JudgeFacts DEF Attested
      <3> QED BY <1>2, <1>3, <1>4, <2>2, <3>1 DEF RelayInv, TokensOK
    <2> QED BY <1>3, <2>1, <2>2
  <1> QED BY <1>5, <1>6 DEF AttestedOnly

LEMMA ProcessPreserves ==
  ASSUME RelayInv, NEW p \in Packet, Process(p)
  PROVE  RelayInv'
  <1>1. PICK x : Logged(p, x)
    BY ProcessLogs DEF RelayInv
  <1>2. LogOK'
    BY <1>1, ProcessLogs, LogGrows DEF RelayInv
  <1>3. NodeShape'
    BY ProcessLogs, AfterProcessFields DEF RelayInv, NodeShape
  <1> QED BY <1>2, <1>3, ProcessBudget, ProcessTokens DEF RelayInv

LEMMA GrantPreserves ==
  ASSUME RelayInv, NEW token \in Token, Grant(token)
  PROVE  RelayInv'
  <1>1. /\ NodeShape' /\ node'.attests = node.attests /\ node'.budget = node.budget
        /\ node'.tokens = AddToken(node.tokens, token)
    BY GrantFields DEF RelayInv
  <1>2. granted' = granted \cup {token} /\ now' = now /\ log' = log
    BY DEF Grant
  <1>3. TokensOK'
    BY <1>1, <1>2 DEF RelayInv, TokensOK, AddToken
  <1>4. LogOK' /\ BudgetOK' /\ AttestedOnly' /\ SprayWithinFirstBudget'
    BY <1>1, <1>2 DEF RelayInv, LogOK, BudgetOK, AttestedOnly, SprayWithinFirstBudget,
                      Delivered, FirstDelivery
  <1> QED BY <1>1, <1>3, <1>4 DEF RelayInv

LEMMA StepPreserves == RelayInv /\ [Next]_vars => RelayInv'
  <1> SUFFICES ASSUME RelayInv, [Next]_vars PROVE RelayInv'
    OBVIOUS
  <1>1. CASE UNCHANGED <<node, log, granted>> /\ now' \in Nat
    <2>1. node' = node /\ log' = log /\ granted' = granted
      BY <1>1
    <2>2. NodeShape /\ LogOK /\ TokensOK /\ BudgetOK /\ AttestedOnly /\ SprayWithinFirstBudget
      BY DEF RelayInv
    <2>3. NodeShape'
      BY <2>1, <2>2, Zenon DEF NodeShape
    <2>4. LogOK'
      BY <1>1, <2>1, <2>2, Zenon DEF LogOK
    <2>5. TokensOK'
      BY <2>1, <2>2, Zenon DEF TokensOK
    <2>6. Delivered' = Delivered
      BY <2>1 DEF Delivered
    <2>7. BudgetOK' /\ SprayWithinFirstBudget'
      <3>1. \A id : FirstDelivery(id)' = FirstDelivery(id)
        BY <2>1, <2>6, Zenon DEF FirstDelivery
      <3> QED BY <2>1, <2>2, <2>6, <3>1, Zenon DEF BudgetOK, SprayWithinFirstBudget
    <2>8. AttestedOnly'
      BY <2>1, <2>2, <2>6, Zenon DEF AttestedOnly
    <2> QED BY <2>3, <2>4, <2>5, <2>7, <2>8, Zenon DEF RelayInv
  <1>2. now \in Nat
    BY DEF RelayInv, LogOK
  <1>3. CASE \E p \in Packet : Discard(p)
    BY <1>1, <1>2, <1>3, Zenon DEF Discard, vars
  <1>4. CASE \E p \in Packet : Process(p)
    BY <1>4, ProcessPreserves, Zenon
  <1>5. CASE \E token \in Token : Grant(token)
    BY <1>5, GrantPreserves, Zenon
  <1>6. CASE Tick
    <2>1. UNCHANGED <<node, log, granted>> /\ now' = now + 1
      BY <1>6 DEF Tick
    <2>2. now' \in Nat
      BY <1>2, <2>1
    <2> QED BY <1>1, <2>1, <2>2, Zenon
  <1>7. CASE UNCHANGED vars
    BY <1>1, <1>2, <1>7, Zenon DEF vars
  <1> QED BY <1>3, <1>4, <1>5, <1>6, <1>7, Zenon DEF Next

LEMMA InitInv == Init => RelayInv
  <1> SUFFICES ASSUME Init PROVE RelayInv
    OBVIOUS
  <1>1. PICK attests \in BOOLEAN : node = NewNode(attests)
    BY DEF Init
  <1>2. /\ log = <<>> /\ now = 0 /\ granted = {}
        /\ DOMAIN node.tokens = {} /\ DOMAIN node.budget = {}
    BY <1>1 DEF Init, NewNode, NoTokens, NewBudget
  <1>3. Delivered = {}
    BY <1>2 DEF Delivered
  <1>4. NodeShape
    BY <1>1 DEF NodeShape, NewNode
  <1> QED BY <1>2, <1>3, <1>4 DEF RelayInv, LogOK, TokensOK, BudgetOK, AttestedOnly,
                                  SprayWithinFirstBudget
-----------------------------------------------------------------------------
(* The pipeline drives its components as DedupProofs and RateProofs assume. *)

LEMMA ComponentsInit == Init => D!Init /\ R!Init
  <1> SUFFICES ASSUME Init PROVE D!Init /\ R!Init
    OBVIOUS
  <1>1. node.dedup = NewCache /\ node.limiter = NewLimiter /\ now = 0 /\ log = <<>>
    BY DEF Init, NewNode
  <1>2. Accepted = <<>> /\ Checks = <<>>
    BY <1>1 DEF Accepted, Checks
  <1> QED BY <1>1, <1>2, SameDedup, SameLimiter DEF D!Init, R!Init

LEMMA ComponentsStep ==
  RelayInv /\ [Next]_vars => [D!Next]_(D!vars) /\ [R!Next]_(R!vars)
  <1> SUFFICES ASSUME RelayInv, [Next]_vars PROVE [D!Next]_(D!vars) /\ [R!Next]_(R!vars)
    OBVIOUS
  <1>1. ASSUME NEW p \in Packet, Process(p) PROVE D!Next /\ R!Next
    <2>1. D!Accept(p.id) /\ R!Check(p.ephem)
      BY <1>1, ProcessAccepts, ProcessChecks
    <2> QED BY <2>1, PacketFacts DEF D!Next, R!Next
  <1>2. CASE Tick
    <2>1. /\ now < MaxTime /\ now' = now + 1 /\ node' = node
          /\ Accepted' = Accepted /\ Checks' = Checks
      BY <1>2 DEF Tick, Accepted, Checks
    <2> QED BY <2>1 DEF D!Next, D!Tick, R!Next, R!Tick
  <1>3. CASE UNCHANGED <<node.dedup, node.limiter, now, log>>
    BY <1>3 DEF D!vars, R!vars, Accepted, Checks
  <1>4. ASSUME NEW token \in Token, Grant(token)
        PROVE  UNCHANGED <<node.dedup, node.limiter, now, log>>
    BY <1>4, GrantFields DEF RelayInv, Grant
  <1> QED BY <1>1, <1>2, <1>3, <1>4 DEF Next, Discard, vars

(***************************************************************************)
(* The log of a node explains its state: the tracker has the budget of the *)
(* first delivery of every message, the token cache expiries that were     *)
(* granted, and only what step 5 passed was verified.                      *)
(***************************************************************************)
THEOREM RelayInvariant == Spec => []RelayInv
  BY InitInv, StepPreserves, PTL DEF Spec

(***************************************************************************)
(* In every node the dedup cache runs as Dedup specifies it ...            *)
(***************************************************************************)
THEOREM DrivesDedup == Spec => D!Spec
  BY ComponentsInit, ComponentsStep, RelayInvariant, PTL DEF Spec, D!Spec

(***************************************************************************)
(* ... and the rate limiter as RateLimiting does.                          *)
(***************************************************************************)
THEOREM DrivesLimiter == Spec => R!Spec
  BY ComponentsInit, ComponentsStep, RelayInvariant, PTL DEF Spec, R!Spec

\* The assumptions of the two modules are those of this one.
LEMMA DedupHolds == Spec => [](D!TypeOK /\ D!NoEarlyRepeat /\ D!FilterNeverFull)
  <1>1. MaxTime \in Nat /\ MaxProcessed \in Nat /\ 0 \in Nat
    BY RelayBounds
  <1>2. D!Spec => []D!TypeOK
    BY <1>1, D!TypeCorrect, HashesAssumption, CapacityAssumption, TTLAssumption, ThresholdAssumption
  <1>3. D!Spec => []D!NoEarlyRepeat
    BY <1>1, D!NoEarlyRepeatHolds, HashesAssumption, CapacityAssumption, TTLAssumption,
       ThresholdAssumption
  <1>4. D!Spec => []D!FilterNeverFull
    BY <1>1, D!FilterNeverFullHolds, HashesAssumption, CapacityAssumption, TTLAssumption,
       ThresholdAssumption
  <1> QED BY <1>2, <1>3, <1>4, DrivesDedup, PTL

LEMMA LimiterHolds == Spec => [](R!RateInv /\ R!RateBounded)
  <1>1. R!Promises => R!RateInv /\ R!RateBounded
    BY DEF R!Promises
  <1> QED BY <1>1, DrivesLimiter, R!PromisesInvariant, PTL,
             RatePositive, RateDurations, RelayBounds
-----------------------------------------------------------------------------
(* The theorems about the pipeline.                                        *)

LEMMA NoReplayFollows ==
  ASSUME RelayInv, D!NoEarlyRepeat PROVE NoReplay
  <1>1. \A i \in DOMAIN log : /\ log[i].packet.timestamp \in Nat /\ log[i].at \in Nat
                              /\ Timely(log[i].packet, log[i].at)
    BY LogFacts, PacketFacts DEF RelayInv, LogOK
  <1>2. DOMAIN log \subseteq Nat
    BY LogFacts DEF RelayInv
  <1>3. ASSUME NEW i \in DOMAIN log, NEW j \in DOMAIN log, i < j,
               log[i].packet.id = log[j].packet.id,
               log[i].packet.timestamp = log[j].packet.timestamp
        PROVE  j - i > CAPACITY
    <2>1. log[j].at - log[i].at <= MAX_AGE_SECONDS + MAX_FUTURE_SECONDS
      BY <1>1, <1>3, AgeAssumption DEF Timely
    <2>2. ~ (log[j].at - log[i].at > TTL_SECONDS)
      BY <1>1, <2>1, AgeAssumption, WindowsAssumption, TTLAssumption
    <2>3. i \in DOMAIN Accepted /\ j \in DOMAIN Accepted
          /\ Accepted[i] = [id |-> log[i].packet.id, at |-> log[i].at]
          /\ Accepted[j] = [id |-> log[j].packet.id, at |-> log[j].at]
      BY DEF Accepted
    <2>4. Accepted[j].at - Accepted[i].at > TTL_SECONDS \/ j - i > CAPACITY
      BY <1>3, <2>3 DEF D!NoEarlyRepeat
    <2> QED BY <2>2, <2>3, <2>4
  <1> QED BY <1>3 DEF NoReplay

LEMMA VerificationFollows ==
  ASSUME RelayInv, R!RateBounded PROVE VerificationBounded
  <1>1. /\ \A i \in DOMAIN log : /\ log[i].packet.ephem \in EphemId
                                 /\ log[i].outcome \in Verified => log[i].verdict = "pass"
        /\ IsFiniteSet(DOMAIN log)
    <2>1. DOMAIN log = 1..Len(log) /\ Len(log) \in Nat
          /\ \A i \in DOMAIN log : log[i].packet \in Packet
      BY LogFacts DEF RelayInv
    <2>2. IsFiniteSet(DOMAIN log)
      BY <2>1, FS_Interval
    <2> QED BY <2>1, <2>2, PacketFacts DEF RelayInv, LogOK
  <1>2. ASSUME NEW i \in DOMAIN log
        PROVE  Cardinality({j \in DOMAIN log :
                              /\ j <= i
                              /\ log[j].packet.ephem = log[i].packet.ephem
                              /\ log[j].outcome \in Verified
                              /\ log[i].at - log[j].at <= WINDOW_SECONDS})
                  <= MAX_MESSAGES_PER_WINDOW
    <2> DEFINE e == log[i].packet.ephem
               A == {j \in DOMAIN log : /\ j <= i
                                        /\ log[j].packet.ephem = e
                                        /\ log[j].outcome \in Verified
                                        /\ log[i].at - log[j].at <= WINDOW_SECONDS}
               B == {j \in R!Of(e) : /\ j <= i
                                     /\ Checks[j].verdict = "pass"
                                     /\ Checks[i].at - Checks[j].at <= WINDOW_SECONDS}
    <2>1. \A j \in DOMAIN log : /\ Checks[j].ephem = log[j].packet.ephem
                                /\ Checks[j].at = log[j].at /\ Checks[j].verdict = log[j].verdict
      BY DEF Checks
    <2>2. DOMAIN Checks = DOMAIN log
      BY DEF Checks
    <2>3. R!Of(e) = {j \in DOMAIN log : log[j].packet.ephem = e}
      BY <2>1, <2>2 DEF R!Of
    <2>4. A \in SUBSET B /\ B \in SUBSET DOMAIN log
      <3>1. \A j \in A : log[j].verdict = "pass"
        BY <1>1
      <3> HIDE DEF e
      <3> QED BY <2>1, <2>3, <3>1
    <2>5. R!Cardinality(B) <= MAX_MESSAGES_PER_WINDOW
      <3>1. e \in EphemId /\ i \in R!Of(e)
        BY <1>1, <2>3
      <3> HIDE DEF e
      <3> QED BY <3>1, Zenon DEF R!RateBounded
    <2>6. Cardinality(B) <= MAX_MESSAGES_PER_WINDOW
      BY <2>5 DEF R!Cardinality, Cardinality, R!IsFiniteSet, IsFiniteSet
    <2> HIDE DEF A, B
    <2>7. IsFiniteSet(B)
      BY <1>1, <2>4, FS_Subset
    <2>8. Cardinality(A) <= Cardinality(B) /\ Cardinality(A) \in Nat /\ Cardinality(B) \in Nat
      BY <2>4, <2>7, FS_Subset, FS_CardinalityType
    <2>9. Cardinality(A) <= MAX_MESSAGES_PER_WINDOW
      BY <2>6, <2>8, RatePositive
    <2> QED BY <2>9 DEF A
  <1> QED BY <1>2 DEF VerificationBounded

(***************************************************************************)
(* Type correctness: the dictionaries hold what was inserted and nothing   *)
(* else, and the budget tracker never lets go of a message.                *)
(***************************************************************************)
THEOREM TypeCorrect == Spec => []TypeOK
  <1>1. ASSUME RelayInv, D!TypeOK, R!RateInv PROVE TypeOK
    <2>1. node.dedup \in Cache
      BY <1>1, SameDedup DEF D!TypeOK
    <2>2. DOMAIN node.limiter.senders \subseteq {log[i].packet.ephem : i \in DOMAIN log}
      <3> SUFFICES ASSUME NEW e \in DOMAIN node.limiter.senders
                   PROVE  \E i \in DOMAIN log : log[i].packet.ephem = e
        OBVIOUS
      <3>1. R!Of(e) # {}
        BY <1>1 DEF R!RateInv, R!Dictionary, R!LastSeen
      <3>2. \A i \in R!Of(e) : i \in DOMAIN log /\ log[i].packet.ephem = e
        BY DEF R!Of, Checks
      <3> QED BY <3>1, <3>2
    <2>3. node.limiter.checks = Len(log)
      <3>1. DOMAIN log = 1..Len(log) /\ Len(log) \in Nat
        BY <1>1, LogFacts DEF RelayInv
      <3>2. Len(Checks) = Len(log)
        BY <3>1 DEF Checks
      <3> QED BY <1>1, <3>2 DEF R!RateInv
    <2>4. DOMAIN node.tokens \subseteq {t.sub : t \in granted}
      BY <1>1 DEF RelayInv, TokensOK
    <2>5. DOMAIN node.budget = {log[i].packet.id : i \in Delivered}
      BY <1>1 DEF RelayInv, BudgetOK
    <2> QED BY <2>1, <2>2, <2>3, <2>4, <2>5 DEF TypeOK
  <1> QED BY <1>1, RelayInvariant, DedupHolds, LimiterHolds, PTL

(***************************************************************************)
(* A message passes step 4 twice only after CAPACITY others in between: an *)
(* entry that dedup lets go of by age has failed the timestamp check first *)
(* (pipeline.py:75), for every choice of windows within WindowsAssumption. *)
(***************************************************************************)
THEOREM NoReplayHolds == Spec => []NoReplay
  <1>1. RelayInv /\ D!NoEarlyRepeat => NoReplay
    BY NoReplayFollows
  <1> QED BY <1>1, RelayInvariant, DedupHolds, PTL

(***************************************************************************)
(* The order of the steps (pipeline.py:45-47) bounds the signatures that   *)
(* are verified for one ephemeral identifier in any window.                *)
(***************************************************************************)
THEOREM VerificationBoundedHolds == Spec => []VerificationBounded
  <1>1. RelayInv /\ R!RateBounded => VerificationBounded
    BY VerificationFollows
  <1> QED BY <1>1, RelayInvariant, LimiterHolds, PTL

(***************************************************************************)
(* No onward copy carries more than half of the budget its message was     *)
(* first delivered with, also once dedup has forgotten the message.        *)
(***************************************************************************)
THEOREM SprayBounded == Spec => []SprayWithinFirstBudget
  <1>1. RelayInv => SprayWithinFirstBudget
    BY DEF RelayInv
  <1> QED BY <1>1, RelayInvariant, PTL

(***************************************************************************)
(* With an organiser key, whoever is delivered held an accepted ticket     *)
(* that had not expired (step 7).                                          *)
(***************************************************************************)
THEOREM AttestedHolds == Spec => []AttestedOnly
  <1>1. RelayInv => AttestedOnly
    BY DEF RelayInv
  <1> QED BY <1>1, RelayInvariant, PTL
(***************************************************************************)
(* The guard of Process on the filter never holds a packet up: its add()   *)
(* raises in no reachable state, so no handler dies in step 4.             *)
(***************************************************************************)
THEOREM AddNeverRaises == Spec => []~ AddRaises(node.dedup.bloom)
  <1>1. D!FilterNeverFull => ~ AddRaises(node.dedup.bloom)
    BY SameDedup DEF D!FilterNeverFull
  <1> QED BY <1>1, DedupHolds, PTL
-----------------------------------------------------------------------------
(* The packets: what a device builds is what relays take.                  *)

\* The largest payload of a packet that the size check accepts
MAX_PAYLOAD == 321

\* A packet that a device builds parses at the first relay, and passes its size
\* check exactly if the payload has at most 321 bytes (message.py:35-37): the
\* length field would take far more, and build_signed_packet does not look.
THEOREM BuiltAccepted ==
  ASSUME NEW sender, NEW ephem, NEW timestamp, NEW ttl, NEW spray, NEW msg_type, NEW payload,
         NEW payload_len \in Nat,
         NEW p \in BuildSignedPacket(sender, ephem, timestamp, ttl, spray, msg_type,
                                     payload, payload_len)
  PROVE  Parses(p) /\ SignatureValid(p) /\ (SizeAccepted(p) <=> payload_len <= MAX_PAYLOAD)
  <1>1. /\ p.size = HEADER_SIZE + payload_len + SIGNATURE_SIZE
        /\ p.payload_len = payload_len /\ p.genuine = TRUE
    BY DEF BuildSignedPacket
  <1>2. Parses(p) /\ SignatureValid(p)
    BY <1>1 DEF Parses, SignatureValid, HEADER_SIZE, SIGNATURE_SIZE
  <1>3. SizeAccepted(p) <=> payload_len <= MAX_PAYLOAD
    BY <1>1 DEF SizeAccepted, HEADER_SIZE, SIGNATURE_SIZE, MIN_PACKET, MAX_PACKET, MAX_PAYLOAD
  <1> QED BY <1>2, <1>3

\* The two bytes that a relay rewrites are the two that the signature leaves
\* out (message.py:39-53): every copy that is sprayed onward still verifies.
THEOREM RelayKeepsSignature ==
  ASSUME NEW Field, NEW Value, NEW p \in [{"ttl", "spray"} \cup Field -> Value],
         NEW copy \in OnwardCopies(p)
  PROVE  SignedRegion(copy) = SignedRegion(p)
  BY DEF OnwardCopies, SignedRegion

-----------------------------------------------------------------------------
\* What the decoders see of an envelope that was just sealed.
LEMMA SealedFields ==
  ASSUME NEW hint, NEW key, NEW len \in Nat, NEW first, NEW flag,
         NEW e, e = Sealed(hint, key, Plain(len, first, flag))
  PROVE  /\ Opens(e, key) /\ e.len = HINT_SIZE + SEAL_OVERHEAD + len
         /\ e.body.len = len /\ e.body.first = first /\ e.body.flag = flag
  BY DEF Sealed, Plain, Opens, HINT_SIZE, SEAL_OVERHEAD

\* FRIEND_REQUEST and FRIEND_ACCEPT: the decoder takes what the encoder
\* returns, with a token and without, and neither is mistaken for the other
\* (friends/wire.py:69-118).
THEOREM FriendDecodersExact ==
  ASSUME NEW name_len \in Nat, NEW token_len \in Nat, NEW hint, NEW key
  PROVE  /\ \A e \in EncodeFriendRequest(name_len, hint, key) :
                DecodesFriendRequest(e, key) /\ ~ DecodesFriendAccept(e, key)
         /\ \A e \in EncodePlainAccept(name_len, hint, key)
                     \cup EncodeTokenAccept(name_len, token_len, hint, key) :
                DecodesFriendAccept(e, key) /\ ~ DecodesFriendRequest(e, key)
  <1> USE DEF Named, IdentitySize, Remainder, HoldsIdentity, TOKEN_SIZE, MAX_USERNAME_BYTES
  <1>1. ASSUME NEW e \in EncodeFriendRequest(name_len, hint, key)
        PROVE  DecodesFriendRequest(e, key) /\ ~ DecodesFriendAccept(e, key)
    <2>1. Named(name_len) /\ e = Sealed(hint, key, Plain(IdentitySize(name_len), name_len, 0))
      BY DEF EncodeFriendRequest
    <2>2. /\ Opens(e, key) /\ e.body.len = IdentitySize(name_len)
          /\ e.body.first = name_len /\ e.body.flag = 0
      BY <2>1, SealedFields
    <2> QED BY <2>1, <2>2 DEF DecodesFriendRequest, DecodesFriendAccept
  <1>2. ASSUME NEW e \in EncodePlainAccept(name_len, hint, key)
        PROVE  DecodesFriendAccept(e, key) /\ ~ DecodesFriendRequest(e, key)
    <2>1. Named(name_len) /\ e = Sealed(hint, key, Plain(IdentitySize(name_len) + 1, name_len, 0))
      BY DEF EncodePlainAccept
    <2>2. /\ Opens(e, key) /\ e.body.len = IdentitySize(name_len) + 1
          /\ e.body.first = name_len /\ e.body.flag = 0
      BY <2>1, SealedFields
    <2> QED BY <2>1, <2>2 DEF DecodesFriendRequest, DecodesFriendAccept
  <1>3. ASSUME NEW e \in EncodeTokenAccept(name_len, token_len, hint, key)
        PROVE  DecodesFriendAccept(e, key) /\ ~ DecodesFriendRequest(e, key)
    <2>1. /\ Named(name_len) /\ token_len = TOKEN_SIZE
          /\ e = Sealed(hint, key, Plain(IdentitySize(name_len) + 1 + token_len, name_len, 1))
      BY DEF EncodeTokenAccept
    <2>2. /\ Opens(e, key) /\ e.body.len = IdentitySize(name_len) + 1 + token_len
          /\ e.body.first = name_len /\ e.body.flag = 1
      BY <2>1, SealedFields
    <2> QED BY <2>1, <2>2 DEF DecodesFriendRequest, DecodesFriendAccept
  <1> QED BY <1>1, <1>2, <1>3

\* Every payload stays within the size of a packet that relays accept
\* (friends/wire.py:13-14), whatever the name, the text and the fix: the sealed
\* ones with their envelope, and the ones in the clear, of which the encoders
\* return the length.
THEOREM PayloadsFit ==
  ASSUME NEW name_len \in Nat, NEW token_len \in Nat, NEW text_len \in Nat, NEW first,
         NEW hint, NEW key, NEW fix, NEW id_len \in Nat, NEW revoked,
         NEW lat, NEW lon, NEW accuracy, NEW query_len \in Nat
  PROVE  /\ \A e \in EncodeFriendRequest(name_len, hint, key)
                     \cup EncodePlainAccept(name_len, hint, key)
                     \cup EncodeTokenAccept(name_len, token_len, hint, key)
                     \cup EncodeDirectMessage(text_len, first, hint, key)
                     \cup EncodeLocationResponse(fix, hint, key) : e.len <= MAX_PAYLOAD
         /\ \A len \in EncodeFriendDecline(id_len)
                       \cup EncodeLocationRevoke(revoked)
                       \cup EncodeLocationBeacon(lat, lon, accuracy) : len <= MAX_PAYLOAD
         /\ IsLocationQuery(query_len) => query_len <= MAX_PAYLOAD
  <1> USE DEF Named, IdentitySize, TOKEN_SIZE, MAX_USERNAME_BYTES, HINT_SIZE, SEAL_OVERHEAD, MAX_PAYLOAD
  <1>1. ASSUME NEW e \in EncodeFriendRequest(name_len, hint, key) PROVE e.len <= MAX_PAYLOAD
    BY SealedFields DEF EncodeFriendRequest
  <1>2. ASSUME NEW e \in EncodePlainAccept(name_len, hint, key) PROVE e.len <= MAX_PAYLOAD
    BY SealedFields DEF EncodePlainAccept
  <1>3. ASSUME NEW e \in EncodeTokenAccept(name_len, token_len, hint, key)
        PROVE  e.len <= MAX_PAYLOAD
    BY SealedFields DEF EncodeTokenAccept
  <1>4. ASSUME NEW e \in EncodeDirectMessage(text_len, first, hint, key) PROVE e.len <= MAX_PAYLOAD
    BY SealedFields DEF EncodeDirectMessage, DmText, MAX_DM_TEXT_BYTES
  <1>5. ASSUME NEW e \in EncodeLocationResponse(fix, hint, key) PROVE e.len <= MAX_PAYLOAD
    BY SealedFields DEF EncodeLocationResponse, RESPONSE_SIZE
  <1>6. ASSUME NEW len \in EncodeFriendDecline(id_len) PROVE len <= MAX_PAYLOAD
    BY DEF EncodeFriendDecline, MSG_ID_SIZE
  <1>7. ASSUME NEW len \in EncodeLocationRevoke(revoked) PROVE len <= MAX_PAYLOAD
    BY DEF EncodeLocationRevoke, REVOKE_PAYLOAD_SIZE
  <1>8. ASSUME NEW len \in EncodeLocationBeacon(lat, lon, accuracy) PROVE len <= MAX_PAYLOAD
    BY DEF EncodeLocationBeacon, BEACON_PAYLOAD_SIZE
  <1>9. IsLocationQuery(query_len) => query_len <= MAX_PAYLOAD
    BY DEF IsLocationQuery
  <1> QED BY <1>1, <1>2, <1>3, <1>4, <1>5, <1>6, <1>7, <1>8, <1>9

\* The cap on the text of a direct message is exact (friends/wire.py:25-26):
\* what it lets through is decoded, and one byte more would not fit a packet.
THEOREM DmCapExact ==
  ASSUME NEW text_len \in Nat, NEW first, NEW hint, NEW key
  PROVE  /\ \A e \in EncodeDirectMessage(text_len, first, hint, key) : DecodesDirectMessage(e, key)
         /\ text_len > 0 =>
              (EncodeDirectMessage(text_len, first, hint, key) # {}
                 <=> HINT_SIZE + SEAL_OVERHEAD + text_len <= MAX_PAYLOAD)
  <1>1. ASSUME NEW e \in EncodeDirectMessage(text_len, first, hint, key)
        PROVE  DecodesDirectMessage(e, key)
    BY SealedFields DEF EncodeDirectMessage, DecodesDirectMessage
  <1>2. DmText(text_len) <=> text_len > 0 /\ HINT_SIZE + SEAL_OVERHEAD + text_len <= MAX_PAYLOAD
    BY DEF DmText, MAX_DM_TEXT_BYTES, HINT_SIZE, SEAL_OVERHEAD, MAX_PAYLOAD
  <1>3. EncodeDirectMessage(text_len, first, hint, key) # {} <=> DmText(text_len)
    BY DEF EncodeDirectMessage
  <1> QED BY <1>1, <1>2, <1>3
=============================================================================
