---------------------------- MODULE RelayPipeline ----------------------------
(***************************************************************************)
(* RelayPipeline.process of src/pipeline/pipeline.py: the eight steps, in  *)
(* their order, over the state of one node.                                *)
(***************************************************************************)
EXTENDS DedupCache, RateLimiter, SprayAndWait, PacketChecks, Attestation

\* A node: attests says whether an AttestationCache was provided.
NewNode(attests) ==
    [attests |-> attests,
     dedup   |-> NewCache,
     limiter |-> NewLimiter,
     tokens  |-> NoTokens,
     budget  |-> NewBudget]

RateVerdict(node, p, now) == RateCheck(node.limiter, p.ephem, now).verdict

\* Mutant: no dedup.
ScreenNoDedup(node, p, now) ==
    IF ~ SizeAccepted(p) \/ ~ Parses(p)        THEN "malformed"
    ELSE IF ~ TtlAlive(p) \/ ~ Timely(p, now)  THEN "expired"
    ELSE "new"

\* Steps 1 to 4, which read the node: the step that drops p, or "new".
Screen(node, p, now) ==
    IF ~ SizeAccepted(p) \/ ~ Parses(p)        THEN "malformed"
    ELSE IF ~ TtlAlive(p) \/ ~ Timely(p, now)  THEN "expired"
    ELSE IF IsDuplicate(node.dedup, p.id)      THEN "duplicate"
    ELSE "new"

\* Mutant: the signature is verified before the rate limit.
JudgeVerifyFirst(node, p, now) ==
    IF ~ SignatureValid(p)                          THEN "forged"
    ELSE IF RateVerdict(node, p, now) # "pass"      THEN "throttled"
    ELSE IF node.attests /\ ~ Attested(node.tokens, p.sender, now) THEN "unattested"
    ELSE IF ~ WithinBudget(node.budget, p.id, p.spray)             THEN "inflated"
    ELSE "deliver"

\* Steps 5 to 8: the step that drops p, or "deliver".
Judge(node, p, now) ==
    IF RateVerdict(node, p, now) # "pass"      THEN "throttled"
    ELSE IF ~ SignatureValid(p)                THEN "forged"
    ELSE IF node.attests /\ ~ Attested(node.tokens, p.sender, now) THEN "unattested"
    ELSE IF ~ WithinBudget(node.budget, p.id, p.spray)             THEN "inflated"
    ELSE "deliver"

\* The outcomes after the signature was verified (step 6).
Verified == {"forged", "unattested", "inflated", "deliver"}

\* What process(p) leaves behind when step 4 lets p through: every step that
\* ran has written its state, also when a later one drops the packet.
AfterProcess(node, p, now) ==
    LET judged == Judge(node, p, now)
    IN  [node EXCEPT
            !.dedup   = Remember(@, p.id, now),
            !.limiter = RateCheck(@, p.ephem, now).next,
            !.tokens  = IF judged = "unattested" THEN AfterCheck(@, p.sender, now) ELSE @,
            !.budget  = IF judged = "deliver" THEN Observe(@, p.id, p.spray) ELSE @]

\* Mutant: off by one, a copy that would arrive with ttl 1 is not sent.
OnwardCopiesEarly(p) ==
    LET forward == SplitCopies(p.spray).forward
    IN  IF p.ttl - 1 <= 1 \/ forward = 0
        THEN {}
        ELSE {[p EXCEPT !.ttl = @ - 1, !.spray = forward]}

\* The copy to hand to peers: none once the hop or the copy budget is spent.
OnwardCopies(p) ==
    LET forward == SplitCopies(p.spray).forward
    IN  IF p.ttl - 1 <= 0 \/ forward = 0
        THEN {}
        ELSE {[p EXCEPT !.ttl = @ - 1, !.spray = forward]}
=============================================================================
