------------------------------ MODULE RateProofs ------------------------------
(***************************************************************************)
(* Proofs about the rate limiter: for all limits, durations and senders,   *)
(* what it keeps about a sender is as good as the log of all its verdicts, *)
(* so that every verdict is the one of RateLimitPolicy, and the promises   *)
(* of step 5 follow from the log alone.                                    *)
(***************************************************************************)
EXTENDS RateLimiting, SequenceLemmas
-----------------------------------------------------------------------------
(* The window as a tail of the accepted messages.                          *)

\* The window w has the times T of the messages P, oldest first, except for some
\* that no longer count.
Tracks(w, P, T, t) ==
    /\ \A k \in 1..Len(w) : w[k] <= t
    /\ \A j, k \in 1..Len(w) : j <= k => w[j] <= w[k]
    /\ \E f \in Injection(1..Len(w), P) :
          /\ \A k \in 1..Len(w) : T[f[k]] = w[k]
          /\ \A i \in P : (\A k \in 1..Len(w) : f[k] # i) => t - T[i] > WINDOW_SECONDS

\* The loop over the window stops at the first message that still counts.
LEMMA SlideStops ==
  ASSUME NEW w \in Seq(Int), NEW t \in Int
  PROVE  \E k \in 0..Len(w) :
            /\ Slide(w, t) = From(w, k)
            /\ \A j \in 1..k : t - w[j] > WINDOW_SECONDS
            /\ k < Len(w) => t - w[k + 1] <= WINDOW_SECONDS
  <1> DEFINE Stop == {k \in 0..Len(w) : ~ StaleHead(w, t, k)}
             First(k) == ~ StaleHead(w, t, k) /\ \A j \in 0..(k - 1) : StaleHead(w, t, j)
  <1>1. Len(w) \in Nat /\ \A k \in 1..Len(w) : w[k] \in Int
    OBVIOUS
  <1>2. \E k \in 0..Len(w) : First(k)
    <2>1. Stop \in SUBSET (0..Len(w)) /\ Len(w) \in Stop
      BY <1>1 DEF StaleHead
    <2>2. PICK k \in Stop : \A j \in 0..(k - 1) : j \notin Stop
      <3> HIDE DEF Stop
      <3> QED BY <1>1, <2>1, FirstStop
    <2>3. \A j \in 0..(k - 1) : j \in 0..Len(w)
      BY <1>1
    <2> QED BY <2>2, <2>3
  <1> DEFINE k == CHOOSE k \in 0..Len(w) : First(k)
  <1>3. k \in 0..Len(w) /\ First(k)
    <2> HIDE DEF First
    <2> QED BY <1>2
  <1>4. Slide(w, t) = From(w, k)
    BY DEF Slide, From
  <1> HIDE DEF k
  <1>5. ASSUME NEW j \in 1..k PROVE t - w[j] > WINDOW_SECONDS
    <2>1. j - 1 \in 0..(k - 1) /\ (j - 1) + 1 = j
      BY <1>1, <1>3
    <2>2. StaleHead(w, t, j - 1)
      BY <1>3, <2>1
    <2> QED BY <2>1, <2>2 DEF StaleHead
  <1>6. k < Len(w) => t - w[k + 1] <= WINDOW_SECONDS
    <2>1. k < Len(w) => k + 1 \in 1..Len(w)
      BY <1>1, <1>3
    <2> QED BY <1>1, <1>3, <2>1, RateDurations DEF StaleHead
  <1> QED BY <1>3, <1>4, <1>5, <1>6

\* After the loop the window still tracks the messages, and has exactly those
\* that count: its length is what the limit is about.
LEMMA SlideCounts ==
  ASSUME NEW w \in Seq(Int), NEW t \in Int, NEW P, NEW T, \A i \in P : T[i] \in Int,
         Tracks(w, P, T, t)
  PROVE  /\ Slide(w, t) \in Seq(Int) /\ Len(Slide(w, t)) <= Len(w)
         /\ Tracks(Slide(w, t), P, T, t)
         /\ Cardinality({i \in P : t - T[i] <= WINDOW_SECONDS}) = Len(Slide(w, t))
  <1>1. PICK k \in 0..Len(w) : /\ Slide(w, t) = From(w, k)
                               /\ \A j \in 1..k : t - w[j] > WINDOW_SECONDS
                               /\ k < Len(w) => t - w[k + 1] <= WINDOW_SECONDS
    BY SlideStops
  <1> DEFINE v == From(w, k)
             n == Len(w) - k
             Live == {i \in P : t - T[i] <= WINDOW_SECONDS}
  <1>2. /\ v \in Seq(Int) /\ Len(v) = n /\ n \in Nat /\ n <= Len(w) /\ Len(w) \in Nat
        /\ k \in Nat /\ \A i \in 1..n : v[i] = w[k + i] /\ k + i \in 1..Len(w)
    <2>1. Len(w) \in Nat
      OBVIOUS
    <2> QED BY <2>1, FromProperties
  <1>3. PICK f \in Injection(1..Len(w), P) :
            /\ \A j \in 1..Len(w) : T[f[j]] = w[j]
            /\ \A i \in P : (\A j \in 1..Len(w) : f[j] # i) => t - T[i] > WINDOW_SECONDS
    BY DEF Tracks
  <1>12. /\ \A a \in 1..Len(w) : w[a] <= t
         /\ \A a, b \in 1..Len(w) : a <= b => w[a] <= w[b]
    BY DEF Tracks
  <1> HIDE DEF v, n
  <1> DEFINE g == [i \in 1..n |-> f[k + i]]
  <1>4. g \in Injection(1..n, P)
    <2>1. f \in [1..Len(w) -> P] /\ \A a, b \in 1..Len(w) : f[a] = f[b] => a = b
      BY DEF Injection, IsInjective
    <2>2. \A a \in 1..n : f[k + a] \in P
      BY <2>1, <1>2
    <2>3. \A a, b \in 1..n : f[k + a] = f[k + b] => k + a = k + b
      BY <2>1, <1>2
    <2>4. \A a, b \in 1..n : f[k + a] = f[k + b] => a = b
      BY <2>3, <1>2
    <2> QED BY <2>2, <2>4 DEF Injection, IsInjective
  <1>5. \A i \in 1..n : T[g[i]] = v[i]
    BY <1>2, <1>3
  <1>6. ASSUME NEW i \in P, \A j \in 1..n : g[j] # i PROVE t - T[i] > WINDOW_SECONDS
    <2>1. CASE \E j \in 1..k : f[j] = i
      <3>1. PICK j \in 1..k : f[j] = i
        BY <2>1
      <3>2. j \in 1..Len(w) /\ t - w[j] > WINDOW_SECONDS
        BY <1>1, <1>2, <3>1
      <3> QED BY <1>3, <3>1, <3>2
    <2>2. CASE \A j \in 1..k : f[j] # i
      <3>1. ASSUME NEW j \in 1..Len(w) PROVE f[j] # i
        <4>1. j \in 1..k \/ (j - k \in 1..n /\ k + (j - k) = j)
          BY <1>2 DEF n
        <4> QED BY <4>1, <2>2, <1>6
      <3> QED BY <3>1, <1>3
    <2> QED BY <2>1, <2>2
  <1>7. \A i, j \in 1..n : v[i] <= t /\ (i <= j => v[i] <= v[j])
    <2>1. ASSUME NEW i \in 1..n, NEW j \in 1..n, i <= j PROVE k + i <= k + j
      BY <1>2, <2>1
    <2>2. \A i \in 1..n : v[i] <= t
      BY <1>2, <1>12, Zenon
    <2>3. ASSUME NEW i \in 1..n, NEW j \in 1..n, i <= j PROVE v[i] <= v[j]
      BY <1>2, <1>12, <2>1, <2>3, Zenon
    <2> QED BY <2>2, <2>3, Zenon
  <1>8. Tracks(v, P, T, t)
    <2> HIDE DEF g
    <2> QED BY <1>2, <1>4, <1>5, <1>6, <1>7 DEF Tracks
  <1>9. ASSUME NEW i \in 1..n PROVE t - v[i] <= WINDOW_SECONDS
    <2> HIDE DEF Live, g
    <2>1. k + i \in 1..Len(w) /\ v[i] = w[k + i]
      BY <1>2, Zenon
    <2>2. k < Len(w) /\ k + 1 \in 1..Len(w) /\ k + 1 <= k + i
      BY <1>2, <2>1
    <2>3. w[k + 1] <= w[k + i]
      BY <1>12, <2>1, <2>2, Zenon
    <2>4. w[k + 1] \in Int /\ w[k + i] \in Int
      BY <2>1, <2>2
    <2>5. t - w[k + 1] <= WINDOW_SECONDS
      BY <1>1, <2>2
    <2>6. \A a, b \in Int : t - a <= WINDOW_SECONDS /\ a <= b => t - b <= WINDOW_SECONDS
      BY RateDurations
    <2> QED BY <2>1, <2>3, <2>4, <2>5, <2>6, Zenon
  <1>10. g \in Bijection(1..n, Live)
    <2>1. \A i \in 1..n : g[i] \in Live
      <3> HIDE DEF g
      <3> QED BY <1>4, <1>5, <1>9 DEF Injection, IsInjective
    <2>2. \A i \in Live : \E j \in 1..n : g[j] = i
      <3> HIDE DEF g
      <3> QED BY <1>6, RateDurations
    <2> HIDE DEF g, Live
    <2>3. g \in [1..n -> Live]
      BY <2>1 DEF g
    <2> QED BY <1>4, <2>2, <2>3 DEF Bijection, Injection, Surjection, IsInjective
  <1>11. Cardinality(Live) = n
    <2> HIDE DEF g, Live
    <2> QED BY <1>2, <1>10, FS_CountingElements DEF ExistsBijection
  <1> QED BY <1>1, <1>2, <1>8, <1>11 DEF v

\* An accepted message joins the window.
LEMMA AppendTracks ==
  ASSUME NEW w \in Seq(Int), NEW t \in Int, NEW P, NEW T, Tracks(w, P, T, t),
         NEW n, n \notin P, NEW U, \A i \in P : U[i] = T[i], U[n] = t
  PROVE  Tracks(Append(w, t), P \cup {n}, U, t)
  <1> DEFINE v == Append(w, t)
             l == Len(w)
  <1>1. /\ l \in Nat /\ v \in Seq(Int) /\ Len(v) = l + 1 /\ v[l + 1] = t
        /\ \A i \in 1..l : v[i] = w[i] /\ w[i] \in Int
    OBVIOUS
  <1>2. PICK f \in Injection(1..l, P) :
            /\ \A j \in 1..l : T[f[j]] = w[j]
            /\ \A i \in P : (\A j \in 1..l : f[j] # i) => t - T[i] > WINDOW_SECONDS
    BY DEF Tracks
  <1>3. /\ \A i \in 1..l : w[i] <= t
        /\ \A i, j \in 1..l : i <= j => w[i] <= w[j]
    BY DEF Tracks
  <1> HIDE DEF v, l
  <1> DEFINE g == [i \in 1..(l + 1) |-> IF i = l + 1 THEN n ELSE f[i]]
  <1>4. \A i \in 1..(l + 1) : i = l + 1 \/ i \in 1..l
    BY <1>1
  <1>5. g \in Injection(1..(l + 1), P \cup {n})
    BY <1>2, <1>4 DEF Injection, IsInjective
  <1>6. \A i \in 1..(l + 1) : U[g[i]] = v[i]
    <2>1. \A i \in 1..l : g[i] = f[i] /\ f[i] \in P
      BY <1>1, <1>2 DEF Injection, IsInjective
    <2>2. g[l + 1] = n
      BY <1>1
    <2>3. \A i \in 1..l : T[f[i]] = v[i] /\ U[f[i]] = T[f[i]]
      BY <1>1, <1>2, <2>1, Zenon
    <2>4. \A i \in 1..l : U[g[i]] = v[i]
      BY <2>1, <2>3, Zenon
    <2>5. U[g[l + 1]] = v[l + 1]
      BY <1>1, <2>2
    <2> HIDE DEF g
    <2> QED BY <1>4, <2>4, <2>5, Zenon
  <1>7. ASSUME NEW i \in P \cup {n}, \A j \in 1..(l + 1) : g[j] # i
        PROVE  t - U[i] > WINDOW_SECONDS
    <2>1. i # n /\ \A j \in 1..l : f[j] # i
      BY <1>1, <1>7
    <2> QED BY <2>1, <1>2
  <1>8. \A i, j \in 1..(l + 1) : v[i] <= t /\ (i <= j => v[i] <= v[j])
    <2>1. ASSUME NEW i \in 1..(l + 1) PROVE v[i] <= t
      <3>1. CASE i = l + 1
        BY <3>1, <1>1
      <3>2. CASE i \in 1..l
        BY <3>2, <1>1, <1>3
      <3> QED BY <3>1, <3>2, <1>4
    <2>2. ASSUME NEW i \in 1..(l + 1), NEW j \in 1..(l + 1), i <= j PROVE v[i] <= v[j]
      <3>1. CASE j = l + 1
        BY <3>1, <2>1, <1>1
      <3>2. CASE j # l + 1
        <4>1. i \in 1..l /\ j \in 1..l
          BY <2>2, <3>2, <1>1, <1>4
        <4> QED BY <4>1, <2>2, <1>1, <1>3
      <3> QED BY <3>1, <3>2
    <2> QED BY <2>1, <2>2
  <1> HIDE DEF g
  <1>9. \E h \in Injection(1..(l + 1), P \cup {n}) :
           /\ \A k \in 1..(l + 1) : U[h[k]] = v[k]
           /\ \A i \in P \cup {n} : (\A k \in 1..(l + 1) : h[k] # i) => t - U[i] > WINDOW_SECONDS
    BY <1>5, <1>6, <1>7
  <1>10. Tracks(v, P \cup {n}, U, t)
    <2>1. /\ \A i \in 1..(l + 1) : v[i] <= t
          /\ \A i, j \in 1..(l + 1) : i <= j => v[i] <= v[j]
      BY <1>8, Zenon
    <2>2. Len(v) = l + 1
      BY <1>1
    <2> QED BY ONLY <1>9, <2>1, <2>2 DEF Tracks
  <1> QED BY <1>10 DEF v

\* Time passes.
LEMMA LaterTracks ==
  ASSUME NEW w \in Seq(Int), NEW t \in Int, NEW P, NEW T, \A i \in P : T[i] \in Int,
         Tracks(w, P, T, t), NEW u \in Int, t <= u
  PROVE  Tracks(w, P, T, u)
  <1>1. \A k \in 1..Len(w) : w[k] \in Int
    OBVIOUS
  <1>2. ASSUME NEW x \in Int, t - x > WINDOW_SECONDS PROVE u - x > WINDOW_SECONDS
    BY <1>2, RateDurations
  <1> QED BY <1>1, <1>2 DEF Tracks

\* What is too old needs no window.
LEMMA EmptyTracks ==
  ASSUME NEW P, NEW T, NEW t \in Int, \A i \in P : t - T[i] > WINDOW_SECONDS
  PROVE  Tracks(<<>>, P, T, t)
  <1> DEFINE f == [k \in 1..0 |-> k]
  <1>1. f \in Injection(1..0, P)
    BY DEF Injection, IsInjective
  <1> HIDE DEF f
  <1>2. Len(<<>>) = 0 /\ 1..0 = {}
    OBVIOUS
  <1> QED BY <1>1, <1>2 DEF Tracks
-----------------------------------------------------------------------------
(* One check of a sender.                                                  *)

SenderOK(s) ==
    /\ s \in SenderState
    /\ Len(s.window) <= MAX_MESSAGES_PER_WINDOW /\ s.violations < BAN_VIOLATION_THRESHOLD

\* A check with its verdict leaves s as r.
Checked(s, t, verdict, r) ==
    LET room == Len(Slide(s.window, t)) < MAX_MESSAGES_PER_WINDOW
    IN  \/ /\ t < s.banned_until /\ verdict = "banned"
           /\ r.window = s.window /\ r.violations = s.violations
           /\ r.banned_until = s.banned_until
        \/ /\ ~ (t < s.banned_until) /\ room /\ verdict = "pass"
           /\ r.window = Append(Slide(s.window, t), t) /\ r.violations = 0
           /\ r.banned_until = s.banned_until
        \/ /\ ~ (t < s.banned_until) /\ ~ room /\ r.window = Slide(s.window, t)
           /\ \/ /\ s.violations + 1 >= BAN_VIOLATION_THRESHOLD /\ verdict = "ban"
                 /\ r.violations = 0 /\ r.banned_until = t + BAN_SECONDS
              \/ /\ s.violations + 1 < BAN_VIOLATION_THRESHOLD /\ verdict = "exceeded"
                 /\ r.violations = s.violations + 1 /\ r.banned_until = s.banned_until

LEMMA FreshOK == SenderOK(FreshSender)
  BY RatePositive DEF SenderOK, FreshSender, SenderState

\* What a check does to a sender, and that it keeps within the limits.
LEMMA CheckSenderEffect ==
  ASSUME NEW s, SenderOK(s), NEW t \in Int
  PROVE  LET r == CheckSender(s, t)
         IN  /\ r.verdict \in Verdict /\ SenderOK(r.next) /\ r.next.last_seen = t
             /\ Checked(s, t, r.verdict, r.next)
  <1> DEFINE r == CheckSender(s, t)
             v == Slide(s.window, t)
             seen == [s EXCEPT !.last_seen = t]
             recent == [seen EXCEPT !.window = v]
  <1>1. s \in SenderState /\ s.window \in Seq(Int)
    BY DEF SenderOK, SenderState
  <1>2. v \in Seq(Int) /\ Len(v) <= Len(s.window) /\ Len(s.window) \in Nat
    <2>1. PICK k \in 0..Len(s.window) : v = From(s.window, k)
      BY <1>1, SlideStops
    <2>2. Len(s.window) \in Nat
      BY <1>1
    <2> QED BY <1>1, <2>1, <2>2, FromProperties
  <1> HIDE DEF v
  <1>3. /\ seen \in SenderState /\ seen.window = s.window /\ seen.violations = s.violations
        /\ seen.banned_until = s.banned_until /\ seen.last_seen = t
    BY <1>1 DEF SenderState
  <1>4. /\ recent \in SenderState /\ recent.window = v /\ recent.violations = s.violations
        /\ recent.banned_until = s.banned_until /\ recent.last_seen = t
    BY <1>2, <1>3 DEF SenderState
  <1>5. r = IF t < s.banned_until THEN Refuse(seen, t)
            ELSE IF Len(v) < MAX_MESSAGES_PER_WINDOW THEN Admit(recent, t)
            ELSE Violate(recent, t)
    BY <1>4 DEF CheckSender, IsBanned, v
  <1> HIDE DEF r, seen, recent
  <1>6. CASE t < s.banned_until
    <2>1. r.verdict = "banned" /\ r.next = seen
      BY <1>5, <1>6 DEF Refuse
    <2>2. SenderOK(seen) /\ Checked(s, t, "banned", seen)
      BY <1>3, <1>6 DEF SenderOK, Checked
    <2> QED BY <1>3, <2>1, <2>2 DEF Verdict, r
  <1>7. CASE ~ (t < s.banned_until) /\ Len(v) < MAX_MESSAGES_PER_WINDOW
    <2> DEFINE a == [recent EXCEPT !.violations = 0, !.window = Append(@, t)]
    <2>1. /\ Append(v, t) \in Seq(Int) /\ Len(Append(v, t)) = Len(v) + 1
      BY <1>2
    <2>2. /\ a \in SenderState /\ a.window = Append(v, t) /\ a.violations = 0
          /\ a.banned_until = s.banned_until /\ a.last_seen = t
      BY <1>4, <2>1 DEF SenderState
    <2>3. r.verdict = "pass" /\ r.next = a
      BY <1>5, <1>7 DEF Admit
    <2> HIDE DEF a
    <2>4. SenderOK(a)
      BY <1>2, <1>7, <2>1, <2>2, RatePositive DEF SenderOK
    <2>5. Checked(s, t, "pass", a)
      BY <1>7, <2>2 DEF Checked, v
    <2> QED BY <2>2, <2>3, <2>4, <2>5 DEF Verdict, r
  <1>8. CASE ~ (t < s.banned_until) /\ ~ (Len(v) < MAX_MESSAGES_PER_WINDOW)
    <2> DEFINE until == t + BAN_SECONDS
               more == recent.violations + 1
               a == [recent EXCEPT !.violations = 0, !.banned_until = until]
               b == [recent EXCEPT !.violations = more]
    <2>1. /\ s.violations \in Nat /\ BAN_SECONDS \in Nat /\ BAN_VIOLATION_THRESHOLD \in Nat \ {0}
          /\ until \in Int /\ more \in Nat /\ more = s.violations + 1
      BY <1>1, <1>4, RateDurations, RatePositive DEF SenderState
    <2> HIDE DEF until, more
    <2>2. /\ a \in SenderState /\ a.window = v /\ a.violations = 0
          /\ a.banned_until = until /\ a.last_seen = t
      BY <1>4, <2>1 DEF SenderState
    <2>3. /\ b \in SenderState /\ b.window = v /\ b.violations = more
          /\ b.banned_until = s.banned_until /\ b.last_seen = t
      BY <1>4, <2>1 DEF SenderState
    <2>4. r = Violate(recent, t)
      BY <1>5, <1>8
    <2>5. CASE s.violations + 1 >= BAN_VIOLATION_THRESHOLD
      <3>1. r.verdict = "ban" /\ r.next = a
        BY <1>4, <2>4, <2>5 DEF Violate, until
      <3> HIDE DEF a, b
      <3>2. SenderOK(a) /\ Checked(s, t, "ban", a)
        BY <1>2, <1>8, <2>1, <2>2, <2>5, RatePositive DEF SenderOK, Checked, v, until
      <3> QED BY <2>2, <3>1, <3>2 DEF Verdict, r
    <2>6. CASE ~ (s.violations + 1 >= BAN_VIOLATION_THRESHOLD)
      <3>1. r.verdict = "exceeded" /\ r.next = b
        BY <1>4, <2>1, <2>4, <2>6 DEF Violate, more
      <3> HIDE DEF a, b
      <3>2. SenderOK(b) /\ Checked(s, t, "exceeded", b)
        BY <1>2, <1>8, <2>1, <2>3, <2>6, RatePositive DEF SenderOK, Checked, v
      <3> QED BY <2>3, <3>1, <3>2 DEF Verdict, r
    <2> QED BY <2>5, <2>6
  <1> QED BY <1>6, <1>7, <1>8
-----------------------------------------------------------------------------
(* The limiter against the log.                                            *)

Passes(e) == {i \in Of(e) : log[i].verdict = "pass"}

Times(e) == [i \in Of(e) |-> log[i].at]

\* The state s of a sender is what its part of the log amounts to. The violations
\* are forgotten with an idle sender; by then its window is empty.
Represents(e, s) ==
    /\ Tracks(s.window, Passes(e), Times(e), now)
    /\ \A i \in Of(e) : log[i].verdict = "ban" =>
          \/ log[i].at + BAN_SECONDS <= s.banned_until
          \/ log[i].at + BAN_SECONDS <= now
    /\ now < s.banned_until =>
          \E i \in Of(e) : log[i].verdict = "ban" /\ log[i].at + BAN_SECONDS = s.banned_until
    /\ \/ s.violations = Cardinality(Policy!Streak(e))
       \/ \A i \in Passes(e) : now - log[i].at > WINDOW_SECONDS

\* setdefault: what check() finds of e in the dictionary d.
Sender(d, e) == IF e \in DOMAIN d THEN d[e] ELSE FreshSender

\* last_seen is no earlier than anything in the log.
LastSeen(d, e) ==
    e \in DOMAIN d => /\ Of(e) # {} /\ d[e].last_seen <= now
                      /\ \A i \in Of(e) : log[i].at <= d[e].last_seen

Dictionary(d) ==
    /\ DOMAIN d \subseteq EphemId /\ d \in [DOMAIN d -> SenderState]
    /\ \A e \in DOMAIN d : SenderOK(d[e])
    /\ \A e \in EphemId : Represents(e, Sender(d, e)) /\ LastSeen(d, e)

LogOrdered ==
    /\ now \in Nat /\ log \in Seq(LogEntry)
    /\ \A i, j \in DOMAIN log : log[i].at <= now /\ (i <= j => log[i].at <= log[j].at)

RateInv == LogOrdered /\ Dictionary(limiter.senders) /\ limiter.checks = Len(log)

\* The policy counts as the limiter does.
LEMMA PolicyCounts == \A S : Policy!Cardinality(S) = Cardinality(S)
  BY DEF Policy!Cardinality, Cardinality, Policy!IsFiniteSet, IsFiniteSet

LEMMA LogFacts ==
  ASSUME LogOrdered
  PROVE  /\ now \in Nat /\ Len(log) \in Nat /\ DOMAIN log = 1..Len(log)
         /\ \A i \in DOMAIN log : /\ log[i] \in LogEntry /\ log[i].at \in Int
                                  /\ log[i].verdict \in Verdict
         /\ \A e : IsFiniteSet(Of(e)) /\ Of(e) \subseteq DOMAIN log
  <1>1. /\ now \in Nat /\ Len(log) \in Nat /\ DOMAIN log = 1..Len(log)
        /\ \A i \in DOMAIN log : log[i] \in LogEntry
    BY DEF LogOrdered
  <1>2. \A i \in DOMAIN log : log[i].at \in Int /\ log[i].verdict \in Verdict
    BY <1>1 DEF LogEntry
  <1>3. IsFiniteSet(DOMAIN log)
    BY <1>1, FS_Interval
  <1>4. \A e : Of(e) \in SUBSET DOMAIN log
    BY DEF Of
  <1>5. \A e : IsFiniteSet(Of(e))
    BY <1>3, <1>4, FS_Subset
  <1> QED BY <1>1, <1>2, <1>4, <1>5

\* The verdict on e is the one of the policy.
LEMMA VerdictDecides ==
  ASSUME LogOrdered, NEW e, NEW s, SenderOK(s), Represents(e, s),
         NEW verdict, NEW r, Checked(s, now, verdict, r)
  PROVE  /\ verdict = Policy!Decide(e)
         /\ verdict = "exceeded" => s.violations = Cardinality(Policy!Streak(e))
  <1>1. /\ now \in Int /\ s.window \in Seq(Int) /\ s.banned_until \in Int
        /\ \A i \in Of(e) : log[i].at \in Int
    BY LogFacts DEF SenderOK, SenderState
  <1>2. Policy!Banned(e) <=> now < s.banned_until
    BY <1>1, RateDurations DEF Policy!Banned, Policy!Of, Of, Represents
  <1>3. Policy!Recent(e) = {i \in Passes(e) : now - Times(e)[i] <= WINDOW_SECONDS}
    BY DEF Policy!Recent, Policy!Of, Of, Passes, Times
  <1>4. \A i \in Passes(e) : Times(e)[i] \in Int /\ Times(e)[i] = log[i].at
    BY <1>1 DEF Passes, Times
  <1>5. Cardinality(Policy!Recent(e)) = Len(Slide(s.window, now))
    <2>1. Tracks(s.window, Passes(e), Times(e), now)
      BY DEF Represents
    <2> QED BY <1>1, <1>3, <1>4, <2>1, SlideCounts
  <1>6. ASSUME Cardinality(Policy!Recent(e)) >= MAX_MESSAGES_PER_WINDOW
        PROVE  s.violations = Cardinality(Policy!Streak(e))
    <2>1. SUFFICES ASSUME \A i \in Passes(e) : now - log[i].at > WINDOW_SECONDS PROVE FALSE
      BY DEF Represents
    <2>2. Policy!Recent(e) = {}
      BY <1>1, <1>3, <1>4, <2>1, RateDurations DEF Passes
    <2>3. Cardinality(Policy!Recent(e)) = 0
      BY <2>2, FS_EmptySet
    <2> QED BY <1>6, <2>3, RatePositive
  <1>7. Len(Slide(s.window, now)) \in Nat
    <2>1. PICK k \in 0..Len(s.window) : Slide(s.window, now) = From(s.window, k)
      BY <1>1, SlideStops
    <2>2. From(s.window, k) \in Seq(Int)
      BY <1>1, FromProperties
    <2> QED BY <2>1, <2>2
  <1>8. s.violations \in Nat
    BY DEF SenderOK, SenderState
  <1>9. CASE now < s.banned_until
    BY <1>2, <1>9 DEF Checked, Policy!Decide
  <1>10. CASE ~ (now < s.banned_until) /\ Len(Slide(s.window, now)) < MAX_MESSAGES_PER_WINDOW
    BY <1>2, <1>5, <1>10, PolicyCounts DEF Checked, Policy!Decide
  <1>11. CASE ~ (now < s.banned_until) /\ ~ (Len(Slide(s.window, now)) < MAX_MESSAGES_PER_WINDOW)
    <2>1. s.violations = Cardinality(Policy!Streak(e))
      BY <1>5, <1>6, <1>7, <1>11, RatePositive
    <2> QED BY <1>2, <1>5, <1>8, <1>11, <2>1, PolicyCounts, RatePositive DEF Checked, Policy!Decide
  <1> QED BY <1>9, <1>10, <1>11

\* What one more entry does to the part of the log that is about e.
LEMMA LogGrows ==
  ASSUME LogOrdered, NEW x \in LogEntry, log' = Append(log, x), x.at = now, now' = now
  PROVE  /\ LogOrdered'
         /\ Len(log') = Len(log) + 1 /\ Len(log) + 1 \notin DOMAIN log
         /\ log'[Len(log) + 1] = x /\ \A i \in DOMAIN log : log'[i] = log[i] /\ i < Len(log) + 1
         /\ \A e : /\ e # x.ephem => Of(e)' = Of(e)
                   /\ e = x.ephem => Of(e)' = Of(e) \cup {Len(log) + 1}
  <1> DEFINE n == Len(log) + 1
  <1>1. /\ log \in Seq(LogEntry) /\ Len(log) \in Nat /\ DOMAIN log = 1..Len(log)
        /\ \A i \in DOMAIN log : log[i].at \in Int /\ log[i].at <= now
    BY LogFacts DEF LogOrdered
  <1>2. /\ log' \in Seq(LogEntry) /\ Len(log') = n /\ DOMAIN log' = 1..n /\ log'[n] = x
        /\ \A i \in 1..Len(log) : log'[i] = log[i]
    BY <1>1
  <1>3. n \notin DOMAIN log /\ \A i \in DOMAIN log : i < n
    BY <1>1
  <1> HIDE DEF n
  <1>4. DOMAIN log' = DOMAIN log \cup {n}
    BY <1>1, <1>2 DEF n
  <1>5. now \in Nat
    BY LogFacts
  <1>6. LogOrdered'
    <2>1. ASSUME NEW i \in DOMAIN log' PROVE log'[i].at <= now /\ log'[i].at \in Int
      BY <1>1, <1>2, <1>4, <1>5
    <2>2. ASSUME NEW i \in DOMAIN log', NEW j \in DOMAIN log', i <= j PROVE log'[i].at <= log'[j].at
      <3>1. CASE j = n
        BY <1>2, <2>1, <3>1
      <3>2. CASE j # n
        <4>1. i \in DOMAIN log /\ j \in DOMAIN log
          BY <1>1, <1>3, <1>4, <2>2, <3>2 DEF n
        <4> QED BY <1>1, <1>2, <2>2, <4>1 DEF LogOrdered
      <3> QED BY <3>1, <3>2
    <2> QED BY <1>2, <1>5, <2>1, <2>2 DEF LogOrdered
  <1>7. \A e : /\ e # x.ephem => Of(e)' = Of(e)
               /\ e = x.ephem => Of(e)' = Of(e) \cup {n}
    BY <1>1, <1>2, <1>3, <1>4 DEF Of
  <1> QED BY <1>1, <1>2, <1>3, <1>6, <1>7 DEF n

LEMMA SameTimes ==
  ASSUME NEW w, NEW P, NEW T, NEW t, Tracks(w, P, T, t), NEW U, \A i \in P : U[i] = T[i]
  PROVE  Tracks(w, P, U, t)
  <1>1. PICK f \in Injection(1..Len(w), P) :
            /\ \A k \in 1..Len(w) : T[f[k]] = w[k]
            /\ \A i \in P : (\A k \in 1..Len(w) : f[k] # i) => t - T[i] > WINDOW_SECONDS
    BY DEF Tracks
  <1>2. \A k \in 1..Len(w) : f[k] \in P
    BY DEF Injection
  <1>3. \A k \in 1..Len(w) : U[f[k]] = w[k]
    BY <1>1, <1>2
  <1> QED BY <1>1, <1>3 DEF Tracks

\* What an entry x about e does to the messages and the violations of e.
LEMMA SenderGrows ==
  ASSUME LogOrdered, NEW x \in LogEntry, log' = Append(log, x), x.at = now, now' = now,
         NEW e, e = x.ephem
  PROVE  /\ Passes(e)' = IF x.verdict = "pass" THEN Passes(e) \cup {Len(log) + 1} ELSE Passes(e)
         /\ \A i \in Passes(e) : Times(e)'[i] = Times(e)[i]
         /\ Times(e)'[Len(log) + 1] = now
         /\ x.verdict \in {"pass", "ban"} => Policy!Streak(e)' = {}
         /\ x.verdict = "banned" => Policy!Streak(e)' = Policy!Streak(e)
         /\ x.verdict = "exceeded" =>
               Cardinality(Policy!Streak(e)') = Cardinality(Policy!Streak(e)) + 1
  <1> DEFINE n == Len(log) + 1
  <1>1. /\ Of(e)' = Of(e) \cup {n} /\ n \notin Of(e) /\ Of(e) \subseteq DOMAIN log
        /\ log'[n] = x /\ \A i \in Of(e) : log'[i] = log[i] /\ i < n
    BY LogGrows, LogFacts
  <1>2. n \in Nat /\ \A i \in Of(e) : i \in Nat
    BY LogFacts
  <1> HIDE DEF n
  <1>3. Policy!Of(e) = Of(e) /\ Policy!Of(e)' = Of(e)'
    BY DEF Policy!Of, Of
  <1>4. Passes(e)' = IF x.verdict = "pass" THEN Passes(e) \cup {n} ELSE Passes(e)
    BY <1>1 DEF Passes
  <1>5. /\ \A i \in Passes(e) : Times(e)'[i] = Times(e)[i]
        /\ Times(e)'[n] = now
    BY <1>1 DEF Passes, Times
  <1>6. x.verdict \in {"pass", "ban"} => Policy!Streak(e)' = {}
    <2>1. SUFFICES ASSUME x.verdict \in {"pass", "ban"}, NEW i \in Policy!Streak(e)'
                   PROVE  FALSE
      OBVIOUS
    <2>2. /\ i \in Of(e) \cup {n} /\ log'[i].verdict = "exceeded"
          /\ n > i => log'[n].verdict \notin {"pass", "ban"}
      BY <1>1, <1>3, Zenon DEF Policy!Streak
    <2>3. i # n
      BY <1>1, <2>1, <2>2
    <2>4. n > i
      BY <1>1, <1>2, <2>2, <2>3
    <2> QED BY <1>1, <2>1, <2>2, <2>4, Zenon
  <1>9. /\ Policy!Streak(e)' \subseteq Of(e) \cup {n} /\ Policy!Streak(e) \subseteq Of(e)
        /\ n \in Policy!Streak(e)' <=> x.verdict = "exceeded"
    <2>1. \A j \in Of(e)' : ~ (j > n)
      BY <1>1, <1>2
    <2> QED BY <1>1, <1>3, <2>1 DEF Policy!Streak
  <1>10. ASSUME x.verdict \notin {"pass", "ban"}, NEW i \in Of(e)
         PROVE  i \in Policy!Streak(e)' <=> i \in Policy!Streak(e)
    <2> DEFINE Breaks(y) == y \in {"pass", "ban"}
    <2>1. i \in Policy!Streak(e) <=>
            log[i].verdict = "exceeded" /\ \A j \in Of(e) : j > i => ~ Breaks(log[j].verdict)
      BY <1>3 DEF Policy!Streak
    <2>4. i \in Of(e)'
      BY <1>1, <1>10, Zenon
    <2>2. i \in Policy!Streak(e)' <=>
            log'[i].verdict = "exceeded" /\ \A j \in Of(e)' : j > i => ~ Breaks(log'[j].verdict)
      BY <1>3, <2>4 DEF Policy!Streak
    <2>3. ~ Breaks(log'[n].verdict)
      BY <1>1, <1>10
    <2> HIDE DEF Breaks
    <2> QED BY <1>1, <2>1, <2>2, <2>3
  <1>7. x.verdict = "banned" => Policy!Streak(e)' = Policy!Streak(e)
    BY <1>9, <1>10
  <1>8. x.verdict = "exceeded" =>
           Cardinality(Policy!Streak(e)') = Cardinality(Policy!Streak(e)) + 1
    <2>1. SUFFICES ASSUME x.verdict = "exceeded"
                   PROVE  Cardinality(Policy!Streak(e)') = Cardinality(Policy!Streak(e)) + 1
      OBVIOUS
    <2>2. Policy!Streak(e)' = Policy!Streak(e) \cup {n}
      BY <1>9, <1>10, <2>1
    <2>3. Policy!Streak(e) \in SUBSET Of(e)
      BY <1>3 DEF Policy!Streak
    <2>4. n \notin Policy!Streak(e) /\ IsFiniteSet(Policy!Streak(e))
      BY <1>1, <2>3, LogFacts, FS_Subset
    <2> QED BY ONLY <2>2, <2>4, FS_AddElement
  <1> QED BY <1>4, <1>5, <1>6, <1>7, <1>8 DEF n

\* The sender that was checked is still what the log says.
LEMMA CheckedRepresents ==
  ASSUME LogOrdered, NEW e \in EphemId, NEW s, SenderOK(s), Represents(e, s),
         NEW verdict \in Verdict, NEW r, SenderOK(r), Checked(s, now, verdict, r),
         log' = Append(log, [ephem |-> e, at |-> now, verdict |-> verdict]), now' = now
  PROVE  Represents(e, r)'
  <1> DEFINE x == [ephem |-> e, at |-> now, verdict |-> verdict]
             n == Len(log) + 1
             v == Slide(s.window, now)
  <1>1. /\ now \in Int /\ s.window \in Seq(Int) /\ s.banned_until \in Int
        /\ s.violations \in Nat /\ \A i \in Of(e) : log[i].at \in Int
    BY LogFacts DEF SenderOK, SenderState
  <1>2. x \in LogEntry /\ x.ephem = e /\ x.at = now /\ x.verdict = verdict
    BY <1>1 DEF LogEntry
  <1>3. log' = Append(log, x)
    OBVIOUS
  <1> HIDE DEF x
  <1>4. /\ Of(e)' = Of(e) \cup {n} /\ n \notin Of(e)
        /\ log'[n] = x /\ \A i \in Of(e) : log'[i] = log[i]
    BY <1>2, <1>3, LogGrows, LogFacts
  <1>5. /\ Passes(e)' = IF verdict = "pass" THEN Passes(e) \cup {n} ELSE Passes(e)
        /\ \A i \in Passes(e) : Times(e)'[i] = Times(e)[i]
        /\ Times(e)'[n] = now
        /\ verdict \in {"pass", "ban"} => Policy!Streak(e)' = {}
        /\ verdict = "banned" => Policy!Streak(e)' = Policy!Streak(e)
        /\ verdict = "exceeded" =>
              Cardinality(Policy!Streak(e)') = Cardinality(Policy!Streak(e)) + 1
    BY <1>2, <1>3, SenderGrows
  <1> HIDE DEF n
  <1>6. \A i \in Passes(e) : i \in Of(e) /\ Times(e)[i] = log[i].at
    BY DEF Passes, Times
  <1>7. /\ Tracks(s.window, Passes(e), Times(e), now)
        /\ v \in Seq(Int) /\ Tracks(v, Passes(e), Times(e), now)
    <2>1. Tracks(s.window, Passes(e), Times(e), now)
      BY DEF Represents
    <2> QED BY <1>1, <1>6, <2>1, SlideCounts
  <1>8. Tracks(r.window, Passes(e)', Times(e)', now)
    <2>1. CASE verdict = "pass"
      <3>1. r.window = Append(v, now)
        BY <2>1 DEF Checked
      <3>2. n \notin Passes(e)
        BY <1>4, <1>6
      <3>3. Tracks(Append(v, now), Passes(e) \cup {n}, Times(e)', now)
        <4> HIDE DEF v
        <4> QED BY <1>1, <1>5, <1>7, <3>2, AppendTracks
      <3> QED BY <1>5, <2>1, <3>1, <3>3
    <2>2. CASE verdict # "pass"
      <3>1. r.window = s.window \/ r.window = v
        BY <2>2 DEF Checked
      <3>2. Tracks(r.window, Passes(e), Times(e)', now)
        BY <1>5, <1>7, <3>1, SameTimes
      <3> QED BY <1>5, <2>2, <3>2
    <2> QED BY <2>1, <2>2
  <1>9. \A i \in Of(e)' : log'[i].verdict = "ban" =>
            \/ log'[i].at + BAN_SECONDS <= r.banned_until
            \/ log'[i].at + BAN_SECONDS <= now
    <2>1. ASSUME NEW i \in Of(e), log[i].verdict = "ban"
          PROVE  log[i].at + BAN_SECONDS <= r.banned_until \/ log[i].at + BAN_SECONDS <= now
      <3>1. \/ log[i].at + BAN_SECONDS <= s.banned_until
            \/ log[i].at + BAN_SECONDS <= now
        BY <2>1 DEF Represents
      <3>2. r.banned_until = s.banned_until \/ s.banned_until <= now
        BY <1>1 DEF Checked
      <3>3. log[i].at + BAN_SECONDS \in Int
        BY <1>1, RateDurations
      <3> QED BY <1>1, <3>1, <3>2, <3>3
    <2>2. verdict = "ban" => now + BAN_SECONDS <= r.banned_until
      BY <1>1, RateDurations DEF Checked
    <2>3. ASSUME NEW i \in Of(e)', log'[i].verdict = "ban"
          PROVE  log'[i].at + BAN_SECONDS <= r.banned_until \/ log'[i].at + BAN_SECONDS <= now
      <3>1. CASE i \in Of(e)
        BY <1>4, <2>1, <2>3, <3>1, Zenon
      <3>2. CASE i = n
        BY <1>2, <1>4, <2>2, <2>3, <3>2
      <3> QED BY <1>4, <3>1, <3>2, Zenon
    <2> QED BY <2>3, Zenon
  <1>10. now < r.banned_until =>
            \E i \in Of(e)' : log'[i].verdict = "ban" /\ log'[i].at + BAN_SECONDS = r.banned_until
    <2>1. CASE r.banned_until = s.banned_until
      BY <1>4, <2>1 DEF Represents
    <2>2. CASE verdict = "ban" /\ r.banned_until = now + BAN_SECONDS
      BY <1>2, <1>4, <2>2
    <2> QED BY <2>1, <2>2 DEF Checked
  <1>11. \/ r.violations = Cardinality(Policy!Streak(e)')
         \/ \A i \in Passes(e)' : now - log'[i].at > WINDOW_SECONDS
    <2>1. CASE verdict \in {"pass", "ban"}
      <3>1. r.violations = 0
        BY <2>1 DEF Checked
      <3> QED BY <1>5, <2>1, <3>1, FS_EmptySet
    <2>2. CASE verdict = "banned"
      <3>1. r.violations = s.violations
        BY <2>2 DEF Checked
      <3> QED BY <1>4, <1>5, <1>6, <2>2, <3>1 DEF Represents
    <2>3. CASE verdict = "exceeded"
      <3>1. r.violations = s.violations + 1
        BY <2>3 DEF Checked
      <3>2. s.violations = Cardinality(Policy!Streak(e))
        BY <2>3, VerdictDecides
      <3> QED BY <1>5, <2>3, <3>1, <3>2
    <2> QED BY <2>1, <2>2, <2>3 DEF Verdict
  <1> QED BY <1>8, <1>9, <1>10, <1>11 DEF Represents

\* A check is nothing to the other senders.
LEMMA OthersRepresent ==
  ASSUME LogOrdered, NEW x \in LogEntry, log' = Append(log, x), x.at = now, now' = now,
         NEW e, e # x.ephem, NEW s, Represents(e, s)
  PROVE  Represents(e, s)'
  <1>1. Of(e)' = Of(e) /\ Of(e) \subseteq DOMAIN log /\ \A i \in Of(e) : log'[i] = log[i]
    BY LogGrows, LogFacts
  <1>2. Policy!Of(e) = Of(e) /\ Policy!Of(e)' = Of(e)'
    BY DEF Policy!Of, Of
  <1>3. Passes(e)' = Passes(e)
    BY <1>1 DEF Passes
  <1>4. Times(e)' = Times(e)
    BY <1>1 DEF Times
  <1>5. Policy!Streak(e)' = Policy!Streak(e)
    BY <1>1, <1>2 DEF Policy!Streak
  <1> QED BY <1>1, <1>3, <1>4, <1>5 DEF Represents, Passes

\* Time alone changes nothing that matters.
LEMMA LaterRepresents ==
  ASSUME LogOrdered, NEW e, NEW s, SenderOK(s), Represents(e, s),
         log' = log, now' \in Int, now <= now'
  PROVE  Represents(e, s)'
  <1>1. /\ now \in Int /\ s.window \in Seq(Int) /\ s.banned_until \in Int
        /\ \A i \in Of(e) : log[i].at \in Int
    BY LogFacts DEF SenderOK, SenderState
  <1>2. Of(e)' = Of(e) /\ Passes(e)' = Passes(e) /\ Times(e)' = Times(e)
    BY DEF Of, Passes, Times
  <1>3. Policy!Streak(e)' = Policy!Streak(e)
    BY DEF Policy!Streak, Policy!Of
  <1>4. \A i \in Passes(e) : i \in Of(e) /\ Times(e)[i] = log[i].at
    BY DEF Passes, Times
  <1>5. Tracks(s.window, Passes(e), Times(e), now')
    <2>1. Tracks(s.window, Passes(e), Times(e), now)
      BY DEF Represents
    <2> QED BY <1>1, <1>4, <2>1, LaterTracks
  <1>6. \A i \in Of(e) : log[i].at + BAN_SECONDS <= now => log[i].at + BAN_SECONDS <= now'
    BY <1>1, RateDurations
  <1>7. (\A i \in Passes(e) : now - log[i].at > WINDOW_SECONDS) =>
           \A i \in Passes(e) : now' - log[i].at > WINDOW_SECONDS
    BY <1>1, <1>4, RateDurations
  <1> QED BY <1>1, <1>2, <1>3, <1>5, <1>6, <1>7 DEF Represents

\* Whoever has been idle for long can start afresh.
LEMMA IdleRepresented ==
  ASSUME LogOrdered, NEW e, \A i \in Of(e) : now - log[i].at > IDLE_EXPIRY_SECONDS
  PROVE  Represents(e, FreshSender)
  <1>1. now \in Nat /\ \A i \in Of(e) : log[i].at \in Int
    BY LogFacts
  <1>2. \A i \in Of(e) : now - log[i].at > WINDOW_SECONDS /\ log[i].at + BAN_SECONDS <= now
    BY <1>1, RateDurations
  <1>3. \A i \in Passes(e) : i \in Of(e) /\ Times(e)[i] = log[i].at
    BY DEF Passes, Times
  <1>4. Tracks(<<>>, Passes(e), Times(e), now)
    BY <1>1, <1>2, <1>3, EmptyTracks
  <1> QED BY <1>1, <1>2, <1>3, <1>4 DEF Represents, FreshSender

\* What the prune forgets is as good as forgotten, and whoever it keeps has not
\* been idle for long: a ban is over by the time its sender is idle.
LEMMA PruneKeeps ==
  ASSUME LogOrdered, NEW d, Dictionary(d)
  PROVE  /\ Dictionary(Prune(d, now))
         /\ DOMAIN Prune(d, now) \subseteq DOMAIN d
         /\ \A e \in DOMAIN Prune(d, now) : /\ Prune(d, now)[e] = d[e]
                                            /\ now - d[e].last_seen <= IDLE_EXPIRY_SECONDS
  <1> DEFINE c == Prune(d, now)
  <1>1. now \in Nat /\ \A e : \A i \in Of(e) : log[i].at \in Int
    BY LogFacts
  <1>2. \A e \in DOMAIN d : /\ d[e].last_seen \in Int /\ d[e].banned_until \in Int
                            /\ d[e] \in SenderState
    BY DEF Dictionary, SenderOK, SenderState
  <1>3. /\ DOMAIN c \subseteq DOMAIN d /\ \A e \in DOMAIN c : c[e] = d[e]
        /\ c \in [DOMAIN c -> SenderState]
        /\ \A e \in DOMAIN d : e \in DOMAIN c <=> \/ now - d[e].last_seen <= IDLE_EXPIRY_SECONDS
                                                  \/ now < d[e].banned_until
    BY <1>2 DEF Prune
  <1> HIDE DEF c
  <1>4. ASSUME NEW e \in DOMAIN c PROVE now - d[e].last_seen <= IDLE_EXPIRY_SECONDS
    <2>1. SUFFICES ASSUME now < d[e].banned_until
                   PROVE  now - d[e].last_seen <= IDLE_EXPIRY_SECONDS
      BY <1>3
    <2>2. e \in EphemId /\ Sender(d, e) = d[e]
      BY <1>3 DEF Dictionary, Sender
    <2>3. PICK i \in Of(e) : log[i].at + BAN_SECONDS = d[e].banned_until
      BY <2>1, <2>2 DEF Dictionary, Represents
    <2>4. log[i].at <= d[e].last_seen
      BY <1>3, <2>2 DEF Dictionary, LastSeen
    <2> QED BY <1>1, <1>2, <1>3, <2>1, <2>3, <2>4, RateDurations
  <1>5. ASSUME NEW e \in EphemId PROVE Represents(e, Sender(c, e)) /\ LastSeen(c, e)
    <2>1. CASE e \in DOMAIN c \/ e \notin DOMAIN d
      BY <1>3, <2>1 DEF Dictionary, Sender, LastSeen
    <2>2. CASE e \notin DOMAIN c /\ e \in DOMAIN d
      <3>1. now - d[e].last_seen > IDLE_EXPIRY_SECONDS
        BY <1>1, <1>2, <1>3, <2>2, RateDurations
      <3>2. \A i \in Of(e) : log[i].at <= d[e].last_seen
        BY <2>2 DEF Dictionary, LastSeen
      <3>3. \A i \in Of(e) : now - log[i].at > IDLE_EXPIRY_SECONDS
        BY <1>1, <1>2, <2>2, <3>1, <3>2, RateDurations
      <3>4. Represents(e, FreshSender)
        BY <3>3, IdleRepresented
      <3> QED BY <2>2, <3>4 DEF Sender, LastSeen
    <2> QED BY <2>1, <2>2
  <1>6. Dictionary(c)
    BY <1>3, <1>5 DEF Dictionary
  <1> QED BY <1>3, <1>4, <1>6 DEF c

\* The effect of check() on the dictionary and on the log.
LEMMA CheckEffect ==
  ASSUME RateInv, NEW e \in EphemId, Check(e)
  PROVE  LET d == IF PruneDue(limiter.checks + 1) THEN Prune(limiter.senders, now)
                                                 ELSE limiter.senders
             r == CheckSender(Sender(d, e), now)
         IN  /\ Dictionary(d)
             /\ limiter'.senders = [u \in DOMAIN d \cup {e} |-> IF u = e THEN r.next ELSE d[u]]
             /\ limiter'.checks = limiter.checks + 1
             /\ log' = Append(log, [ephem |-> e, at |-> now, verdict |-> r.verdict])
             /\ now' = now
             /\ r.verdict \in Verdict /\ SenderOK(r.next) /\ r.next.last_seen = now
             /\ SenderOK(Sender(d, e)) /\ Checked(Sender(d, e), now, r.verdict, r.next)
  <1> DEFINE d == IF PruneDue(limiter.checks + 1) THEN Prune(limiter.senders, now)
                                                 ELSE limiter.senders
             r == CheckSender(Sender(d, e), now)
  <1>1. Dictionary(d)
    BY PruneKeeps DEF RateInv
  <1>2. RateCheck(limiter, e, now) =
           [verdict |-> r.verdict,
            next |-> [senders |-> [u \in DOMAIN d \cup {e} |-> IF u = e THEN r.next ELSE d[u]],
                      checks |-> limiter.checks + 1]]
    BY DEF RateCheck, Sender
  <1>3. now \in Int
    BY LogFacts DEF RateInv
  <1>4. SenderOK(Sender(d, e))
    <2> HIDE DEF d
    <2> QED BY <1>1, FreshOK DEF Dictionary, Sender
  <1> HIDE DEF d
  <1>5. /\ r.verdict \in Verdict /\ SenderOK(r.next) /\ r.next.last_seen = now
        /\ Checked(Sender(d, e), now, r.verdict, r.next)
    BY <1>3, <1>4, CheckSenderEffect
  <1> HIDE DEF r
  <1>6. /\ limiter' = [senders |-> [u \in DOMAIN d \cup {e} |-> IF u = e THEN r.next ELSE d[u]],
                       checks |-> limiter.checks + 1]
        /\ log' = Append(log, [ephem |-> e, at |-> now, verdict |-> r.verdict]) /\ now' = now
    BY <1>2 DEF Check
  <1> QED BY <1>1, <1>4, <1>5, <1>6 DEF d, r

LEMMA CheckPreserves ==
  ASSUME RateInv, NEW e \in EphemId, Check(e)
  PROVE  RateInv' /\ Policy!Check(e)
  <1>1. PICK d, c, s, r, verdict :
           /\ Dictionary(d) /\ s = Sender(d, e)
           /\ c = limiter'.senders
           /\ c = [u \in DOMAIN d \cup {e} |-> IF u = e THEN r ELSE d[u]]
           /\ limiter'.checks = limiter.checks + 1
           /\ log' = Append(log, [ephem |-> e, at |-> now, verdict |-> verdict]) /\ now' = now
           /\ SenderOK(r) /\ r.last_seen = now /\ verdict \in Verdict
           /\ SenderOK(s) /\ Checked(s, now, verdict, r)
    <2> DEFINE d == IF PruneDue(limiter.checks + 1) THEN Prune(limiter.senders, now)
                                                   ELSE limiter.senders
               r == CheckSender(Sender(d, e), now)
    <2>1. /\ Dictionary(d)
          /\ limiter'.senders = [u \in DOMAIN d \cup {e} |-> IF u = e THEN r.next ELSE d[u]]
          /\ limiter'.checks = limiter.checks + 1
          /\ log' = Append(log, [ephem |-> e, at |-> now, verdict |-> r.verdict]) /\ now' = now
          /\ SenderOK(r.next) /\ r.next.last_seen = now /\ r.verdict \in Verdict
          /\ SenderOK(Sender(d, e)) /\ Checked(Sender(d, e), now, r.verdict, r.next)
      BY CheckEffect
    <2> HIDE DEF d, r
    <2> QED BY <2>1
  <1>2. LogOrdered /\ now \in Int /\ limiter.checks = Len(log)
    BY LogFacts DEF RateInv
  <1>3. PICK x \in LogEntry : x = [ephem |-> e, at |-> now, verdict |-> verdict]
    BY <1>1, <1>2 DEF LogEntry
  <1>4. log' = Append(log, x) /\ x.ephem = e /\ x.at = now /\ x.verdict = verdict
    BY <1>1, <1>3
  <1>5. /\ LogOrdered' /\ Len(log') = Len(log) + 1
        /\ Of(e)' = Of(e) \cup {Len(log) + 1} /\ \A u : u # e => Of(u)' = Of(u)
        /\ \A u : Of(u) \subseteq DOMAIN log /\ \A i \in Of(u) : log'[i] = log[i]
        /\ log'[Len(log) + 1] = x
    BY <1>1, <1>2, <1>4, LogGrows, LogFacts
  <1>6. Represents(e, s)
    BY <1>1 DEF Dictionary
  <1>7. Policy!Check(e)
    <2>1. verdict = Policy!Decide(e)
      BY <1>1, <1>2, <1>6, VerdictDecides
    <2> QED BY <1>1, <2>1 DEF Policy!Check
  <1>8. Represents(e, r)'
    BY <1>1, <1>2, <1>6, CheckedRepresents
  <1>9. ASSUME NEW u \in EphemId PROVE Represents(u, Sender(c, u))' /\ LastSeen(c, u)'
    <2>1. CASE u = e
      <3>1. Sender(c, u) = r /\ c[u] = r /\ u \in DOMAIN c
        BY <1>1, <2>1 DEF Sender
      <3>2. Represents(u, Sender(c, u))'
        BY <1>8, <2>1, <3>1
      <3>3. \A i \in Of(u)' : log'[i].at <= now
        BY <1>1, <1>5 DEF LogOrdered, Of
      <3>4. LastSeen(c, u)'
        BY <1>1, <1>2, <1>5, <2>1, <3>1, <3>3 DEF LastSeen
      <3> QED BY <3>2, <3>4
    <2>2. CASE u # e
      <3>1. /\ Sender(c, u) = Sender(d, u) /\ (u \in DOMAIN c <=> u \in DOMAIN d)
            /\ u \in DOMAIN d => c[u] = d[u]
        BY <1>1, <2>2 DEF Sender
      <3>2. Represents(u, Sender(d, u)) /\ LastSeen(d, u)
        BY <1>1 DEF Dictionary
      <3>3. Represents(u, Sender(d, u))'
        BY <1>1, <1>2, <1>4, <2>2, <3>2, OthersRepresent
      <3>4. LastSeen(c, u)'
        BY <1>1, <1>5, <2>2, <3>1, <3>2 DEF LastSeen
      <3> QED BY <3>1, <3>3, <3>4
    <2> QED BY <2>1, <2>2
  <1>10. /\ DOMAIN c \subseteq EphemId /\ c \in [DOMAIN c -> SenderState]
         /\ \A u \in DOMAIN c : SenderOK(c[u])
    BY <1>1 DEF Dictionary, SenderOK
  <1>11. Dictionary(c)'
    BY <1>9, <1>10 DEF Dictionary
  <1>12. RateInv'
    BY <1>1, <1>2, <1>5, <1>11 DEF RateInv
  <1> QED BY <1>7, <1>12

LEMMA InitInv == Init => RateInv /\ Policy!Init
  <1> SUFFICES ASSUME Init PROVE RateInv /\ Policy!Init
    OBVIOUS
  <1>1. now = 0 /\ log = <<>> /\ limiter.checks = 0 /\ DOMAIN limiter.senders = {}
        /\ limiter.senders \in [{} -> SenderState]
    BY DEF Init, NewLimiter
  <1>2. LogOrdered
    BY <1>1 DEF LogOrdered
  <1>3. \A e : Of(e) = {}
    BY <1>1 DEF Of
  <1>4. ASSUME NEW e \in EphemId
        PROVE  Represents(e, Sender(limiter.senders, e)) /\ LastSeen(limiter.senders, e)
    BY <1>1, <1>2, <1>3, IdleRepresented DEF Sender, LastSeen
  <1> QED BY <1>1, <1>2, <1>4 DEF RateInv, Dictionary, Policy!Init

\* Time may pass or stand still.
LEMMA IdlePreserves ==
  ASSUME RateInv, limiter' = limiter, log' = log, now' \in Nat, now <= now'
  PROVE  RateInv'
  <1>1. now \in Nat /\ LogOrdered /\ \A i \in DOMAIN log : log[i].at \in Int
    BY LogFacts DEF RateInv
  <1>2. LogOrdered'
    BY <1>1 DEF LogOrdered
  <1>3. PICK d : d = limiter.senders
    OBVIOUS
  <1>4. Dictionary(d)
    BY <1>3 DEF RateInv
  <1>5. ASSUME NEW e \in EphemId PROVE Represents(e, Sender(d, e))' /\ LastSeen(d, e)'
    <2>1. PICK s : s = Sender(d, e)
      OBVIOUS
    <2>2. SenderOK(s) /\ LastSeen(d, e) /\ Represents(e, s)
      BY <1>4, <2>1, FreshOK DEF Dictionary, Sender
    <2>3. Represents(e, s)'
      BY <1>1, <2>2, LaterRepresents
    <2>4. e \in DOMAIN d => d[e].last_seen \in Int
      BY <1>4 DEF Dictionary, SenderOK, SenderState
    <2>5. LastSeen(d, e)'
      BY <1>1, <2>2, <2>4 DEF LastSeen, Of
    <2> QED BY <2>1, <2>3, <2>5
  <1>6. Dictionary(d)'
    BY <1>4, <1>5 DEF Dictionary
  <1> QED BY <1>2, <1>3, <1>6 DEF RateInv

LEMMA StepPreserves ==
  ASSUME RateInv, [Next]_vars
  PROVE  RateInv' /\ [Policy!Next]_<<log, now>>
  <1>1. ASSUME NEW e \in EphemId, Check(e) PROVE RateInv' /\ Policy!Next
    BY <1>1, CheckPreserves DEF Policy!Next
  <1>2. now \in Nat
    BY LogFacts DEF RateInv
  <1>3. CASE Tick
    <2>1. limiter' = limiter /\ now' = now + 1 /\ log' = log
      BY <1>3 DEF Tick
    <2>2. RateInv'
      BY <1>2, <2>1, IdlePreserves
    <2> QED BY <2>1, <2>2 DEF Policy!Next, Policy!Tick
  <1>4. CASE UNCHANGED vars
    <2>1. limiter' = limiter /\ now' = now /\ log' = log
      BY <1>4 DEF vars
    <2>2. RateInv'
      BY <1>2, <2>1, IdlePreserves
    <2> QED BY <2>1, <2>2
  <1> QED BY <1>1, <1>3, <1>4 DEF Next
-----------------------------------------------------------------------------
(* What follows from the log alone.                                        *)

\* An entry x about e that the policy decided.
Decided(e, x) ==
    /\ x \in LogEntry /\ x.ephem = e /\ x.at = now /\ x.verdict = Policy!Decide(e)
    /\ log' = Append(log, x) /\ now' = now

LEMMA CheckDecided ==
  ASSUME RateInv, NEW e \in EphemId, Check(e)
  PROVE  \E x : Decided(e, x)
  <1>1. Policy!Check(e)
    BY CheckPreserves
  <1>2. now \in Nat
    BY LogFacts DEF RateInv
  <1>3. Policy!Decide(e) \in Verdict
    BY DEF Policy!Decide, Verdict
  <1> WITNESS [ephem |-> e, at |-> now, verdict |-> Policy!Decide(e)]
  <1> QED BY <1>1, <1>2, <1>3 DEF Decided, LogEntry, Policy!Check

\* The entry x becomes the last one of e; all others stay.
LEMMA DecidedGrows ==
  ASSUME RateInv, NEW e, NEW x, Decided(e, x)
  PROVE  LET n == Len(log) + 1
         IN  /\ n \in Nat /\ log'[n] = x /\ Of(e)' = Of(e) \cup {n}
             /\ \A u : u # e => Of(u)' = Of(u)
             /\ \A u : \A i \in Of(u) : /\ i \in DOMAIN log /\ i \in Nat /\ i < n
                                        /\ log'[i] = log[i]
                                        /\ log[i].at \in Int /\ log[i].at <= now
             /\ \A i, j \in DOMAIN log : i <= j => log[i].at <= log[j].at
  <1>1. LogOrdered /\ x \in LogEntry /\ x.ephem = e /\ x.at = now /\ log' = Append(log, x) /\ now' = now
    BY DEF RateInv, Decided
  <1>2. \A i, j \in DOMAIN log : log[i].at <= now /\ (i <= j => log[i].at <= log[j].at)
    BY <1>1 DEF LogOrdered
  <1>3. /\ Len(log) + 1 \in Nat /\ log'[Len(log) + 1] = x
        /\ Of(e)' = Of(e) \cup {Len(log) + 1}
        /\ \A u : u # e => Of(u)' = Of(u)
    <2>1. Len(log) + 1 \in Nat
      BY <1>1, LogFacts
    <2>2. /\ log'[Len(log) + 1] = x
          /\ \A u : /\ u # x.ephem => Of(u)' = Of(u)
                    /\ u = x.ephem => Of(u)' = Of(u) \cup {Len(log) + 1}
      BY <1>1, LogGrows
    <2> QED BY <1>1, <2>1, <2>2, Zenon
  <1>4. ASSUME NEW u, NEW i \in Of(u)
        PROVE  /\ i \in DOMAIN log /\ i \in Nat /\ i < Len(log) + 1
               /\ log'[i] = log[i] /\ log[i].at \in Int
    <2>1. i \in DOMAIN log /\ i \in 1..Len(log) /\ Len(log) \in Nat /\ log[i].at \in Int
      BY <1>1, LogFacts
    <2>2. log'[i] = log[i] /\ i < Len(log) + 1
      BY <1>1, <2>1, LogGrows
    <2> QED BY <2>1, <2>2
  <1> QED BY <1>2, <1>3, <1>4
LEMMA RecentBounded ==
  ASSUME RateInv, NEW e \in EphemId
  PROVE  /\ IsFiniteSet(Policy!Recent(e))
         /\ Cardinality(Policy!Recent(e)) <= MAX_MESSAGES_PER_WINDOW
  <1>1. PICK s : s = Sender(limiter.senders, e)
    OBVIOUS
  <1>2. Represents(e, s) /\ SenderOK(s) /\ LogOrdered
    BY <1>1, FreshOK DEF RateInv, Dictionary, Sender
  <1>3. /\ now \in Int /\ s.window \in Seq(Int) /\ Len(s.window) <= MAX_MESSAGES_PER_WINDOW
        /\ \A i \in Of(e) : log[i].at \in Int
    BY <1>2, LogFacts DEF SenderOK, SenderState
  <1>4. \A i \in Passes(e) : Times(e)[i] \in Int /\ Times(e)[i] = log[i].at
    BY <1>3 DEF Passes, Times
  <1>5. Policy!Recent(e) = {i \in Passes(e) : now - Times(e)[i] <= WINDOW_SECONDS}
    BY <1>4 DEF Policy!Recent, Policy!Of, Of, Passes, Times
  <1>6. /\ Cardinality(Policy!Recent(e)) = Len(Slide(s.window, now))
        /\ Len(Slide(s.window, now)) <= Len(s.window)
        /\ Slide(s.window, now) \in Seq(Int)
    <2>1. Tracks(s.window, Passes(e), Times(e), now)
      BY <1>2 DEF Represents
    <2> QED BY <1>3, <1>4, <1>5, <2>1, SlideCounts
  <1>7. Policy!Recent(e) \in SUBSET Of(e)
    BY DEF Policy!Recent, Policy!Of, Of
  <1>8. IsFiniteSet(Policy!Recent(e))
    BY <1>2, <1>7, LogFacts, FS_Subset
  <1>9. Len(Slide(s.window, now)) \in Nat /\ Len(s.window) \in Nat
    BY <1>3, <1>6
  <1> QED BY <1>3, <1>6, <1>8, <1>9, RatePositive

\* The accepted messages of e that a window ending with entry i holds.
Held(e, i) == {j \in Of(e) : /\ j <= i
                             /\ log[j].verdict = "pass"
                             /\ log[i].at - log[j].at <= WINDOW_SECONDS}

LEMMA BoundedStep ==
  ASSUME RateInv, NEW e \in EphemId, NEW x, Decided(e, x), RateBounded
  PROVE  RateBounded'
  <1>1. PICK n \in Nat :
           /\ log'[n] = x /\ Of(e)' = Of(e) \cup {n} /\ \A u : u # e => Of(u)' = Of(u)
           /\ \A u : \A i \in Of(u) : /\ i \in Nat /\ i < n /\ log'[i] = log[i]
                                      /\ log[i].at \in Int /\ log[i].at <= now
    BY DecidedGrows
  <1>2. now \in Int /\ x.at = now /\ x.verdict = Policy!Decide(e)
    BY LogFacts DEF RateInv, Decided
  <1>3. ASSUME NEW u, NEW i \in Of(u) PROVE Held(u, i)' = Held(u, i)
    <2>1. \A j \in Of(u)' : j <= i => j \in Of(u)
      BY <1>1
    <2>2. Of(u) \subseteq Of(u)' /\ log'[i] = log[i] /\ \A j \in Of(u) : log'[j] = log[j]
      BY <1>1
    <2> QED BY <2>1, <2>2 DEF Held
  <1>4. Held(e, n)' = Policy!Recent(e) \cup (IF x.verdict = "pass" THEN {n} ELSE {})
    <2>1. Policy!Recent(e) = {j \in Of(e) : log[j].verdict = "pass" /\ now - log[j].at <= WINDOW_SECONDS}
      BY DEF Policy!Recent, Policy!Of, Of
    <2>2. \A j \in Of(e) : j <= n /\ log'[j] = log[j]
      BY <1>1
    <2>3. log'[n].at - log'[n].at <= WINDOW_SECONDS /\ n <= n /\ n \notin Of(e)
      BY <1>1, <1>2, RateDurations
    <2> QED BY <1>1, <1>2, <2>1, <2>2, <2>3 DEF Held
  <1>5. Cardinality(Held(e, n)') <= MAX_MESSAGES_PER_WINDOW
    <2>1. CASE x.verdict # "pass"
      <3>1. Held(e, n)' = Policy!Recent(e)
        BY <1>4, <2>1
      <3> QED BY <3>1, RecentBounded
    <2>2. CASE x.verdict = "pass"
      <3>1. Cardinality(Policy!Recent(e)) < MAX_MESSAGES_PER_WINDOW
        BY <1>2, <2>2, PolicyCounts DEF Policy!Decide
      <3>2. n \notin Policy!Recent(e) /\ Held(e, n)' = Policy!Recent(e) \cup {n}
        BY <1>1, <1>4, <2>2 DEF Policy!Recent, Policy!Of, Of
      <3>3. Cardinality(Policy!Recent(e)) \in Nat /\ IsFiniteSet(Policy!Recent(e))
        BY RecentBounded, FS_CardinalityType
      <3>4. Cardinality(Held(e, n)') = Cardinality(Policy!Recent(e)) + 1
        BY <3>2, <3>3, FS_AddElement
      <3> QED BY <3>1, <3>3, <3>4, RatePositive
    <2> QED BY <2>1, <2>2
  <1>6. \A u \in EphemId : \A i \in Of(u) : Cardinality(Held(u, i)) <= MAX_MESSAGES_PER_WINDOW
    BY DEF RateBounded, Held
  <1>7. \A u \in EphemId : \A i \in Of(u)' : Cardinality(Held(u, i)') <= MAX_MESSAGES_PER_WINDOW
    BY <1>1, <1>3, <1>5, <1>6
  <1> QED BY <1>7 DEF RateBounded, Held

LEMMA HonouredStep ==
  ASSUME RateInv, NEW e \in EphemId, NEW x, Decided(e, x), BanHonoured
  PROVE  BanHonoured'
  <1>1. PICK n \in Nat :
           /\ log'[n] = x /\ Of(e)' = Of(e) \cup {n} /\ \A u : u # e => Of(u)' = Of(u)
           /\ \A u : \A i \in Of(u) : i \in Nat /\ i < n /\ log'[i] = log[i]
    BY DecidedGrows
  <1>2. x.at = now /\ x.verdict = Policy!Decide(e)
    BY DEF Decided
  <1>3. ASSUME NEW u \in EphemId, NEW i \in Of(u)', NEW j \in Of(u)', i < j,
               log'[i].verdict = "ban", log'[j].at < log'[i].at + BAN_SECONDS
        PROVE  log'[j].verdict = "banned"
    <2>1. i \in Of(u)
      BY <1>1, <1>3
    <2>2. CASE j \in Of(u)
      BY <1>1, <1>3, <2>1, <2>2 DEF BanHonoured
    <2>3. CASE u = e /\ j = n
      <3>1. Policy!Banned(e)
        BY <1>1, <1>2, <1>3, <2>1, <2>3 DEF Policy!Banned, Policy!Of, Of
      <3> QED BY <1>1, <1>2, <2>3, <3>1 DEF Policy!Decide
    <2> QED BY <1>1, <2>2, <2>3
  <1> QED BY <1>3 DEF BanHonoured

LEMMA EndsStep ==
  ASSUME RateInv, NEW e \in EphemId, NEW x, Decided(e, x), BanHonoured, BanEnds
  PROVE  BanEnds'
  <1>1. PICK n \in Nat :
           /\ log'[n] = x /\ Of(e)' = Of(e) \cup {n} /\ \A u : u # e => Of(u)' = Of(u)
           /\ \A u : \A i \in Of(u) : /\ i \in DOMAIN log /\ i \in Nat /\ i < n
                                      /\ log'[i] = log[i]
                                      /\ log[i].at \in Int /\ log[i].at <= now
           /\ \A i, j \in DOMAIN log : i <= j => log[i].at <= log[j].at
    BY DecidedGrows
  <1>2. now \in Int /\ x.at = now /\ x.verdict = Policy!Decide(e)
    BY LogFacts DEF RateInv, Decided
  <1>3. ASSUME NEW i \in Of(e), log[i].verdict = "ban", now >= log[i].at + BAN_SECONDS,
               \A k \in Of(e) : i < k => log[k].at < log[i].at + BAN_SECONDS
        PROVE  Policy!Decide(e) = "pass"
    <2>1. \A k \in Of(e) : i < k => log[k].verdict = "banned"
      BY <1>3 DEF BanHonoured
    <2>2. \A k \in Of(e) : k < i => log[k].at + BAN_SECONDS <= now
      BY <1>1, <1>2, <1>3, RateDurations
    <2>3. \A k \in Of(e) : k = i \/ i < k \/ k < i
      BY <1>1
    <2>4. ~ Policy!Banned(e)
      <3>1. \A k \in Of(e) : log[k].verdict = "ban" => log[k].at + BAN_SECONDS <= now
        BY <1>3, <2>1, <2>2, <2>3
      <3>2. \A k \in Of(e) : log[k].verdict = "ban" => ~ (now < log[k].at + BAN_SECONDS)
        BY <1>1, <1>2, <3>1, RateDurations
      <3> QED BY <3>2 DEF Policy!Banned, Policy!Of, Of
    <2>5. Policy!Recent(e) = {}
      <3>1. \A k \in Of(e) : log[k].verdict = "pass" => ~ (now - log[k].at <= WINDOW_SECONDS)
        BY <1>1, <1>2, <1>3, <2>1, <2>2, <2>3, RateDurations
      <3> QED BY <3>1 DEF Policy!Recent, Policy!Of, Of
    <2>6. Cardinality(Policy!Recent(e)) < MAX_MESSAGES_PER_WINDOW
      BY <2>5, FS_EmptySet, RatePositive
    <2> QED BY <2>4, <2>6, PolicyCounts DEF Policy!Decide
  <1>4. ASSUME NEW u \in EphemId, NEW i \in Of(u)', NEW j \in Of(u)', i < j,
               log'[i].verdict = "ban", log'[j].at >= log'[i].at + BAN_SECONDS,
               \A k \in Of(u)' : i < k /\ k < j => log'[k].at < log'[i].at + BAN_SECONDS
        PROVE  log'[j].verdict = "pass"
    <2>1. i \in Of(u) /\ log'[i] = log[i]
      BY <1>1, <1>4
    <2>2. CASE j \in Of(u)
      <3>1. log'[j] = log[j]
        BY <1>1, <2>2
      <3>2. \A k \in Of(u) : i < k /\ k < j => log[k].at < log[i].at + BAN_SECONDS
        BY <1>1, <1>4, <2>1
      <3> QED BY <1>4, <2>1, <2>2, <3>1, <3>2 DEF BanEnds
    <2>3. CASE u = e /\ j = n
      <3>1. now >= log[i].at + BAN_SECONDS /\ log[i].verdict = "ban"
        BY <1>1, <1>2, <1>4, <2>1, <2>3
      <3>2. \A k \in Of(e) : i < k => log[k].at < log[i].at + BAN_SECONDS
        BY <1>1, <1>4, <2>1, <2>3
      <3> QED BY <1>1, <1>2, <1>3, <2>1, <2>3, <3>1, <3>2
    <2> QED BY <1>1, <2>2, <2>3
  <1> QED BY <1>4 DEF BanEnds
-----------------------------------------------------------------------------
(* The prune.                                                              *)

\* The number of checks at the last prune.
Pruned(n) == (n \div PRUNE_INTERVAL_CHECKS) * PRUNE_INTERVAL_CHECKS

LEMMA PrunedSteps ==
  ASSUME NEW n \in Nat
  PROVE  /\ Pruned(n) \in 0..n
         /\ PruneDue(n + 1) => Pruned(n + 1) = n + 1
         /\ ~ PruneDue(n + 1) => Pruned(n + 1) = Pruned(n)
  <1> DEFINE p == PRUNE_INTERVAL_CHECKS
             q == n \div p
             r == n % p
             a == (n + 1) \div p
             b == (n + 1) % p
  <1>1. p \in Nat \ {0}
    BY RatePositive
  <1> HIDE DEF p
  <1>2. q \in Nat /\ r \in 0..(p - 1) /\ n = p * q + r
    BY <1>1
  <1>3. a \in Nat /\ b \in 0..(p - 1) /\ n + 1 = p * a + b
    BY <1>1
  <1> HIDE DEF q, r, a, b
  <1>4. p * q = q * p /\ p * a = a * p /\ q * p \in Nat
    BY <1>1, <1>2, <1>3
  <1>5. b # 0 => a = q
    <2>1. SUFFICES ASSUME b # 0 PROVE a = q
      OBVIOUS
    <2>2. p * (a - q) = r - (b - 1) /\ r - (b - 1) < p /\ r - (b - 1) > -p
      BY <1>1, <1>2, <1>3, <2>1
    <2>3. CASE a - q >= 1
      <3>1. p * (a - q) >= p
        BY <1>1, <1>2, <1>3, <2>3
      <3> QED BY <1>1, <1>2, <1>3, <2>2, <3>1
    <2>4. CASE a - q <= -1
      <3>1. p * (a - q) <= -p
        BY <1>1, <1>2, <1>3, <2>4
      <3> QED BY <1>1, <1>2, <1>3, <2>2, <3>1
    <2> QED BY <1>2, <1>3, <2>3, <2>4
  <1>6. Pruned(n) = q * p /\ Pruned(n + 1) = a * p /\ (PruneDue(n + 1) <=> b = 0)
    BY DEF Pruned, PruneDue, q, a, b, p
  <1> QED BY <1>1, <1>2, <1>3, <1>4, <1>5, <1>6

LEMMA ForgottenStep ==
  ASSUME RateInv, NEW e \in EphemId, Check(e), IdleSendersForgotten
  PROVE  IdleSendersForgotten'
  <1>1. PICK x : Decided(e, x)
    BY CheckDecided
  <1>2. PICK n \in Nat :
           /\ n = Len(log) + 1 /\ log'[n] = x /\ Of(e)' = Of(e) \cup {n}
           /\ \A u : u # e => Of(u)' = Of(u)
           /\ \A u : \A i \in Of(u) : i \in Nat /\ i < n /\ i \in DOMAIN log
    BY <1>1, DecidedGrows
  <1>3. /\ log \in Seq(LogEntry) /\ Len(log) \in Nat /\ DOMAIN log = 1..Len(log)
        /\ now \in Nat /\ limiter.checks = Len(log) /\ x.at = now /\ x \in LogEntry
        /\ log' = Append(log, x)
    BY <1>1, LogFacts DEF RateInv, LogOrdered, Decided
  <1>4. Len(log') = n /\ \A i \in DOMAIN log : log'[i] = log[i]
    BY <1>2, <1>3
  <1> DEFINE s == limiter.senders
             d == IF PruneDue(n) THEN Prune(s, now) ELSE s
  <1>5. PICK r : /\ limiter'.senders = [u \in DOMAIN d \cup {e} |-> IF u = e THEN r ELSE d[u]]
                 /\ r.last_seen = now
    <2>1. n = limiter.checks + 1
      BY <1>2, <1>3
    <2> WITNESS CheckSender(Sender(d, e), now).next
    <2> QED BY <2>1, CheckEffect
  <1>6. /\ DOMAIN d \subseteq DOMAIN s /\ \A u \in DOMAIN d : d[u] = s[u]
        /\ PruneDue(n) => \A u \in DOMAIN d : now - s[u].last_seen <= IDLE_EXPIRY_SECONDS
    BY PruneKeeps DEF RateInv
  <1> HIDE DEF d
  <1>7. /\ Pruned(Len(log)) \in 0..Len(log) /\ Pruned(n) \in 0..n
        /\ PruneDue(n) => Pruned(n) = n
        /\ ~ PruneDue(n) => Pruned(n) = Pruned(Len(log))
    BY <1>2, <1>3, PrunedSteps
  <1>8. ASSUME NEW u \in DOMAIN limiter'.senders
        PROVE  \/ \E i \in Of(u)' : i >= Pruned(n)
               \/ log'[Pruned(n)].at - limiter'.senders[u].last_seen <= IDLE_EXPIRY_SECONDS
    <2>1. CASE u = e
      <3>1. n \in Of(u)' /\ n >= Pruned(n)
        BY <1>2, <1>7, <2>1
      <3> QED BY <3>1
    <2>2. CASE u # e
      <3>1. u \in DOMAIN d /\ u \in DOMAIN s /\ limiter'.senders[u] = s[u] /\ Of(u)' = Of(u)
        BY <1>2, <1>5, <1>6, <2>2
      <3>2. CASE PruneDue(n)
        BY <1>2, <1>3, <1>6, <1>7, <3>1, <3>2
      <3>3. CASE ~ PruneDue(n)
        <4>1. \/ \E i \in Of(u) : i >= Pruned(Len(log))
              \/ log[Pruned(Len(log))].at - s[u].last_seen <= IDLE_EXPIRY_SECONDS
          BY <3>1 DEF IdleSendersForgotten, Pruned
        <4>2. CASE \E i \in Of(u) : i >= Pruned(Len(log))
          BY <1>7, <3>1, <3>3, <4>2
        <4>3. CASE log[Pruned(Len(log))].at - s[u].last_seen <= IDLE_EXPIRY_SECONDS
          <5>1. CASE Pruned(Len(log)) = 0
            <6>1. u \in EphemId /\ Of(u) # {}
              BY <3>1 DEF RateInv, Dictionary, LastSeen
            <6> QED BY <1>2, <1>7, <3>1, <3>3, <5>1, <6>1
          <5>2. CASE Pruned(Len(log)) # 0
            <6>1. Pruned(Len(log)) \in DOMAIN log
              BY <1>3, <1>7, <5>2
            <6> QED BY <1>4, <1>7, <3>1, <3>3, <4>3, <6>1
          <5> QED BY <5>1, <5>2
        <4> QED BY <4>1, <4>2, <4>3
      <3> QED BY <3>2, <3>3
    <2> QED BY <2>1, <2>2
  <1> QED BY <1>4, <1>8 DEF IdleSendersForgotten, Pruned
-----------------------------------------------------------------------------
(* The theorems.                                                           *)

Promises == RateInv /\ RateBounded /\ BanHonoured /\ BanEnds /\ IdleSendersForgotten

LEMMA PromisesInit == Init => Promises
  <1> SUFFICES ASSUME Init PROVE Promises
    OBVIOUS
  <1>1. RateInv
    BY InitInv
  <1>2. (\A e : Of(e) = {}) /\ DOMAIN limiter.senders = {}
    BY DEF Init, NewLimiter, Of
  <1> QED BY <1>1, <1>2 DEF Promises, RateBounded, BanHonoured, BanEnds, IdleSendersForgotten

LEMMA PromisesStep == Promises /\ [Next]_vars => Promises'
  <1> SUFFICES ASSUME Promises, [Next]_vars PROVE Promises'
    OBVIOUS
  <1>1. RateInv /\ RateInv'
    BY StepPreserves DEF Promises
  <1>2. ASSUME NEW e \in EphemId, Check(e) PROVE Promises'
    <2>1. PICK x : Decided(e, x)
      BY <1>1, <1>2, CheckDecided
    <2> QED BY <1>1, <1>2, <2>1, BoundedStep, HonouredStep, EndsStep, ForgottenStep DEF Promises
  <1>3. CASE UNCHANGED <<limiter, log>>
    BY <1>1, <1>3 DEF Promises, RateBounded, BanHonoured, BanEnds, IdleSendersForgotten, Of
  <1> QED BY <1>2, <1>3 DEF Next, Tick, vars

(***************************************************************************)
(* In every reachable state the dictionary, with its windows, bans and     *)
(* violation counters, says of every sender what the log says, and the     *)
(* promises of step 5 hold.                                                *)
(***************************************************************************)
THEOREM PromisesInvariant == Spec => []Promises
  BY PromisesInit, PromisesStep, PTL DEF Spec

(***************************************************************************)
(* Type correctness of the limiter: windows and violation counts stay      *)
(* below their limits, and the log holds every check.                      *)
(***************************************************************************)
THEOREM TypeCorrect == Spec => []TypeOK
  <1>1. Promises => TypeOK
    BY DEF Promises, RateInv, LogOrdered, Dictionary, SenderOK, TypeOK
  <1> QED BY <1>1, PromisesInvariant, PTL

(***************************************************************************)
(* No window of WINDOW_SECONDS holds more accepted messages of one sender  *)
(* than the limit allows, whatever prunes and bans came between.           *)
(***************************************************************************)
THEOREM Bounded == Spec => []RateBounded
  <1>1. Promises => RateBounded
    BY DEF Promises
  <1> QED BY <1>1, PromisesInvariant, PTL

(***************************************************************************)
(* While a ban runs, nothing of its sender is accepted, and every message  *)
(* of it is refused as banned: no prune and no other check lifts the ban.  *)
(***************************************************************************)
THEOREM Honoured == Spec => []BanHonoured
  <1>1. Promises => BanHonoured
    BY DEF Promises
  <1> QED BY <1>1, PromisesInvariant, PTL

(***************************************************************************)
(* The first message of a sender after its ban is accepted: the refusals   *)
(* in between did not extend the ban and the old window is over.           *)
(***************************************************************************)
THEOREM Ends == Spec => []BanEnds
  <1>1. Promises => BanEnds
    BY DEF Promises
  <1> QED BY <1>1, PromisesInvariant, PTL

(***************************************************************************)
(* Whoever the dictionary still holds was seen since the last prune or was *)
(* not idle when it ran: a ban alone never keeps a sender.                 *)
(***************************************************************************)
THEOREM Forgotten == Spec => []IdleSendersForgotten
  <1>1. Promises => IdleSendersForgotten
    BY DEF Promises
  <1> QED BY <1>1, PromisesInvariant, PTL

(***************************************************************************)
(* RateLimiter implements the policy: each of its verdicts is the one that *)
(* follows from the complete log of the verdicts before it.                *)
(***************************************************************************)
THEOREM Refinement == Spec => ImplementsPolicy
  <1>1. Init => RateInv /\ Policy!Init
    BY InitInv
  <1>2. RateInv /\ [Next]_vars => RateInv' /\ [Policy!Next]_<<log, now>>
    BY StepPreserves
  <1>3. Spec => Policy!Spec
    BY <1>1, <1>2, PTL DEF Spec, Policy!Spec
  <1> QED BY <1>3 DEF ImplementsPolicy
=============================================================================
