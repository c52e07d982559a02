--------------------------- MODULE HeartbeatProofs ---------------------------
(***************************************************************************)
(* Proofs about Heartbeat for every number of clients, sequence space and  *)
(* lifetime, with loss, duplicates and reordering.  Inv says that every    *)
(* number on the wire is its tick modulo SeqMod, and none older than       *)
(* Lifetime, which is less than half the space: so a wrapped difference is *)
(* the real one.                                                           *)
(***************************************************************************)
EXTENDS Heartbeat, Integers, FiniteSetTheorems, TLAPS

Heards == {heard[a] : a \in Addrs} \cup {0}

\* Max is a CHOOSE: that there is a greatest element is part of the invariant.
HasLatest == \E x \in Heards : \A y \in Heards : y <= x

Counted ==
    /\ ticks \in Nat
    /\ send_seq = ticks % SeqMod
    /\ \A m \in heartbeats \cup acks : m.seq = m.n % SeqMod /\ ticks - m.n <= Lifetime

Acked ==
    /\ HasLatest
    /\ ticks - latest <= Lifetime
    /\ last_acked_seq = IF latest = 0 THEN None ELSE latest % SeqMod

Inv == TypeOK /\ Counted /\ Acked
-----------------------------------------------------------------------------
(* Arithmetic modulo SeqMod. *)

LEMMA Sizes ==
    /\ SeqMod \in Nat /\ Lifetime \in Nat /\ max_missed \in Nat
    /\ 2 * Lifetime < SeqMod /\ 0 < SeqMod /\ (SeqMod - 1) \div 2 \in Nat
    /\ Lifetime <= (SeqMod - 1) \div 2 /\ 2 * ((SeqMod - 1) \div 2) < SeqMod
    /\ None \notin Nat
  BY HeartbeatAssumption

LEMMA Remainder ==
    ASSUME NEW a \in Nat, NEW b \in Nat \ {0}
    PROVE  a \div b \in Nat /\ a % b \in 0 .. b - 1 /\ a = (a \div b) * b + (a % b)
  BY SMTT(20)

LEMMA RemainderOf ==
    ASSUME NEW b \in Nat \ {0}, NEW r \in 0 .. b - 1
    PROVE  r % b = r /\ (r + b) % b = r
<1>1. r % b = r
  BY SMTT(20)
<1>2. (r + b) % b = r
  BY SMTT(20)
<1> QED
  BY <1>1, <1>2

\* The wrapped difference of two ticks less than SeqMod apart: the difference, or
\* SeqMod less.
LEMMA Difference ==
    ASSUME NEW x \in Nat, NEW y \in Nat, x - y < SeqMod, y - x < SeqMod
    PROVE  Sub(x % SeqMod, y % SeqMod) = IF x < y THEN x - y + SeqMod ELSE x - y
<1>1. SeqMod \in Nat \ {0}
  BY Sizes
<1> DEFINE q == x \div SeqMod
           p == y \div SeqMod
           r == x % SeqMod
           t == y % SeqMod
           d == x - y
           e == IF d < 0 THEN d + SeqMod ELSE d
<1>2. q \in Nat /\ r \in 0 .. SeqMod - 1 /\ x = q * SeqMod + r
  BY <1>1, Remainder
<1>3. p \in Nat /\ t \in 0 .. SeqMod - 1 /\ y = p * SeqMod + t
  BY <1>1, Remainder
<1>4. d \in 1 - SeqMod .. SeqMod - 1 /\ x = y + d /\ e \in 0 .. SeqMod - 1
  BY <1>1
<1> HIDE DEF q, p, r, t, d
<1>5. q * SeqMod + r = p * SeqMod + t + d
  BY <1>2, <1>3, <1>4, Zenon
<1>6. r - t \in {d, d + SeqMod, d - SeqMod}
  <2> DEFINE qb == q * SeqMod
             pb == p * SeqMod
  <2>1. qb \in Nat /\ pb \in Nat
    BY <1>1, <1>2, <1>3, SMTT(20)
  <2>2. \/ qb = pb
        \/ qb = pb + SeqMod
        \/ pb = qb + SeqMod
        \/ qb >= pb + 2 * SeqMod
        \/ pb >= qb + 2 * SeqMod
    <3>1. q \in Nat /\ p \in Nat
      BY <1>2, <1>3
    <3>2. CASE q = p
      BY <3>2
    <3>3. CASE q = p + 1
      BY <1>1, <3>1, <3>3, SMTT(20)
    <3>4. CASE p = q + 1
      BY <1>1, <3>1, <3>4, SMTT(20)
    <3>5. CASE q >= p + 2
      BY <1>1, <3>1, <3>5, SMTT(20)
    <3>6. CASE p >= q + 2
      BY <1>1, <3>1, <3>6, SMTT(20)
    <3> QED
      BY <3>1, <3>2, <3>3, <3>4, <3>5, <3>6
  <2>3. qb + r = pb + t + d
    BY <1>5
  <2>4. r \in 0 .. SeqMod - 1 /\ t \in 0 .. SeqMod - 1
    BY <1>2, <1>3
  <2> HIDE DEF qb, pb, e
  <2> QED
    BY <1>1, <1>4, <2>1, <2>2, <2>3, <2>4
<1>7. r + SeqMod - t = e \/ r + SeqMod - t = e + SeqMod
  BY <1>1, <1>2, <1>3, <1>4, <1>6
<1> HIDE DEF e
<1>8. (r + SeqMod - t) % SeqMod = e
  BY <1>1, <1>4, <1>7, RemainderOf
<1>9. Sub(x % SeqMod, y % SeqMod) = e
  BY <1>8, Zenon DEF Sub, r, t
<1> QED
  BY <1>9 DEF d, e

\* Newer compares ticks, as long as they are close.
LEMMA NewerIsLater ==
    ASSUME NEW n \in Nat, NEW k \in Nat, n - k <= Lifetime, k - n <= Lifetime
    PROVE  Newer(n % SeqMod, k % SeqMod) <=> n > k
<1>1. k % SeqMod \in Nat
  BY Sizes, Remainder
<1>2. Sub(n % SeqMod, k % SeqMod) = IF n < k THEN n - k + SeqMod ELSE n - k
  BY Sizes, Difference
<1> QED
  BY <1>1, <1>2, Sizes DEF Newer
\* Counting on: the wrapped counter follows the ticks.
LEMMA Counting ==
    ASSUME NEW n \in Nat
    PROVE  ((n % SeqMod) + 1) % SeqMod = (n + 1) % SeqMod
<1> DEFINE r == n % SeqMod
           s == (n + 1) % SeqMod
           e == s + SeqMod - r
<1>1. SeqMod \in Nat \ {0} /\ 1 < SeqMod
  BY HeartbeatAssumption
<1>2. r \in 0 .. SeqMod - 1 /\ s \in 0 .. SeqMod - 1
  BY <1>1, Remainder
<1>3. e % SeqMod = 1
  <2> DEFINE k == n + 1
  <2>1. k \in Nat /\ k - n = 1 /\ k - n < SeqMod /\ n - k < SeqMod /\ ~ k < n
    BY <1>1
  <2>2. Sub(k % SeqMod, n % SeqMod) = 1
    <3> HIDE DEF k
    <3> QED
      BY <2>1, Difference
  <2> QED
    BY <2>2 DEF Sub
<1> HIDE DEF r, s
<1>4. e \in 1 .. 2 * SeqMod - 1
  BY <1>1, <1>2
<1>5. e = 1 \/ e = 1 + SeqMod
  <2> HIDE DEF e
  <2>1. CASE e < SeqMod
    BY <1>1, <1>3, <1>4, <2>1, RemainderOf
  <2>2. CASE e >= SeqMod
    <3> DEFINE f == e - SeqMod
    <3>1. f \in 0 .. SeqMod - 1 /\ e = f + SeqMod
      BY <1>1, <1>4, <2>2
    <3> HIDE DEF f
    <3>2. e % SeqMod = f
      BY <1>1, <3>1, RemainderOf
    <3> QED
      BY <1>1, <1>3, <3>1, <3>2
  <2> QED
    BY <1>1, <1>4, <2>1, <2>2
<1>6. s = r + 1 \/ (s = 0 /\ r + 1 = SeqMod)
  BY <1>1, <1>2, <1>5
<1>7. (r + 1) % SeqMod = s
  <2>1. CASE s = r + 1
    BY <1>1, <1>2, <2>1, RemainderOf
  <2>2. CASE s = 0 /\ r + 1 = SeqMod
    BY <1>1, <2>2, RemainderOf
  <2> QED
    BY <1>6, <2>1, <2>2
<1> QED
  BY <1>7 DEF r, s
-----------------------------------------------------------------------------
(* The latest tick acknowledged. *)

LEMMA LatestIsGreatest ==
    ASSUME HasLatest
    PROVE  latest \in Heards /\ \A y \in Heards : y <= latest
  BY DEF HasLatest, latest, Heards, Max

LEMMA MaxOfTwo ==
    ASSUME NEW x \in Nat, NEW y \in Nat
    PROVE  Max({x, y}) = IF y > x THEN y ELSE x
  BY DEF Max

\* An acknowledgement raises it to its tick, or not at all.
LEMMA LatestRises ==
    ASSUME TypeOK, Counted, HasLatest, NEW a \in Addrs, NEW n \in Nat,
           heard' = [heard EXCEPT ![a] = Max({@, n})]
    PROVE  HasLatest' /\ latest' = (IF n > latest THEN n ELSE latest)
<1> DEFINE new == IF n > heard[a] THEN n ELSE heard[a]
           top == IF n > latest THEN n ELSE latest
<1>1. heard \in [Addrs -> Nat] /\ latest \in Nat
  <2>1. heard \in [Addrs -> Nat]
    BY DEF TypeOK, Counted
  <2> QED
    BY <2>1, LatestIsGreatest DEF Heards
<1>2. Max({heard[a], n}) = new
  BY <1>1, MaxOfTwo
<1>3. heard' = [heard EXCEPT ![a] = new]
  BY <1>2
<1>4. Heards' = {IF b = a THEN new ELSE heard[b] : b \in Addrs} \cup {0}
  <2> HIDE DEF new
  <2> QED
    BY <1>1, <1>3 DEF Heards
<1>5. top \in Heards'
  <2>1. CASE n > latest
    <3>1. heard[a] \in Nat /\ heard[a] <= latest
      BY <1>1, LatestIsGreatest DEF Heards
    <3>2. new = n /\ top = n
      BY <2>1, <3>1, <1>1
    <3> QED
      BY <3>2, <1>4
  <2>2. CASE ~ n > latest /\ latest # 0
    <3>1. top = latest
      BY <2>2
    <3>2. PICK b \in Addrs : latest = heard[b]
      BY <2>2, LatestIsGreatest DEF Heards
    <3>3. latest = IF b = a THEN new ELSE heard[b]
      BY <2>2, <3>2
    <3> HIDE DEF new, top
    <3> QED
      BY <3>1, <3>3, <1>4
  <2>3. CASE ~ n > latest /\ latest = 0
    BY <2>3, <1>4
  <2> QED
    BY <2>1, <2>2, <2>3
<1>6. \A y \in Heards' : y \in Nat /\ y <= top
  BY <1>1, <1>4, LatestIsGreatest DEF Heards
<1>7. HasLatest'
  BY <1>5, <1>6 DEF HasLatest
<1>8. latest' \in Heards' /\ \A y \in Heards' : y <= latest'
  BY <1>7 DEF HasLatest, latest, Heards, Max
<1> QED
  BY <1>1, <1>5, <1>6, <1>7, <1>8
-----------------------------------------------------------------------------
(* The steps. *)

LEMMA Initially == Init => Inv
<1> SUFFICES ASSUME Init PROVE Inv
  OBVIOUS
<1>1. heard = [a \in Addrs |-> 0] /\ unheard = [a \in Addrs |-> {}] /\ ticks = 0
  BY DEF Init
<1>2. TypeOK
  BY <1>1, Sizes DEF Init, TypeOK
<1>3. Counted
  BY <1>1, Sizes, RemainderOf DEF Init, Counted
<1>4. HasLatest /\ latest = 0
  <2>1. Heards = {0}
    BY <1>1 DEF Heards
  <2>2. HasLatest
    BY <2>1 DEF HasLatest
  <2> QED
    BY <2>1, <2>2, LatestIsGreatest
<1> QED
  BY <1>1, <1>2, <1>3, <1>4, Sizes DEF Init, Inv, Acked

\* A heartbeat to every active client.
LEMMA TickKeeps ==
    ASSUME Inv, Tick
    PROVE  Inv'
<1> USE DEF Inv
<1>1. ticks \in Nat /\ ticks' = ticks + 1 /\ ticks' \in Nat
  BY DEF Tick, Counted
<1>2. send_seq' = ticks' % SeqMod /\ send_seq' \in 0 .. SeqMod - 1
  <2>1. send_seq' = ticks' % SeqMod
    BY <1>1, Counting DEF Tick, tick, Counted
  <2>2. SeqMod \in Nat \ {0}
    BY Sizes
  <2> QED
    BY <1>1, <2>1, <2>2, Remainder
<1>3. ASSUME NEW m \in (heartbeats \cup acks)'
      PROVE  /\ m \in [addr : Addrs, seq : 0 .. SeqMod - 1, n : 1 .. ticks']
             /\ m.seq = m.n % SeqMod /\ ticks' - m.n <= Lifetime
  <2>1. CASE m \in heartbeats \cup acks
    <3>1. m \in [addr : Addrs, seq : 0 .. SeqMod - 1, n : 1 .. ticks]
      BY <2>1 DEF TypeOK
    <3>2. ticks - m.n < Lifetime
      BY <2>1 DEF Tick
    <3> QED
      BY <1>1, <2>1, <3>1, <3>2, Sizes DEF Counted
  <2>2. ASSUME NEW a \in active, m = Datagram(a)
        PROVE  /\ m \in [addr : Addrs, seq : 0 .. SeqMod - 1, n : 1 .. ticks']
               /\ m.seq = m.n % SeqMod /\ ticks' - m.n <= Lifetime
    BY <1>1, <1>2, <2>2, Sizes DEF Datagram, TypeOK
  <2> QED
    BY <2>1, <2>2 DEF Tick
<1>4. Counted'
  BY <1>1, <1>2, <1>3 DEF Counted
<1>5. \A a \in Addrs : unheard'[a] \subseteq heard'[a] + 1 .. ticks'
  <2> SUFFICES ASSUME NEW a \in Addrs, NEW n \in unheard'[a]
               PROVE  n \in heard[a] + 1 .. ticks'
    BY DEF Tick
  <2>1. heard[a] \in 0 .. ticks /\ unheard[a] \subseteq heard[a] + 1 .. ticks
    BY DEF TypeOK
  <2>2. n \in unheard[a] \/ n = ticks'
    BY DEF Tick
  <2> QED
    BY <1>1, <2>1, <2>2
<1>6. TypeOK'
  <2>1. heard' \in [Addrs -> 0 .. ticks']
    BY <1>1 DEF TypeOK, Tick
  <2>2. last_acked_seq' \in (0 .. SeqMod - 1) \cup {None} /\ alive' \in BOOLEAN
    BY DEF TypeOK, Tick, check_alive
  <2>3. active' \subseteq Addrs /\ present' \subseteq Addrs
    BY DEF TypeOK, Tick
  <2>4. (heartbeats \cup acks)' \subseteq [addr : Addrs, seq : 0 .. SeqMod - 1, n : 1 .. ticks']
    BY <1>3
  <2>5. unheard' \in [Addrs -> SUBSET (1 .. ticks')]
    BY <1>1 DEF TypeOK, Tick
  <2> QED
    BY <1>2, <1>5, <2>1, <2>2, <2>3, <2>4, <2>5 DEF TypeOK
<1>7. HasLatest' /\ latest' = latest
  BY DEF Tick, Acked, HasLatest, Heards, latest
<1>8. ticks' - latest' <= Lifetime
  <2>1. latest \in Nat
    BY LatestIsGreatest DEF Acked, Heards, TypeOK, Counted
  <2> QED
    BY <1>1, <1>7, <2>1, Sizes DEF Tick
<1> QED
  BY <1>4, <1>6, <1>7, <1>8 DEF Acked, Tick

\* An acknowledgement, whichever it is.
LEMMA AckKeeps ==
    ASSUME Inv, NEW m \in acks, received_ack(m)
    PROVE  Inv'
<1> USE DEF Inv
<1>1. /\ m \in [addr : Addrs, seq : 0 .. SeqMod - 1, n : 1 .. ticks] /\ ticks \in Nat
      /\ m.seq = m.n % SeqMod /\ ticks - m.n <= Lifetime
  BY DEF TypeOK, Counted
<1>2. m.n \in Nat /\ m.n > 0 /\ m.n <= ticks /\ m.addr \in Addrs
  BY <1>1
<1>3. HasLatest' /\ latest' = IF m.n > latest THEN m.n ELSE latest
  BY <1>2, LatestRises DEF Acked, received_ack
<1>4. latest \in Nat /\ latest <= ticks
  BY LatestIsGreatest DEF Acked, Heards, TypeOK, Counted
<1>5. last_acked_seq' = IF latest' = 0 THEN None ELSE latest' % SeqMod
  <2>1. CASE latest = 0
    <3>1. Newer(m.seq, last_acked_seq)
      BY <2>1 DEF Acked, Newer
    <3> QED
      BY <1>1, <1>2, <1>3, <2>1, <3>1 DEF received_ack
  <2>2. CASE latest # 0
    <3>1. last_acked_seq = latest % SeqMod
      BY <2>2 DEF Acked
    <3>2. m.n - latest <= Lifetime /\ latest - m.n <= Lifetime
      BY <1>1, <1>2, <1>4, Sizes DEF Acked
    <3>3. Newer(m.seq, last_acked_seq) <=> m.n > latest
      BY <1>1, <1>2, <1>4, <3>1, <3>2, NewerIsLater
    <3>4. latest' # 0
      BY <1>2, <1>3, <2>2
    <3> QED
      BY <1>1, <1>3, <3>1, <3>3, <3>4 DEF received_ack
  <2> QED
    BY <2>1, <2>2
<1>6. Acked'
  BY <1>1, <1>2, <1>3, <1>4, <1>5, Sizes DEF Acked, received_ack
<1>7. Counted'
  BY DEF Counted, received_ack
<1>8. TypeOK'
  <2> DEFINE h == [heard EXCEPT ![m.addr] = Max({@, m.n})]
  <2>1. heard \in [Addrs -> 0 .. ticks]
    BY DEF TypeOK
  <2>2. /\ Max({heard[m.addr], m.n}) \in 0 .. ticks
        /\ m.n <= Max({heard[m.addr], m.n})
        /\ \/ Max({heard[m.addr], m.n}) = heard[m.addr]
           \/ Max({heard[m.addr], m.n}) = m.n
    <3>1. heard[m.addr] \in 0 .. ticks /\ heard[m.addr] \in Nat
      BY <1>1, <1>2, <2>1
    <3>2. Max({heard[m.addr], m.n}) = IF m.n > heard[m.addr] THEN m.n ELSE heard[m.addr]
      BY <1>2, <3>1, MaxOfTwo
    <3> QED
      BY <1>1, <1>2, <3>1, <3>2
  <2>3. heard' \in [Addrs -> 0 .. ticks]
    BY <2>1, <2>2 DEF received_ack
  <2>7. unheard' \in [Addrs -> SUBSET (1 .. ticks)]
    BY <1>2 DEF received_ack, TypeOK
  <2>4. ASSUME NEW a \in Addrs PROVE unheard'[a] \subseteq heard'[a] + 1 .. ticks
    <3>1. unheard[a] \subseteq heard[a] + 1 .. ticks /\ heard[a] \in 0 .. ticks
      BY <2>1 DEF TypeOK
    <3>2. CASE a = m.addr
      <4>1. heard'[a] = Max({heard[a], m.n})
        BY <2>1, <3>2 DEF received_ack
      <4> SUFFICES ASSUME NEW n \in unheard'[a] PROVE n \in heard'[a] + 1 .. ticks
        OBVIOUS
      <4>2. n \in unheard[a] /\ n > m.n
        BY <3>2 DEF received_ack, TypeOK
      <4> QED
        BY <1>1, <1>2, <2>2, <3>1, <3>2, <4>1, <4>2
    <3>3. CASE a # m.addr
      BY <2>1, <3>1, <3>3 DEF received_ack
    <3> QED
      BY <3>2, <3>3
  <2>5. last_acked_seq' \in (0 .. SeqMod - 1) \cup {None}
    BY <1>1 DEF TypeOK, received_ack
  <2>6. acks' \subseteq acks /\ UNCHANGED <<active, present, send_seq, alive, heartbeats, ticks>>
    BY DEF received_ack
  <2> QED
    BY <2>3, <2>4, <2>5, <2>6, <2>7 DEF TypeOK
<1> QED
  BY <1>6, <1>7, <1>8

\* Everything else only changes who is there and which datagrams are left.
LEMMA RestKeeps ==
    ASSUME Inv, UNCHANGED <<send_seq, last_acked_seq, alive, ticks, heard, unheard>>,
           (heartbeats \cup acks)' \subseteq heartbeats \cup acks,
           active' \subseteq Addrs, present' \subseteq Addrs
    PROVE  Inv'
<1>1. TypeOK'
  BY DEF Inv, TypeOK
<1>2. Counted'
  BY DEF Inv, Counted
<1>3. Acked'
  BY DEF Inv, Acked, HasLatest, Heards, latest
<1> QED
  BY <1>1, <1>2, <1>3 DEF Inv

LEMMA StepKeeps ==
    ASSUME Inv, [Next]_vars
    PROVE  Inv'
<1> USE DEF Inv, TypeOK
<1>1. CASE Tick
  BY <1>1, TickKeeps
<1>2. ASSUME NEW m \in acks, received_ack(m) PROVE Inv'
  BY <1>2, AckKeeps
<1>3. CASE Lose
  BY <1>3, RestKeeps DEF Lose
<1>4. ASSUME NEW a \in Addrs, Join(a) PROVE Inv'
  BY <1>4, RestKeeps DEF Join
<1>5. ASSUME NEW a \in Addrs, Leave(a) PROVE Inv'
  BY <1>5, RestKeeps DEF Leave
<1>6. ASSUME NEW a \in Addrs, Vanish(a) PROVE Inv'
  BY <1>6, RestKeeps DEF Vanish
<1>7. ASSUME NEW m \in heartbeats, Acknowledge(m) PROVE Inv'
  BY <1>7, RestKeeps DEF Acknowledge
<1>8. CASE UNCHANGED vars
  BY <1>8, RestKeeps DEF vars
<1> QED
  BY <1>1, <1>2, <1>3, <1>4, <1>5, <1>6, <1>7, <1>8 DEF Next

THEOREM Invariance == Spec => []Inv
<1>1. Inv /\ [Next]_vars => Inv'
  BY StepKeeps
<1> QED
  BY Initially, <1>1, PTL DEF Spec
-----------------------------------------------------------------------------
\* What check_alive counts: the ticks since the latest one acknowledged.
LEMMA CheckCounts ==
    Inv => (check_alive(send_seq, last_acked_seq) <=> ticks - latest <= max_missed)
<1> SUFFICES ASSUME Inv
             PROVE  check_alive(send_seq, last_acked_seq) <=> ticks - latest <= max_missed
  OBVIOUS
<1>1. ticks \in Nat /\ latest \in Nat /\ latest <= ticks /\ ticks - latest <= Lifetime
  BY LatestIsGreatest DEF Inv, Acked, Heards, TypeOK, Counted
<1>2. SeqMod \in Nat \ {0} /\ max_missed \in Nat
  BY Sizes
<1>3. CASE latest = 0
  <2>1. ticks \in 0 .. SeqMod - 1
    BY <1>1, <1>3, Sizes
  <2>2. send_seq = ticks
    BY <1>2, <2>1, RemainderOf DEF Inv, Counted
  <2> QED
    BY <1>1, <1>3, <2>2 DEF Inv, Acked, check_alive
<1>4. CASE latest # 0
  <2>1. latest % SeqMod \in Nat
    BY <1>1, <1>2, Remainder
  <2>2. Sub(ticks % SeqMod, latest % SeqMod) = ticks - latest
    BY <1>1, Sizes, Difference
  <2> QED
    BY <1>4, <2>1, <2>2, Sizes DEF Inv, Acked, Counted, check_alive
<1> QED
  BY <1>3, <1>4

\* The manager's counters and every number on the wire are well-typed
\* (HeartbeatManager, and the heartbeats and acknowledgements of main.rs 175-194).
THEOREM HeartbeatTyping == Spec => []TypeOK
<1>1. Inv => TypeOK
  BY DEF Inv
<1> QED
  BY Invariance, <1>1, PTL

\* Whatever order acknowledgements arrive in and however often the counter wraps,
\* last_acked_seq is the most recent of them and the check counts exactly the
\* heartbeats since (received_ack, check_alive).
THEOREM LatestAcked == Spec => []AckedIsLatest
<1>1. Inv => AckedIsLatest
  BY CheckCounts DEF Inv, Acked, AckedIsLatest
<1> QED
  BY Invariance, <1>1, PTL
-----------------------------------------------------------------------------
(* One client. *)

\* What the last tick found still holds.
AliveCounted == alive => ticks - latest <= max_missed

LEMMA AliveInitially == Init => AliveCounted
<1> SUFFICES ASSUME Init PROVE AliveCounted
  OBVIOUS
<1>1. Heards = {0} /\ ticks = 0
  BY DEF Init, Heards
<1>2. HasLatest
  BY <1>1 DEF HasLatest
<1>3. latest = 0
  BY <1>1, <1>2, LatestIsGreatest
<1> QED
  BY <1>1, <1>3, Sizes DEF AliveCounted

LEMMA CheckCountsNext ==
    (Inv => (check_alive(send_seq, last_acked_seq) <=> ticks - latest <= max_missed))'
  BY CheckCounts, PTL

LEMMA AliveKept ==
    ASSUME Inv, Inv', AliveCounted, [Next]_vars
    PROVE  AliveCounted'
<1>1. CASE Tick
  <2>1. alive' = check_alive(send_seq', last_acked_seq')
    BY <1>1 DEF Tick
  <2>2. check_alive(send_seq', last_acked_seq') <=> ticks' - latest' <= max_missed
    BY CheckCountsNext DEF check_alive, Sub
  <2> QED
    BY <2>1, <2>2 DEF AliveCounted
<1>2. ASSUME NEW m \in acks, received_ack(m) PROVE AliveCounted'
  <2>1. m.n \in Nat /\ m.addr \in Addrs /\ ticks \in Nat
    BY DEF Inv, TypeOK, Counted
  <2>2. latest' = IF m.n > latest THEN m.n ELSE latest
    BY <1>2, <2>1, LatestRises DEF received_ack, Inv, Acked
  <2>3. latest \in Nat
    BY LatestIsGreatest DEF Inv, Acked, Heards, TypeOK, Counted
  <2>4. alive' = alive /\ ticks' = ticks
    BY <1>2 DEF received_ack
  <2> QED
    BY <2>1, <2>2, <2>3, <2>4, Sizes DEF AliveCounted
<1>3. CASE UNCHANGED <<alive, ticks, heard>>
  BY <1>3 DEF AliveCounted, latest
<1>4. Tick \/ (\E m \in acks : received_ack(m)) \/ UNCHANGED <<alive, ticks, heard>>
  BY DEF Next, vars, Lose, Join, Leave, Vanish, Acknowledge
<1> QED
  BY <1>1, <1>2, <1>3, <1>4

\* While its only client has left more than max_missed heartbeats unanswered, the
\* host's last check has failed (main.rs 188-193).
THEOREM SilenceIsNoticed ==
    ASSUME NEW CONSTANT c, Addrs = {c}
    PROVE  Spec => []SilenceNoticed
<1>1. Inv /\ AliveCounted => SilenceNoticed
  <2> SUFFICES ASSUME Inv, AliveCounted, alive, NEW a \in active
               PROVE  Cardinality(unheard[a]) <= max_missed
    BY DEF SilenceNoticed
  <2>1. a \in Addrs /\ ticks \in Nat /\ heard[a] \in 0 .. ticks
        /\ unheard[a] \subseteq heard[a] + 1 .. ticks
    BY DEF Inv, TypeOK, Counted
  <2>2. latest = heard[a]
    <3>1. Heards = {heard[a], 0}
      BY <2>1 DEF Heards
    <3>2. latest \in {heard[a], 0} /\ heard[a] <= latest
      BY <3>1, LatestIsGreatest DEF Inv, Acked
    <3> QED
      BY <2>1, <3>2
  <2>3. IsFiniteSet(heard[a] + 1 .. ticks) /\ Cardinality(heard[a] + 1 .. ticks) = ticks - heard[a]
    <3> DEFINE low == heard[a] + 1
    <3>1. low \in Int /\ ticks \in Int /\ (low > ticks => ticks - heard[a] = 0)
          /\ ticks - low + 1 = ticks - heard[a]
      BY <2>1
    <3> HIDE DEF low
    <3>2. IsFiniteSet(low .. ticks) /\ Cardinality(low .. ticks) = ticks - heard[a]
      BY <3>1, FS_Interval
    <3> QED
      BY <3>2 DEF low
  <2>4. Cardinality(unheard[a]) <= ticks - heard[a] /\ Cardinality(unheard[a]) \in Nat
    BY <2>1, <2>3, FS_Subset, FS_CardinalityType
  <2> QED
    BY <2>1, <2>2, <2>4, Sizes DEF AliveCounted
<1>2. Inv /\ Inv' /\ AliveCounted /\ [Next]_vars => AliveCounted'
  BY AliveKept
<1> QED
  BY Invariance, AliveInitially, <1>1, <1>2, PTL DEF Spec
=============================================================================
