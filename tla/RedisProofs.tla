---------------------------- MODULE RedisProofs ----------------------------
(***************************************************************************)
(* Proofs about what is kept in Redis and whom it serves: the counted      *)
(* streams of SseStreams, for every set of instances and connections, every *)
(* limit and every number of faults, and the containers of Deployment, for *)
(* every number of migrations, edits, deploys and faults.                  *)
(***************************************************************************)
EXTENDS SseStreams, Deployment, FiniteSetTheorems, SequenceTheorems, TLAPS

-----------------------------------------------------------------------------
(* The types that the proofs need.                                         *)
StreamTypes ==
  /\ stream \in [Conns -> {"new", "open", "closed"}]
  /\ at \in [Conns -> Instances \union {NoInstance}]
  /\ zset \in Seq(Conns)
  /\ local \in [Instances -> SUBSET Conns]
  /\ cmds \in [Instances -> Seq(Command)]
  /\ \A c \in Conns : stream[c] # "new" => at[c] \in Instances

(* Where a command is in the queue of its instance: a connection is added  *)
(* once and removed after it, by the instance that serves its stream.      *)
Sent(i, n, op, c) == n \in 1..Len(cmds[i]) /\ cmds[i][n] = [op |-> op, conn |-> c]
QueueInv ==
  /\ \A i \in Instances, c \in Conns, n \in Nat :
       Sent(i, n, "zadd", c) \/ Sent(i, n, "zrem", c) => at[c] = i /\ stream[c] # "new"
  /\ \A i \in Instances, c \in Conns, m, n \in Nat :
       Sent(i, m, "zadd", c) /\ Sent(i, n, "zadd", c) => m = n
  /\ \A i \in Instances, c \in Conns, m, n \in Nat :
       Sent(i, m, "zadd", c) /\ Sent(i, n, "zrem", c) => m < n

(* What is counted is counted once, after it was added; a stream that is   *)
(* closed is not counted any more and will not be, or it will be removed.  *)
Once(s) == \A m, n \in 1..Len(s) : s[m] = s[n] => m = n
CountInv ==
  /\ Once(zset)
  /\ \A c \in ToSet(zset) : stream[c] # "new"
  /\ \A i \in Instances, c \in Conns, n \in Nat : Sent(i, n, "zadd", c) => c \notin ToSet(zset)
  /\ \A c \in Conns : stream[c] = "closed" /\ at[c] \notin dead =>
       \/ \E n \in Nat : Sent(at[c], n, "zrem", c)
       \/ c \notin ToSet(zset) /\ \A n \in Nat : ~Sent(at[c], n, "zadd", c)

(* While no two registrations or closings overlap, one instance has        *)
(* commands of one registration, at some place of it, or of closings.      *)
Registering(i) ==
  /\ Len(cmds[i]) = 1
  /\ LET x == cmds[i][1] IN
     \/ x.op \in {"zadd", "publish"} /\ Len(zset) <= MaxConnections
     \/ x.op \in {"expire", "zcard", "zrange"} /\ Len(zset) <= MaxConnections + 1
     \/ x.op = "evict" /\ zset = <<>>
     \/ x.op = "evict" /\ x.conn = Head(zset) /\ Len(zset) <= MaxConnections + 1
Closing(i) == (\A n \in 1..Len(cmds[i]) : cmds[i][n].op = "zrem") /\ Len(zset) <= MaxConnections

AloneInv ==
  ~overlap =>
    /\ \A i, j \in Instances : cmds[i] # <<>> /\ cmds[j] # <<>> => i = j
    /\ \A i \in Instances : cmds[i] # <<>> => Registering(i) \/ Closing(i)
    /\ ~Busy => Len(zset) <= MaxConnections

StreamInv == StreamTypes /\ QueueInv /\ CountInv /\ AloneInv

LEMMA MembersOf ==
  ASSUME NEW S, NEW s \in Seq(S), NEW x
  PROVE  x \in ToSet(s) <=> \E n \in 1..Len(s) : s[n] = x
BY DEF ToSet

LEMMA MembersType == ASSUME NEW S, NEW s \in Seq(S) PROVE ToSet(s) \subseteq S
BY DEF ToSet

(* Taking a member out of a sequence that has it once.                     *)
LEMMA RemoveIt ==
  ASSUME NEW S, NEW s \in Seq(S), NEW k \in 1..Len(s)
  PROVE  /\ RemoveAt(s, k) \in Seq(S) /\ Len(RemoveAt(s, k)) = Len(s) - 1
         /\ \A n \in 1..(Len(s) - 1) : RemoveAt(s, k)[n] = IF n < k THEN s[n] ELSE s[n + 1]
<1> DEFINE a == SubSeq(s, 1, k - 1)
           b == SubSeq(s, k + 1, Len(s))
<1>1. Len(s) \in Nat /\ \A n \in 1..Len(s) : s[n] \in S
  OBVIOUS
<1>2. k - 1 \in Int /\ k + 1 \in Int /\ Len(s) \in Int /\ 1 \in Int
  BY <1>1
<1>3. /\ a \in Seq(S) /\ Len(a) = k - 1
      /\ \A n \in 1..(k - 1) : a[n] = s[n]
  <2>1. \A n \in 1..(k - 1) : s[n] \in S
    BY <1>1
  <2>2. /\ a \in Seq(S) /\ Len(a) = IF 1 <= k - 1 THEN k - 1 - 1 + 1 ELSE 0
        /\ \A n \in 1..(k - 1 - 1 + 1) : a[n] = s[1 + n - 1]
    BY <1>2, <2>1, SubSeqProperties
  <2> HIDE DEF a
  <2>3. QED BY <2>2, <1>1
<1>4. /\ b \in Seq(S) /\ Len(b) = Len(s) - k
      /\ \A n \in 1..(Len(s) - k) : b[n] = s[k + n]
  <2>1. \A n \in (k + 1)..Len(s) : s[n] \in S
    BY <1>1
  <2>2. /\ b \in Seq(S) /\ Len(b) = IF k + 1 <= Len(s) THEN Len(s) - (k + 1) + 1 ELSE 0
        /\ \A n \in 1..(Len(s) - (k + 1) + 1) : b[n] = s[k + 1 + n - 1]
    BY <1>2, <2>1, SubSeqProperties
  <2> HIDE DEF b
  <2>3. QED BY <2>2, <1>1
<1>5. RemoveAt(s, k) = a \o b
  BY DEF RemoveAt
<1> HIDE DEF a, b
<1> DEFINE t == a \o b
<1>6. /\ t \in Seq(S) /\ Len(t) = Len(a) + Len(b)
      /\ \A n \in 1..(Len(a) + Len(b)) : t[n] = IF n <= Len(a) THEN a[n] ELSE b[n - Len(a)]
  BY <1>3, <1>4, ConcatProperties
<1> HIDE DEF t
<1>7. ASSUME NEW n \in 1..(Len(s) - 1)
      PROVE  t[n] = IF n < k THEN s[n] ELSE s[n + 1]
  <2>1. CASE n < k
    <3>1. n \in 1..(k - 1) /\ n <= Len(a) /\ n \in 1..(Len(a) + Len(b))
      BY <1>1, <1>3, <1>4, <1>7, <2>1
    <3>2. QED BY <1>3, <1>6, <2>1, <3>1
  <2>2. CASE n >= k
    <3>1. /\ n - (k - 1) \in 1..(Len(s) - k) /\ k + (n - (k - 1)) = n + 1 /\ ~(n <= Len(a))
          /\ n \in 1..(Len(a) + Len(b)) /\ n - Len(a) = n - (k - 1)
      BY <1>1, <1>3, <1>4, <1>7, <2>2
    <3>2. t[n] = b[n - (k - 1)]
      BY <1>6, <3>1
    <3>3. QED BY <1>4, <2>2, <3>1, <3>2
  <2>3. QED BY <1>1, <2>1, <2>2
<1>8. QED BY <1>1, <1>3, <1>4, <1>5, <1>6, <1>7 DEF t

(* Putting a member into a sequence that does not have it.                 *)
LEMMA InsertIt ==
  ASSUME NEW S, NEW s \in Seq(S), NEW k \in 1..(Len(s) + 1), NEW e \in S
  PROVE  /\ InsertAt(s, k, e) \in Seq(S) /\ Len(InsertAt(s, k, e)) = Len(s) + 1
         /\ \A n \in 1..(Len(s) + 1) :
              InsertAt(s, k, e)[n] = IF n < k THEN s[n] ELSE IF n = k THEN e ELSE s[n - 1]
<1> DEFINE a == SubSeq(s, 1, k - 1)
           b == SubSeq(s, k, Len(s))
           m == <<e>>
<1>1. Len(s) \in Nat /\ \A n \in 1..Len(s) : s[n] \in S
  OBVIOUS
<1>2. k \in Int /\ k - 1 \in Int /\ Len(s) \in Int /\ 1 \in Int
  BY <1>1
<1>3. /\ a \in Seq(S) /\ Len(a) = k - 1
      /\ \A n \in 1..(k - 1) : a[n] = s[n]
  <2>1. \A n \in 1..(k - 1) : s[n] \in S
    BY <1>1
  <2>2. /\ a \in Seq(S) /\ Len(a) = IF 1 <= k - 1 THEN k - 1 - 1 + 1 ELSE 0
        /\ \A n \in 1..(k - 1 - 1 + 1) : a[n] = s[1 + n - 1]
    BY <1>2, <2>1, SubSeqProperties
  <2> HIDE DEF a
  <2>3. QED BY <2>2, <1>1
<1>4. /\ b \in Seq(S) /\ Len(b) = Len(s) - k + 1
      /\ \A n \in 1..(Len(s) - k + 1) : b[n] = s[k + n - 1]
  <2>1. \A n \in k..Len(s) : s[n] \in S
    BY <1>1
  <2>2. /\ b \in Seq(S) /\ Len(b) = IF k <= Len(s) THEN Len(s) - k + 1 ELSE 0
        /\ \A n \in 1..(Len(s) - k + 1) : b[n] = s[k + n - 1]
    BY <1>2, <2>1, SubSeqProperties
  <2> HIDE DEF b
  <2>3. QED BY <2>2, <1>1
<1>5. m \in Seq(S) /\ Len(m) = 1 /\ m[1] = e
  OBVIOUS
<1>6. InsertAt(s, k, e) = (a \o m) \o b
  BY DEF InsertAt
<1> HIDE DEF a, b, m
<1> DEFINE c == a \o m
<1>7. /\ c \in Seq(S) /\ Len(c) = Len(a) + Len(m)
      /\ \A n \in 1..(Len(a) + Len(m)) : c[n] = IF n <= Len(a) THEN a[n] ELSE m[n - Len(a)]
  BY <1>3, <1>5, ConcatProperties
<1> HIDE DEF c
<1>8. Len(c) = k /\ \A n \in 1..k : c[n] = IF n < k THEN s[n] ELSE e
  <2>1. Len(c) = k
    BY <1>1, <1>3, <1>5, <1>7
  <2>2. ASSUME NEW n \in 1..k PROVE c[n] = IF n < k THEN s[n] ELSE e
    <3>1. CASE n < k
      BY <1>1, <1>3, <1>5, <1>7, <3>1
    <3>2. CASE n = k
      <4>1. n - Len(a) = 1 /\ ~(n <= Len(a)) /\ n \in 1..(Len(a) + Len(m))
        BY <1>1, <1>3, <1>5, <3>2
      <4>2. QED BY <1>5, <1>7, <3>2, <4>1
    <3>3. QED BY <1>1, <3>1, <3>2
  <2>3. QED BY <2>1, <2>2
<1>16. c \in Seq(S) /\ b \in Seq(S)
  BY <1>4, <1>7
<1> DEFINE t == c \o b
<1>9. /\ t \in Seq(S) /\ Len(t) = Len(c) + Len(b)
      /\ \A n \in 1..(Len(c) + Len(b)) : t[n] = IF n <= Len(c) THEN c[n] ELSE b[n - Len(c)]
  BY <1>16, ConcatProperties
<1> HIDE DEF t
<1>10. ASSUME NEW n \in 1..(Len(s) + 1)
       PROVE  t[n] = IF n < k THEN s[n] ELSE IF n = k THEN e ELSE s[n - 1]
  <2>1. CASE n <= k
    <3>1. n \in 1..k /\ n <= Len(c) /\ n \in 1..(Len(c) + Len(b))
      BY <1>1, <1>4, <1>8, <2>1
    <3>2. QED BY <1>1, <1>8, <1>9, <3>1
  <2>2. CASE n > k
    <3>1. /\ n - k \in 1..(Len(s) - k + 1) /\ k + (n - k) - 1 = n - 1 /\ ~(n <= Len(c))
          /\ n \in 1..(Len(c) + Len(b)) /\ n - Len(c) = n - k
      BY <1>1, <1>4, <1>8, <2>2
    <3>2. t[n] = b[n - k]
      BY <1>9, <3>1
    <3>3. QED BY <1>1, <1>4, <2>2, <3>1, <3>2
  <2>3. QED BY <1>1, <2>1, <2>2
<1>11. Len(t) = Len(s) + 1
  BY <1>1, <1>4, <1>8, <1>9
<1>12. InsertAt(s, k, e) = t
  BY <1>6 DEF t, c
<1>13. QED BY <1>9, <1>10, <1>11, <1>12

(* A connection added, at whatever place, is counted once.                 *)
LEMMA InsertCounts ==
  ASSUME zset \in Seq(Conns), Once(zset), NEW c \in Conns, c \notin ToSet(zset),
         NEW k \in 1..(Len(zset) + 1), NEW t, t = InsertAt(zset, k, c)
  PROVE  /\ t \in Seq(Conns) /\ Once(t) /\ Len(t) = Len(zset) + 1
         /\ ToSet(t) = ToSet(zset) \union {c}
<1>1. /\ t \in Seq(Conns) /\ Len(t) = Len(zset) + 1
      /\ \A n \in 1..(Len(zset) + 1) :
           t[n] = IF n < k THEN zset[n] ELSE IF n = k THEN c ELSE zset[n - 1]
  BY InsertIt
<1>2. Len(zset) \in Nat /\ \A n \in 1..Len(zset) : zset[n] # c
  BY MembersOf
<1>3. \A n \in 1..Len(t) : \/ n < k /\ n \in 1..Len(zset) /\ t[n] = zset[n]
                           \/ n = k /\ t[n] = c
                           \/ n > k /\ n - 1 \in 1..Len(zset) /\ t[n] = zset[n - 1]
  BY <1>1, <1>2
<1>4. Once(t)
  <2>1. ASSUME NEW m \in 1..Len(t), NEW n \in 1..Len(t), t[m] = t[n] PROVE m = n
    <3>1. m \in Int /\ n \in Int /\ k \in Int
      BY <1>1, <1>2
    <3>2. /\ \/ m < k /\ m \in 1..Len(zset) /\ t[m] = zset[m]
             \/ m = k /\ t[m] = c
             \/ m > k /\ m - 1 \in 1..Len(zset) /\ t[m] = zset[m - 1]
          /\ \/ n < k /\ n \in 1..Len(zset) /\ t[n] = zset[n]
             \/ n = k /\ t[n] = c
             \/ n > k /\ n - 1 \in 1..Len(zset) /\ t[n] = zset[n - 1]
      BY <1>3
    <3>3. PICK p, r : /\ p = (IF m < k THEN m ELSE m - 1)
                      /\ r = (IF n < k THEN n ELSE n - 1)
      OBVIOUS
    <3>4. CASE m # k /\ n # k
      <4>1. p \in 1..Len(zset) /\ r \in 1..Len(zset) /\ zset[p] = zset[r]
        BY <2>1, <3>1, <3>2, <3>3, <3>4
      <4>2. p = r
        BY <4>1 DEF Once
      <4>3. QED BY <3>1, <3>3, <3>4, <4>2
    <3>5. CASE m = k /\ n # k
      <4>1. r \in 1..Len(zset) /\ zset[r] = c
        BY <2>1, <3>1, <3>2, <3>3, <3>5
      <4>2. QED BY <1>2, <4>1
    <3>6. CASE m # k /\ n = k
      <4>1. p \in 1..Len(zset) /\ zset[p] = c
        BY <2>1, <3>1, <3>2, <3>3, <3>6
      <4>2. QED BY <1>2, <4>1
    <3>7. QED BY <3>4, <3>5, <3>6
  <2>2. QED BY <2>1 DEF Once
<1>5. ASSUME NEW d PROVE d \in ToSet(t) <=> d \in ToSet(zset) \union {c}
  <2>1. ASSUME d \in ToSet(t) PROVE d \in ToSet(zset) \union {c}
    <3>1. PICK n \in 1..Len(t) : t[n] = d
      BY <1>1, <2>1, MembersOf
    <3>2. d = c \/ \E m \in 1..Len(zset) : zset[m] = d
      BY <1>3, <3>1
    <3>3. QED BY <3>2, MembersOf
  <2>2. ASSUME d \in ToSet(zset) PROVE d \in ToSet(t)
    <3>1. PICK m \in 1..Len(zset) : zset[m] = d
      BY <2>2, MembersOf
    <3>2. \E n \in 1..Len(t) : t[n] = d
      <4>1. CASE m < k
        BY <1>1, <1>2, <3>1, <4>1
      <4>2. CASE m >= k
        <5>1. m + 1 \in 1..Len(t) /\ m + 1 > k /\ m + 1 - 1 = m /\ ~(m + 1 < k) /\ m + 1 # k
          BY <1>1, <1>2, <4>2
        <5>2. t[m + 1] = zset[m]
          BY <1>1, <5>1
        <5>3. QED BY <3>1, <5>1, <5>2
      <4>3. QED BY <1>2, <4>1, <4>2
    <3>3. QED BY <1>1, <3>2, MembersOf
  <2>3. ASSUME d = c PROVE d \in ToSet(t)
    <3>1. k \in 1..Len(t) /\ t[k] = c
      BY <1>1, <1>2
    <3>2. QED BY <1>1, <2>3, <3>1, MembersOf
  <2>4. QED BY <2>1, <2>2, <2>3
<1>6. QED BY <1>1, <1>4, <1>5

LEMMA WithoutIs ==
  ASSUME zset \in Seq(Conns), Once(zset), NEW c \in Conns
  PROVE  /\ Without(c) \in Seq(Conns) /\ Once(Without(c))
         /\ ToSet(Without(c)) = ToSet(zset) \ {c}
         /\ Len(Without(c)) = IF c \in ToSet(zset) THEN Len(zset) - 1 ELSE Len(zset)
<1>1. CASE c \notin ToSet(zset)
  BY <1>1 DEF Without
<1>2. CASE c \in ToSet(zset)
  <2> DEFINE k == CHOOSE n \in DOMAIN zset : zset[n] = c
             t == RemoveAt(zset, k)
  <2>1. k \in 1..Len(zset) /\ zset[k] = c
    BY <1>2 DEF ToSet
  <2>2. Without(c) = t
    BY <1>2 DEF Without
  <2> HIDE DEF k
  <2>3. /\ t \in Seq(Conns) /\ Len(t) = Len(zset) - 1
        /\ \A n \in 1..(Len(zset) - 1) : t[n] = IF n < k THEN zset[n] ELSE zset[n + 1]
    BY <2>1, RemoveIt
  <2> HIDE DEF t
  <2>4. Once(t)
    BY <2>1, <2>3 DEF Once
  <2>5. ASSUME NEW x PROVE x \in ToSet(t) <=> x \in ToSet(zset) \ {c}
    <3>1. ASSUME x \in ToSet(t) PROVE x \in ToSet(zset) \ {c}
      <4>1. PICK n \in 1..Len(t) : t[n] = x
        BY <2>3, <3>1, MembersOf
      <4>2. PICK m \in 1..Len(zset) : m # k /\ zset[m] = x
        <5>1. Len(zset) \in Nat
          OBVIOUS
        <5>2. CASE n < k
          BY <2>1, <2>3, <4>1, <5>1, <5>2
        <5>3. CASE n >= k
          <6>1. n + 1 \in 1..Len(zset) /\ n + 1 # k /\ zset[n + 1] = x
            BY <2>1, <2>3, <4>1, <5>1, <5>3
          <6>2. QED BY <6>1
        <5>4. QED BY <2>1, <2>3, <4>1, <5>1, <5>2, <5>3
      <4>3. zset[m] # c
        BY <2>1, <4>2 DEF Once
      <4>4. QED BY <4>2, <4>3, MembersOf
    <3>2. ASSUME x \in ToSet(zset) \ {c} PROVE x \in ToSet(t)
      <4>1. PICK m \in 1..Len(zset) : zset[m] = x /\ m # k
        BY <2>1, <3>2, MembersOf
      <4>2. \E n \in 1..Len(t) : t[n] = x
        <5>1. Len(zset) \in Nat
          OBVIOUS
        <5>2. CASE m < k
          BY <2>1, <2>3, <4>1, <5>1, <5>2
        <5>3. CASE m > k
          <6>1. m - 1 \in 1..Len(t) /\ t[m - 1] = zset[m - 1 + 1] /\ m - 1 + 1 = m
            BY <2>1, <2>3, <4>1, <5>1, <5>3
          <6>2. QED BY <4>1, <6>1
        <5>4. QED BY <2>1, <4>1, <5>1, <5>2, <5>3
      <4>3. QED BY <2>3, <4>2, MembersOf
    <3>3. QED BY <3>1, <3>2
  <2>6. QED BY <1>2, <2>2, <2>3, <2>4, <2>5
<1>3. QED BY <1>1, <1>2

(* The queue of an instance after a step: the first k commands gone, those *)
(* of q added.                                                             *)
Moved(i, k, q) ==
  /\ cmds' \in [Instances -> Seq(Command)] /\ q \in Seq(Command)
  /\ k \in {0, 1} /\ k <= Len(cmds[i]) /\ Len(cmds'[i]) = Len(cmds[i]) - k + Len(q)
  /\ \A n \in 1..(Len(cmds[i]) - k) : cmds'[i][n] = cmds[i][n + k]
  /\ \A n \in 1..Len(q) : cmds'[i][Len(cmds[i]) - k + n] = q[n]
  /\ \A j \in Instances \ {i} : cmds'[j] = cmds[j]

LEMMA ConcatMoves ==
  ASSUME cmds \in [Instances -> Seq(Command)], NEW i \in Instances, NEW q \in Seq(Command),
         cmds' = [cmds EXCEPT ![i] = @ \o q]
  PROVE  Moved(i, 0, q)
<1> DEFINE s == cmds[i]
           t == s \o q
<1>1. s \in Seq(Command) /\ Len(s) \in Nat /\ Len(q) \in Nat
  OBVIOUS
<1>2. /\ t \in Seq(Command) /\ Len(t) = Len(s) + Len(q)
      /\ \A n \in 1..(Len(s) + Len(q)) : t[n] = IF n <= Len(s) THEN s[n] ELSE q[n - Len(s)]
  BY <1>1, ConcatProperties
<1>3. /\ cmds'[i] = t /\ \A j \in Instances \ {i} : cmds'[j] = cmds[j]
      /\ cmds' \in [Instances -> Seq(Command)]
  BY <1>2
<1> HIDE DEF t
<1>4. \A n \in 1..(Len(s) - 0) : t[n] = s[n + 0]
  BY <1>1, <1>2
<1>5. ASSUME NEW n \in 1..Len(q) PROVE t[Len(s) - 0 + n] = q[n]
  <2>1. Len(s) + n \in 1..(Len(s) + Len(q)) /\ ~(Len(s) + n <= Len(s)) /\ (Len(s) + n) - Len(s) = n
    BY <1>1
  <2>2. Len(s) - 0 + n = Len(s) + n
    BY <1>1
  <2>3. QED BY <1>2, <2>1, <2>2
<1>6. QED BY <1>1, <1>2, <1>3, <1>4, <1>5 DEF Moved

LEMMA AppendMoves ==
  ASSUME cmds \in [Instances -> Seq(Command)], NEW i \in Instances, NEW x \in Command,
         cmds' = [cmds EXCEPT ![i] = Append(@, x)]
  PROVE  Moved(i, 0, <<x>>)
<1>1. /\ Append(cmds[i], x) \in Seq(Command) /\ Len(Append(cmds[i], x)) = Len(cmds[i]) + 1
      /\ \A n \in 1..Len(cmds[i]) : Append(cmds[i], x)[n] = cmds[i][n]
      /\ Append(cmds[i], x)[Len(cmds[i]) + 1] = x
  BY AppendProperties
<1>2. QED BY <1>1 DEF Moved

LEMMA ReturnMoves ==
  ASSUME cmds \in [Instances -> Seq(Command)], NEW i \in Instances, cmds[i] # <<>>, Return(i)
  PROVE  Moved(i, 1, <<>>)
<1>1. /\ Tail(cmds[i]) \in Seq(Command) /\ Len(Tail(cmds[i])) = Len(cmds[i]) - 1
      /\ \A n \in 1..Len(Tail(cmds[i])) : Tail(cmds[i])[n] = cmds[i][n + 1]
      /\ Len(cmds[i]) \in Nat /\ 1 <= Len(cmds[i])
  BY HeadTailProperties
<1>2. QED BY <1>1 DEF Moved, Return

LEMMA ThenMoves ==
  ASSUME cmds \in [Instances -> Seq(Command)], NEW i \in Instances, cmds[i] # <<>>,
         NEW c, NEW op, [op |-> op, conn |-> c] \in Command, Then(i, c, op)
  PROVE  Moved(i, 1, <<[op |-> op, conn |-> c]>>)
<1> DEFINE x == [op |-> op, conn |-> c]
           s == Tail(cmds[i])
<1>1. /\ s \in Seq(Command) /\ Len(s) = Len(cmds[i]) - 1
      /\ \A n \in 1..Len(s) : s[n] = cmds[i][n + 1]
      /\ Len(cmds[i]) \in Nat /\ 1 <= Len(cmds[i])
  BY HeadTailProperties
<1>2. cmds' = [cmds EXCEPT ![i] = Append(s, x)] /\ x \in Command
  BY DEF Then
<1> HIDE DEF s, x
<1>3. /\ Append(s, x) \in Seq(Command) /\ Len(Append(s, x)) = Len(s) + 1
      /\ \A n \in 1..Len(s) : Append(s, x)[n] = s[n]
      /\ Append(s, x)[Len(s) + 1] = x
  BY <1>1, <1>2, AppendProperties
<1>4. <<x>> \in Seq(Command) /\ Len(<<x>>) = 1 /\ <<x>>[1] = x
  BY <1>2
<1>5. Moved(i, 1, <<x>>)
  BY <1>1, <1>2, <1>3, <1>4 DEF Moved
<1>6. QED BY <1>5 DEF x

(* What a command was before a step that took k from the head of a queue   *)
(* and put q behind it.                                                    *)
Before(i, k, q, j, n, op, c) ==
  \/ j # i /\ Sent(j, n, op, c)
  \/ j = i /\ n + k <= Len(cmds[i]) /\ Sent(i, n + k, op, c)
  \/ /\ j = i /\ n > Len(cmds[i]) - k
     /\ \E m \in 1..Len(q) : n = Len(cmds[i]) - k + m /\ q[m] = [op |-> op, conn |-> c]

(* Where a command is after a step, it was before, or it is new.           *)
LEMMA SentBefore ==
  ASSUME cmds \in [Instances -> Seq(Command)], NEW i \in Instances, NEW k, NEW q, Moved(i, k, q),
         NEW j \in Instances, NEW n \in Nat, NEW op, NEW c, Sent(j, n, op, c)'
  PROVE  Before(i, k, q, j, n, op, c)
<1>1. Len(cmds[i]) \in Nat /\ Len(q) \in Nat /\ k \in {0, 1} /\ k <= Len(cmds[i])
  BY DEF Moved
<1>2. CASE j # i
  BY <1>2 DEF Sent, Moved, Before
<1>3. CASE j = i /\ n <= Len(cmds[i]) - k
  BY <1>1, <1>3 DEF Sent, Moved, Before
<1>4. CASE j = i /\ n > Len(cmds[i]) - k
  <2>1. n - (Len(cmds[i]) - k) \in 1..Len(q)
    BY <1>1, <1>4 DEF Sent, Moved
  <2>2. Len(cmds[i]) - k + (n - (Len(cmds[i]) - k)) = n
    BY <1>1
  <2>3. q[n - (Len(cmds[i]) - k)] = [op |-> op, conn |-> c]
    BY <2>1, <2>2, <1>4 DEF Sent, Moved
  <2>4. QED BY <1>4, <2>1, <2>2, <2>3 DEF Before
<1>5. QED BY <1>1, <1>2, <1>3, <1>4

(* What was not at the head is still there, and what is new is there.      *)
LEMMA SentAfter ==
  ASSUME cmds \in [Instances -> Seq(Command)], NEW i \in Instances, NEW k, NEW q, Moved(i, k, q),
         NEW op, NEW c
  PROVE  /\ \A j \in Instances \ {i}, n \in Nat : Sent(j, n, op, c) => Sent(j, n, op, c)'
         /\ \A n \in Nat : Sent(i, n, op, c) /\ n > k => Sent(i, n - k, op, c)'
         /\ \A m \in 1..Len(q) : q[m] = [op |-> op, conn |-> c]
                                 => \E n \in Nat : Sent(i, n, op, c)'
<1>1. Len(cmds[i]) \in Nat /\ Len(q) \in Nat /\ k \in {0, 1} /\ k <= Len(cmds[i])
  BY DEF Moved
<1>2. \A j \in Instances \ {i}, n \in Nat : Sent(j, n, op, c) => Sent(j, n, op, c)'
  BY DEF Moved, Sent
<1>3. ASSUME NEW n \in Nat, Sent(i, n, op, c), n > k PROVE Sent(i, n - k, op, c)'
  <2>1. n - k \in 1..(Len(cmds[i]) - k) /\ n - k + k = n /\ n - k \in 1..Len(cmds'[i])
    BY <1>1, <1>3 DEF Sent, Moved
  <2>2. QED BY <1>3, <2>1 DEF Sent, Moved
<1>4. ASSUME NEW m \in 1..Len(q), q[m] = [op |-> op, conn |-> c]
      PROVE  \E n \in Nat : Sent(i, n, op, c)'
  <2>1. PICK p \in Nat : p = Len(cmds[i]) - k + m
    <3>1. Len(cmds[i]) - k + m \in Nat
      BY <1>1
    <3>2. QED BY <3>1
  <2>2. p \in 1..Len(cmds'[i]) /\ cmds'[i][p] = q[m]
    BY <1>1, <2>1 DEF Moved
  <2>3. Sent(i, p, op, c)'
    BY <1>4, <2>2 DEF Sent
  <2>4. QED BY <2>3
<1>5. QED BY <1>2, <1>3, <1>4

(* The order in the queues stays, whatever is added by the rules.          *)
LEMMA QueueKept ==
  ASSUME StreamTypes, QueueInv, NEW i \in Instances, NEW k, NEW q, Moved(i, k, q),
         \A m \in 1..Len(q), c \in Conns :
           /\ q[m] = [op |-> "zrem", conn |-> c] => at'[c] = i /\ stream'[c] # "new"
           /\ q[m] = [op |-> "zadd", conn |-> c] =>
                Len(q) = 1 /\ stream[c] = "new" /\ at'[c] = i /\ stream'[c] # "new",
         \A c \in Conns : stream[c] # "new" => at'[c] = at[c] /\ stream'[c] # "new"
  PROVE  QueueInv'
<1> USE DEF StreamTypes
<1>1. Len(cmds[i]) \in Nat /\ Len(q) \in Nat /\ k \in {0, 1} /\ k <= Len(cmds[i])
  BY DEF Moved
<1>2. ASSUME NEW j \in Instances, NEW c \in Conns, NEW n \in Nat,
             Sent(j, n, "zadd", c)' \/ Sent(j, n, "zrem", c)'
      PROVE  at'[c] = j /\ stream'[c] # "new"
  <2>1. CASE Sent(j, n, "zadd", c)'
    <3>1. \/ Sent(j, n, "zadd", c) \/ (j = i /\ Sent(i, n + k, "zadd", c))
          \/ j = i /\ \E m \in 1..Len(q) : q[m] = [op |-> "zadd", conn |-> c]
      <4>1. Before(i, k, q, j, n, "zadd", c)
        BY <2>1, SentBefore
      <4>2. QED BY <4>1 DEF Before
    <3>2. n + k \in Nat
      BY <1>1
    <3>3. QED BY <3>1, <3>2 DEF QueueInv
  <2>2. CASE Sent(j, n, "zrem", c)'
    <3>1. \/ Sent(j, n, "zrem", c) \/ (j = i /\ Sent(i, n + k, "zrem", c))
          \/ j = i /\ \E m \in 1..Len(q) : q[m] = [op |-> "zrem", conn |-> c]
      <4>1. Before(i, k, q, j, n, "zrem", c)
        BY <2>2, SentBefore
      <4>2. QED BY <4>1 DEF Before
    <3>2. n + k \in Nat
      BY <1>1
    <3>3. QED BY <3>1, <3>2 DEF QueueInv
  <2>3. QED BY <1>2, <2>1, <2>2
<1>3. ASSUME NEW j \in Instances, NEW c \in Conns, NEW m \in Nat, NEW n \in Nat,
             Sent(j, m, "zadd", c)', Sent(j, n, "zadd", c)'
      PROVE  m = n
  <2>1. \/ j # i /\ Sent(j, m, "zadd", c)
        \/ j = i /\ m + k <= Len(cmds[i]) /\ Sent(i, m + k, "zadd", c)
        \/ /\ j = i /\ m > Len(cmds[i]) - k
           /\ \E p \in 1..Len(q) : m = Len(cmds[i]) - k + p /\ q[p] = [op |-> "zadd", conn |-> c]
    <3>1. Before(i, k, q, j, m, "zadd", c)
      BY <1>3, SentBefore
    <3>2. QED BY <3>1 DEF Before
  <2>2. \/ j # i /\ Sent(j, n, "zadd", c)
        \/ j = i /\ n + k <= Len(cmds[i]) /\ Sent(i, n + k, "zadd", c)
        \/ /\ j = i /\ n > Len(cmds[i]) - k
           /\ \E p \in 1..Len(q) : n = Len(cmds[i]) - k + p /\ q[p] = [op |-> "zadd", conn |-> c]
    <3>1. Before(i, k, q, j, n, "zadd", c)
      BY <1>3, SentBefore
    <3>2. QED BY <3>1 DEF Before
  <2>3. n + k \in Nat /\ m + k \in Nat
    BY <1>1
  <2>4. CASE \E p \in 1..Len(q) : q[p] = [op |-> "zadd", conn |-> c]
    <3>1. Len(q) = 1 /\ stream[c] = "new"
      BY <2>4
    <3>2. \A x \in Nat : ~Sent(j, x, "zadd", c) /\ ~Sent(i, x, "zadd", c)
      BY <3>1 DEF QueueInv
    <3>3. m = Len(cmds[i]) - k + 1 /\ n = Len(cmds[i]) - k + 1
      BY <2>1, <2>2, <2>3, <3>1, <3>2
    <3>4. QED BY <3>3
  <2>5. CASE ~\E p \in 1..Len(q) : q[p] = [op |-> "zadd", conn |-> c]
    <3>1. j # i => m = n
      BY <2>1, <2>2, <2>5 DEF QueueInv
    <3>2. j = i => m + k = n + k
      BY <2>1, <2>2, <2>3, <2>5 DEF QueueInv
    <3>3. QED BY <1>1, <3>1, <3>2
  <2>6. QED BY <2>4, <2>5
<1>4. ASSUME NEW j \in Instances, NEW c \in Conns, NEW m \in Nat, NEW n \in Nat,
             Sent(j, m, "zadd", c)', Sent(j, n, "zrem", c)'
      PROVE  m < n
  <2>1. \/ j # i /\ Sent(j, m, "zadd", c)
        \/ j = i /\ m + k <= Len(cmds[i]) /\ Sent(i, m + k, "zadd", c)
        \/ /\ j = i /\ m > Len(cmds[i]) - k
           /\ \E p \in 1..Len(q) : m = Len(cmds[i]) - k + p /\ q[p] = [op |-> "zadd", conn |-> c]
    <3>1. Before(i, k, q, j, m, "zadd", c)
      BY <1>4, SentBefore
    <3>2. QED BY <3>1 DEF Before
  <2>2. \/ j # i /\ Sent(j, n, "zrem", c)
        \/ j = i /\ n + k <= Len(cmds[i]) /\ Sent(i, n + k, "zrem", c)
        \/ /\ j = i /\ n > Len(cmds[i]) - k
           /\ \E p \in 1..Len(q) : n = Len(cmds[i]) - k + p /\ q[p] = [op |-> "zrem", conn |-> c]
    <3>1. Before(i, k, q, j, n, "zrem", c)
      BY <1>4, SentBefore
    <3>2. QED BY <3>1 DEF Before
  <2>3. n + k \in Nat /\ m + k \in Nat
    BY <1>1
  <2>4. CASE \E p \in 1..Len(q) : q[p] = [op |-> "zadd", conn |-> c]
    <3>1. PICK p \in 1..Len(q) : q[p] = [op |-> "zadd", conn |-> c]
      BY <2>4
    <3>2. Len(q) = 1 /\ stream[c] = "new"
      BY <3>1
    <3>3. \A x \in Nat : ~Sent(j, x, "zrem", c) /\ ~Sent(i, x, "zrem", c)
      BY <3>2 DEF QueueInv
    <3>4. PICK r \in 1..Len(q) : q[r] = [op |-> "zrem", conn |-> c]
      BY <2>2, <2>3, <3>3
    <3>5. r = 1 /\ p = 1
      BY <3>2, <3>4
    <3>6. QED BY <3>1, <3>2, <3>4, <3>5
  <2>5. CASE ~\E p \in 1..Len(q) : q[p] = [op |-> "zadd", conn |-> c]
    <3>1. CASE j # i
      BY <2>1, <2>2, <3>1 DEF QueueInv
    <3>2. CASE j = i
      <4>1. m + k <= Len(cmds[i]) /\ Sent(i, m + k, "zadd", c)
        BY <2>1, <2>5, <3>2
      <4>2. CASE Sent(i, n + k, "zrem", c)
        <5>1. m + k < n + k
          BY <2>3, <4>1, <4>2 DEF QueueInv
        <5>2. QED BY <1>1, <5>1
      <4>3. CASE n > Len(cmds[i]) - k
        BY <1>1, <4>1, <4>3
      <4>4. QED BY <2>2, <3>2, <4>2, <4>3
    <3>3. QED BY <3>1, <3>2
  <2>6. QED BY <2>4, <2>5
<1>5. QED BY <1>2, <1>3, <1>4, Zenon DEF QueueInv

(* The streams torn down are closed, and each of them is to be removed.    *)
LEMMA OrderOf ==
  ASSUME NEW closing \in SUBSET Conns, NEW order \in SetToSeqs(closing)
  PROVE  LET q == [n \in DOMAIN order |-> Unregister(order[n])] IN
         /\ q \in Seq(Command)
         /\ \A n \in 1..Len(q) : \E c \in closing : q[n] = [op |-> "zrem", conn |-> c]
         /\ \A c \in closing : \E n \in 1..Len(q) : q[n] = [op |-> "zrem", conn |-> c]
<1> DEFINE k == Cardinality(closing)
           q == [n \in DOMAIN order |-> Unregister(order[n])]
<1>1. IsFiniteSet(closing) /\ k \in Nat
  BY StreamAssumption, FS_Subset, FS_CardinalityType
<1>2. order \in [1..k -> closing] /\ \A m, n \in 1..k : m # n => order[m] # order[n]
  BY DEF SetToSeqs
<1>3. \A c \in closing : \E n \in 1..k : order[n] = c
  <2>1. order \in Injection(1..k, closing)
    BY <1>2 DEF Injection, IsInjective
  <2>2. Cardinality(1..k) = k
    BY <1>1, FS_Interval
  <2>3. order \in Surjection(1..k, closing)
    BY <1>1, <2>1, <2>2, FS_Injection
  <2>4. QED BY <2>3 DEF Surjection
<1> HIDE DEF k
<1>4. DOMAIN order = 1..k /\ \A n \in 1..k : Unregister(order[n]) \in Command
  BY <1>2 DEF Unregister, Command
<1>5. q \in [1..k -> Command] /\ q \in Seq(Command) /\ Len(q) = k
  BY <1>1, <1>4
<1>6. \A n \in 1..k : q[n] = [op |-> "zrem", conn |-> order[n]]
  BY <1>4 DEF Unregister
<1>7. QED BY <1>2, <1>3, <1>5, <1>6

Closed(closing, q) ==
  /\ q \in Seq(Command)
  /\ \A n \in 1..Len(q) : \E c \in closing : q[n] = [op |-> "zrem", conn |-> c]
  /\ \A c \in closing : \E n \in 1..Len(q) : q[n] = [op |-> "zrem", conn |-> c]

LEMMA TeardownMoves ==
  ASSUME cmds \in [Instances -> Seq(Command)], NEW i \in Instances,
         NEW closing \in SUBSET Conns, Teardown(closing, i)
  PROVE  \E q : Moved(i, 0, q) /\ Closed(closing, q)
<1>1. PICK order \in SetToSeqs(closing) :
        cmds' = [cmds EXCEPT ![i] = @ \o [n \in DOMAIN order |-> Unregister(order[n])]]
  BY DEF Teardown
<1> DEFINE q == [n \in DOMAIN order |-> Unregister(order[n])]
<1>2. Closed(closing, q)
  BY OrderOf DEF Closed
<1>3. cmds' = [cmds EXCEPT ![i] = @ \o q]
  BY <1>1
<1> HIDE DEF q
<1>4. Moved(i, 0, q)
  BY <1>2, <1>3, ConcatMoves DEF Closed
<1>5. QED BY <1>2, <1>4

(* What a teardown does to the streams, the queues and what is counted.    *)
LEMMA TeardownKeeps ==
  ASSUME StreamTypes, QueueInv, CountInv, NEW i \in Instances, NEW closing \in SUBSET OpenAt(i),
         Teardown(closing, i), UNCHANGED <<at, zset, dead>>,
         local' \in [Instances -> SUBSET Conns]
  PROVE  StreamTypes' /\ QueueInv' /\ CountInv'
<1>1. PICK q : Moved(i, 0, q) /\ Closed(closing, q)
  BY TeardownMoves DEF StreamTypes, OpenAt
<1>2. /\ \A c \in Conns : stream'[c] = IF c \in closing THEN "closed" ELSE stream[c]
      /\ \A c \in closing : c \in Conns /\ stream[c] = "open" /\ at[c] = i
      /\ stream' \in [Conns -> {"new", "open", "closed"}]
      /\ at' = at /\ zset' = zset /\ dead' = dead
  BY DEF Teardown, OpenAt, StreamTypes
<1>3. StreamTypes'
  BY <1>1, <1>2 DEF StreamTypes, Moved
<1>4. \A n \in 1..Len(q) : \E c \in closing : q[n].op = "zrem" /\ q[n].conn = c
  <2> SUFFICES ASSUME NEW n \in 1..Len(q)
               PROVE  \E c \in closing : q[n].op = "zrem" /\ q[n].conn = c
    OBVIOUS
  <2>1. PICK c \in closing : q[n] = [op |-> "zrem", conn |-> c]
    BY <1>1 DEF Closed
  <2>2. QED BY <2>1
<1>5. QueueInv'
  <2>1. \A m \in 1..Len(q), c \in Conns :
          /\ q[m] = [op |-> "zrem", conn |-> c] => at'[c] = i /\ stream'[c] # "new"
          /\ q[m] # [op |-> "zadd", conn |-> c]
    <3> SUFFICES ASSUME NEW m \in 1..Len(q), NEW c \in Conns
                 PROVE  /\ q[m] = [op |-> "zrem", conn |-> c] => at'[c] = i /\ stream'[c] # "new"
                        /\ q[m] # [op |-> "zadd", conn |-> c]
      OBVIOUS
    <3>1. PICK d \in closing : q[m].op = "zrem" /\ q[m].conn = d
      BY <1>4
    <3>2. QED BY <1>2, <3>1
  <2>2. \A c \in Conns : stream[c] # "new" => at'[c] = at[c] /\ stream'[c] # "new"
    BY <1>2
  <2>3. QED BY <1>1, <2>1, <2>2, QueueKept
<1>6. \A j \in Instances, c \in Conns, n \in Nat : Sent(j, n, "zadd", c)' => Sent(j, n, "zadd", c)
  <2> SUFFICES ASSUME NEW j \in Instances, NEW c \in Conns, NEW n \in Nat, Sent(j, n, "zadd", c)'
               PROVE  Sent(j, n, "zadd", c)
    OBVIOUS
  <2>1. \/ j # i /\ Sent(j, n, "zadd", c)
        \/ j = i /\ n + 0 <= Len(cmds[i]) /\ Sent(i, n + 0, "zadd", c)
        \/ /\ j = i /\ n > Len(cmds[i]) - 0
           /\ \E m \in 1..Len(q) : n = Len(cmds[i]) - 0 + m /\ q[m] = [op |-> "zadd", conn |-> c]
    <3>1. Before(i, 0, q, j, n, "zadd", c)
      BY <1>1, SentBefore DEF StreamTypes
    <3>2. QED BY <3>1 DEF Before
  <2>2. ~\E m \in 1..Len(q) : q[m] = [op |-> "zadd", conn |-> c]
    BY <1>4
  <2>3. n + 0 = n
    OBVIOUS
  <2>4. QED BY <2>1, <2>2, <2>3
<1>7. \A j \in Instances, c \in Conns, n \in Nat :
        Sent(j, n, "zrem", c) => \E m \in Nat : Sent(j, m, "zrem", c)'
  <2> SUFFICES ASSUME NEW j \in Instances, NEW c \in Conns, NEW n \in Nat, Sent(j, n, "zrem", c)
               PROVE  \E m \in Nat : Sent(j, m, "zrem", c)'
    OBVIOUS
  <2>1. CASE j # i
    BY <1>1, <2>1, SentAfter DEF StreamTypes
  <2>2. CASE j = i
    <3>1. n > 0 /\ n - 0 = n
      BY DEF Sent
    <3>2. Sent(i, n - 0, "zrem", c)'
      BY <1>1, <2>2, <3>1, SentAfter DEF StreamTypes
    <3>3. QED BY <2>2, <3>1, <3>2
  <2>3. QED BY <2>1, <2>2
<1>8. \A c \in closing : \E n \in Nat : Sent(i, n, "zrem", c)'
  <2> SUFFICES ASSUME NEW c \in closing PROVE \E n \in Nat : Sent(i, n, "zrem", c)'
    OBVIOUS
  <2>1. PICK m \in 1..Len(q) : q[m] = [op |-> "zrem", conn |-> c]
    BY <1>1 DEF Closed
  <2>2. QED BY <1>1, <2>1, SentAfter DEF StreamTypes
<1>9. CountInv'
  <2>1. Once(zset') /\ \A c \in ToSet(zset') : stream'[c] # "new"
    <3>1. \A c \in ToSet(zset) : c \in Conns
      BY MembersType DEF StreamTypes
    <3>2. QED BY <1>2, <3>1 DEF CountInv
  <2>2. \A j \in Instances, c \in Conns, n \in Nat : Sent(j, n, "zadd", c)' => c \notin ToSet(zset')
    BY <1>2, <1>6 DEF CountInv
  <2>3. ASSUME NEW c \in Conns, stream'[c] = "closed", at'[c] \notin dead'
        PROVE  \/ \E n \in Nat : Sent(at[c], n, "zrem", c)'
               \/ c \notin ToSet(zset') /\ \A n \in Nat : ~Sent(at[c], n, "zadd", c)'
    <3> DEFINE j == at[c]
    <3>1. CASE c \in closing
      BY <1>2, <1>8, <3>1
    <3>2. CASE c \notin closing
      <4>1. /\ stream[c] = "closed" /\ at[c] \in Instances
            /\ \/ \E n \in Nat : Sent(at[c], n, "zrem", c)
               \/ c \notin ToSet(zset) /\ \A n \in Nat : ~Sent(at[c], n, "zadd", c)
        BY <1>2, <2>3, <3>2 DEF CountInv, StreamTypes
      <4>2. QED BY <1>2, <1>6, <1>7, <4>1
    <3>3. QED BY <3>1, <3>2
  <2>4. QED BY <1>2, <2>1, <2>2, <2>3 DEF CountInv
<1>10. QED BY <1>3, <1>5, <1>9

GhostInv == StreamTypes /\ QueueInv /\ CountInv

LEMMA OpenGhost ==
  ASSUME GhostInv, NEW c \in Conns, NEW i \in Instances, Open(c, i) PROVE GhostInv'
<1> USE DEF GhostInv
<1> DEFINE x == [op |-> "zadd", conn |-> c]
           q == <<x>>
<1>1. x \in Command /\ q \in Seq(Command) /\ Len(q) = 1 /\ q[1] = x
  BY DEF Command
<1>2. Moved(i, 0, q)
  BY <1>1, AppendMoves DEF Open, StreamTypes
<1> HIDE DEF q
<1>3. /\ stream[c] = "new" /\ stream'[c] = "open" /\ at'[c] = i
      /\ \A d \in Conns \ {c} : stream'[d] = stream[d] /\ at'[d] = at[d]
      /\ stream' \in [Conns -> {"new", "open", "closed"}]
      /\ at' \in [Conns -> Instances \union {NoInstance}]
      /\ zset' = zset /\ local' = local /\ dead' = dead
  BY DEF Open, StreamTypes
<1>4. StreamTypes'
  BY <1>2, <1>3 DEF StreamTypes, Moved
<1>5. \A m \in 1..Len(q) : q[m] = x
  BY <1>1
<1>6. QueueInv'
  <2>1. \A m \in 1..Len(q), d \in Conns :
          /\ q[m] = [op |-> "zrem", conn |-> d] => at'[d] = i /\ stream'[d] # "new"
          /\ q[m] = [op |-> "zadd", conn |-> d] =>
               Len(q) = 1 /\ stream[d] = "new" /\ at'[d] = i /\ stream'[d] # "new"
    <3> HIDE DEF x
    <3>1. x.op = "zadd" /\ x.conn = c
      BY DEF x
    <3>2. QED BY <1>1, <1>3, <1>5, <3>1
  <2>2. \A d \in Conns : stream[d] # "new" => at'[d] = at[d] /\ stream'[d] # "new"
    BY <1>3
  <2> HIDE DEF x
  <2>3. QED BY <1>2, <2>1, <2>2, QueueKept
<1>7. \A j \in Instances, d \in Conns, n \in Nat :
        Sent(j, n, "zadd", d)' => d = c \/ Sent(j, n, "zadd", d)
  <2> SUFFICES ASSUME NEW j \in Instances, NEW d \in Conns, NEW n \in Nat, Sent(j, n, "zadd", d)'
               PROVE  d = c \/ Sent(j, n, "zadd", d)
    OBVIOUS
  <2>1. \/ j # i /\ Sent(j, n, "zadd", d)
        \/ j = i /\ n + 0 <= Len(cmds[i]) /\ Sent(i, n + 0, "zadd", d)
        \/ /\ j = i /\ n > Len(cmds[i]) - 0
           /\ \E m \in 1..Len(q) : /\ n = Len(cmds[i]) - 0 + m
                                       /\ q[m] = [op |-> "zadd", conn |-> d]
    <3>1. Before(i, 0, q, j, n, "zadd", d)
      BY <1>2, SentBefore DEF StreamTypes
    <3>2. QED BY <3>1 DEF Before
  <2>2. (\E m \in 1..Len(q) : q[m] = [op |-> "zadd", conn |-> d]) => d = c
    BY <1>5
  <2>3. n + 0 = n
    OBVIOUS
  <2>4. QED BY <2>1, <2>2, <2>3
<1>8. \A j \in Instances, d \in Conns, n \in Nat :
        Sent(j, n, "zrem", d) => \E m \in Nat : Sent(j, m, "zrem", d)'
  <2> SUFFICES ASSUME NEW j \in Instances, NEW d \in Conns, NEW n \in Nat, Sent(j, n, "zrem", d)
               PROVE  \E m \in Nat : Sent(j, m, "zrem", d)'
    OBVIOUS
  <2>1. CASE j # i
    BY <1>2, <2>1, SentAfter DEF StreamTypes
  <2>2. CASE j = i
    <3>1. n > 0 /\ n - 0 = n
      BY DEF Sent
    <3>2. Sent(i, n - 0, "zrem", d)'
      BY <1>2, <2>2, <3>1, SentAfter DEF StreamTypes
    <3>3. QED BY <2>2, <3>1, <3>2
  <2>3. QED BY <2>1, <2>2
<1>9. CountInv'
  <2>1. \A d \in ToSet(zset) : d \in Conns /\ d # c
    BY <1>3, MembersType DEF StreamTypes, CountInv
  <2>2. Once(zset') /\ \A d \in ToSet(zset') : stream'[d] # "new"
    BY <1>3, <2>1 DEF CountInv
  <2>3. \A j \in Instances, d \in Conns, n \in Nat : Sent(j, n, "zadd", d)' => d \notin ToSet(zset')
    BY <1>3, <1>7, <2>1 DEF CountInv
  <2>4. ASSUME NEW d \in Conns, stream'[d] = "closed", at'[d] \notin dead'
        PROVE  \/ \E n \in Nat : Sent(at[d], n, "zrem", d)'
               \/ d \notin ToSet(zset') /\ \A n \in Nat : ~Sent(at[d], n, "zadd", d)'
    <3>1. /\ d # c /\ stream[d] = "closed" /\ at[d] \in Instances
          /\ \/ \E n \in Nat : Sent(at[d], n, "zrem", d)
             \/ d \notin ToSet(zset) /\ \A n \in Nat : ~Sent(at[d], n, "zadd", d)
      BY <1>3, <2>4 DEF CountInv, StreamTypes
    <3>2. QED BY <1>3, <1>7, <1>8, <3>1
  <2>5. \A d \in Conns : stream'[d] = "closed" => at'[d] = at[d]
    BY <1>3
  <2>6. QED BY <2>2, <2>3, <2>4, <2>5 DEF CountInv
<1>10. QED BY <1>4, <1>6, <1>9

(* A command executed leaves the queue; one that may follow it adds or     *)
(* removes no stream.                                                      *)
LEMMA ExecuteMoves ==
  ASSUME StreamTypes, NEW i \in Instances, Execute(i)
  PROVE  /\ cmds[i] # <<>> /\ Head(cmds[i]) = cmds[i][1] /\ cmds[i][1] \in Command
         /\ 1 \in 1..Len(cmds[i])
         /\ \E q : Moved(i, 1, q) /\ \A m \in 1..Len(q) : q[m].op \notin {"zadd", "zrem"}
<1> DEFINE x == Head(cmds[i])
           Quiet(q) == Moved(i, 1, q) /\ \A m \in 1..Len(q) : q[m].op \notin {"zadd", "zrem"}
<1>1. cmds[i] \in Seq(Command) /\ cmds[i] # <<>>
  BY DEF Execute, StreamTypes
<1>2. x = cmds[i][1] /\ x \in Command /\ x.conn \in Conns /\ 1 \in 1..Len(cmds[i])
  <2>1. x = cmds[i][1] /\ x \in Command /\ 1 \in 1..Len(cmds[i])
    BY <1>1, HeadTailProperties
  <2>2. QED BY <2>1 DEF Command
<1>3. ASSUME Return(i) PROVE \E q : Quiet(q)
  <2>1. Moved(i, 1, <<>>)
    BY <1>1, <1>3, ReturnMoves DEF StreamTypes
  <2>2. Quiet(<<>>)
    BY <2>1
  <2>3. QED BY <2>2
<1>4. ASSUME NEW op \in {"expire", "zcard", "zrange", "evict", "publish"}, NEW c \in Conns,
             Then(i, c, op)
      PROVE  \E q : Quiet(q)
  <2> DEFINE y == [op |-> op, conn |-> c]
  <2>1. y \in Command /\ y.op \notin {"zadd", "zrem"}
    BY DEF Command
  <2>2. Moved(i, 1, <<y>>)
    BY <1>1, <1>4, <2>1, ThenMoves DEF StreamTypes
  <2> HIDE DEF y
  <2>3. Quiet(<<y>>)
    BY <2>1, <2>2
  <2>4. QED BY <2>3
<1>5. zset # <<>> => Head(zset) \in Conns
  BY DEF StreamTypes
<1> HIDE DEF Quiet
<1>6. \E q : Quiet(q)
  BY <1>2, <1>3, <1>4, <1>5
  DEF Execute, Zadd, Expire, Zcard, Zrange, Evict, Publish, Zrem
<1>7. QED BY <1>1, <1>2, <1>6 DEF Quiet

(* What a command executed does to what is counted.                        *)
LEMMA ExecuteCounts ==
  ASSUME StreamTypes, CountInv, NEW i \in Instances, Execute(i)
  PROVE  LET x == cmds[i][1] IN
         /\ zset' \in Seq(Conns) /\ Once(zset')
         /\ x.op = "zadd" => ToSet(zset') = ToSet(zset) \cup {x.conn} /\ Len(zset') = Len(zset) + 1
         /\ x.op \in {"evict", "zrem"} => ToSet(zset') = ToSet(zset) \ {x.conn}
         /\ x.op \notin {"zadd", "evict", "zrem"} => zset' = zset
<1> DEFINE x == cmds[i][1]
           c == x.conn
<1>1. x \in Command /\ c \in Conns /\ Sent(i, 1, x.op, c) /\ Head(cmds[i]) = x
  BY ExecuteMoves DEF Command, Sent
<1>2. zset \in Seq(Conns) /\ Once(zset)
  BY DEF StreamTypes, CountInv
<1>3. CASE x.op = "zadd"
  <2>1. PICK n \in 1..(Len(zset) + 1) : zset' = InsertAt(zset, n, c)
    BY <1>1, <1>3 DEF Execute, Zadd
  <2>2. c \notin ToSet(zset)
    BY <1>1, <1>3 DEF CountInv
  <2>3. QED BY <1>1, <1>2, <1>3, <2>1, <2>2, InsertCounts
<1>4. CASE x.op \in {"evict", "zrem"}
  <2>1. zset' = Without(c)
    BY <1>1, <1>4 DEF Execute, Evict, Zrem
  <2>2. QED BY <1>1, <1>2, <1>4, <2>1, WithoutIs
<1>5. CASE x.op \notin {"zadd", "evict", "zrem"}
  <2>1. zset' = zset
    BY <1>1, <1>5 DEF Execute, Expire, Zcard, Zrange, Publish
  <2>2. QED BY <1>2, <1>5, <2>1
<1>6. QED BY <1>3, <1>4, <1>5

LEMMA ExecuteGhost == ASSUME GhostInv, NEW i \in Instances, Execute(i) PROVE GhostInv'
<1> USE DEF GhostInv
<1> DEFINE x == cmds[i][1]
           c == x.conn
<1>1. PICK q : Moved(i, 1, q) /\ \A m \in 1..Len(q) : q[m].op \notin {"zadd", "zrem"}
  BY ExecuteMoves
<1>2. /\ x \in Command /\ c \in Conns /\ x = [op |-> x.op, conn |-> c] /\ Sent(i, 1, x.op, c)
      /\ Head(cmds[i]) = x
  BY ExecuteMoves DEF Command, Sent
<1>3. /\ stream' = stream /\ at' = at /\ dead' = dead
  BY DEF Execute
<1>4. /\ zset' \in Seq(Conns) /\ Once(zset')
      /\ x.op = "zadd" => ToSet(zset') = ToSet(zset) \cup {c}
      /\ x.op # "zadd" => ToSet(zset') \subseteq ToSet(zset)
      /\ x.op = "zrem" => c \notin ToSet(zset')
  BY ExecuteCounts
<1>5. local' \in [Instances -> SUBSET Conns]
  <2>1. local' = local \/ local' = [local EXCEPT ![i] = @ \union {c}]
        \/ local' = [local EXCEPT ![i] = @ \ {c}]
    BY <1>2 DEF Execute, Zadd, Expire, Zcard, Zrange, Evict, Publish, Zrem
  <2>2. c \in Conns
    BY <1>2
  <2> HIDE DEF c
  <2>3. QED BY <2>1, <2>2 DEF StreamTypes
<1>6. StreamTypes'
  BY <1>1, <1>3, <1>4, <1>5 DEF StreamTypes, Moved
<1>7. QueueInv'
  <2>1. \A m \in 1..Len(q), d \in Conns :
          q[m] # [op |-> "zrem", conn |-> d] /\ q[m] # [op |-> "zadd", conn |-> d]
    BY <1>1
  <2>2. QED BY <1>1, <1>3, <2>1, QueueKept
<1>8. \A j \in Instances, d \in Conns, n \in Nat :
        Sent(j, n, "zadd", d)' => \E m \in Nat : /\ Sent(j, m, "zadd", d)
                                                 /\ j = i => m > 1
  <2> SUFFICES ASSUME NEW j \in Instances, NEW d \in Conns, NEW n \in Nat, Sent(j, n, "zadd", d)'
               PROVE  \E m \in Nat : Sent(j, m, "zadd", d) /\ (j = i => m > 1)
    OBVIOUS
  <2>1. \/ j # i /\ Sent(j, n, "zadd", d)
        \/ j = i /\ n + 1 <= Len(cmds[i]) /\ Sent(i, n + 1, "zadd", d)
        \/ /\ j = i /\ n > Len(cmds[i]) - 1
           /\ \E m \in 1..Len(q) : n = Len(cmds[i]) - 1 + m /\ q[m] = [op |-> "zadd", conn |-> d]
    <3>1. Before(i, 1, q, j, n, "zadd", d)
      BY <1>1, SentBefore DEF StreamTypes
    <3>2. QED BY <3>1 DEF Before
  <2>2. ~\E m \in 1..Len(q) : q[m] = [op |-> "zadd", conn |-> d]
    BY <1>1
  <2>3. n >= 1 /\ n + 1 \in Nat
    BY DEF Sent
  <2>4. CASE j # i
    BY <2>1, <2>4
  <2>5. CASE j = i
    <3>1. Sent(i, n + 1, "zadd", d) /\ n + 1 > 1
      BY <2>1, <2>2, <2>3, <2>5
    <3>2. QED BY <2>3, <2>5, <3>1
  <2>6. QED BY <2>4, <2>5
<1>9. \A j \in Instances, d \in Conns, n \in Nat :
        Sent(j, n, "zrem", d) => \/ \E m \in Nat : Sent(j, m, "zrem", d)'
                                 \/ j = i /\ n = 1
  <2> SUFFICES ASSUME NEW j \in Instances, NEW d \in Conns, NEW n \in Nat, Sent(j, n, "zrem", d),
                      ~(j = i /\ n = 1)
               PROVE  \E m \in Nat : Sent(j, m, "zrem", d)'
    OBVIOUS
  <2>1. CASE j # i
    BY <1>1, <2>1, SentAfter DEF StreamTypes
  <2>2. CASE j = i
    <3>1. n > 1 /\ n - 1 \in Nat
      BY <2>2 DEF Sent
    <3>2. Sent(i, n - 1, "zrem", d)'
      BY <1>1, <2>2, <3>1, SentAfter DEF StreamTypes
    <3>3. QED BY <2>2, <3>1, <3>2
  <2>3. QED BY <2>1, <2>2
<1>10. CountInv'
  <2>1. stream[c] # "new" \/ x.op # "zadd"
    BY <1>2 DEF QueueInv
  <2>2. \A d \in ToSet(zset') : stream'[d] # "new"
    BY <1>3, <1>4, <2>1 DEF CountInv
  <2>3. ASSUME NEW j \in Instances, NEW d \in Conns, NEW n \in Nat, Sent(j, n, "zadd", d)'
        PROVE  d \notin ToSet(zset')
    <3>1. PICK m \in Nat : Sent(j, m, "zadd", d) /\ (j = i => m > 1)
      BY <1>8, <2>3
    <3>2. d \notin ToSet(zset)
      BY <3>1 DEF CountInv
    <3>3. ASSUME x.op = "zadd" PROVE d # c
      <4>1. SUFFICES ASSUME d = c PROVE FALSE
        OBVIOUS
      <4>2. at[c] = i /\ at[c] = j
        BY <1>2, <3>1, <3>3, <4>1 DEF QueueInv
      <4>3. m = 1
        BY <1>2, <3>1, <3>3, <4>1, <4>2 DEF QueueInv
      <4>4. QED BY <3>1, <4>2, <4>3
    <3>4. QED BY <1>4, <3>2, <3>3
  <2>4. ASSUME NEW d \in Conns, NEW j \in Instances, stream[d] = "closed", at[d] = j, j \notin dead
        PROVE  \/ \E n \in Nat : Sent(j, n, "zrem", d)'
               \/ d \notin ToSet(zset') /\ \A n \in Nat : ~Sent(j, n, "zadd", d)'
    <3>2. CASE \E n \in Nat : Sent(j, n, "zrem", d)
      <4>1. PICK n \in Nat : Sent(j, n, "zrem", d)
        BY <3>2
      <4>2. CASE \E m \in Nat : Sent(j, m, "zrem", d)'
        BY <4>2
      <4>3. CASE j = i /\ n = 1
        <5>1. x.op = "zrem" /\ d = c
          BY <4>1, <4>3 DEF Sent
        <5>2. ASSUME NEW m \in Nat, Sent(i, m, "zadd", d)' PROVE FALSE
          <6>1. PICK p \in Nat : Sent(i, p, "zadd", d) /\ p > 1
            BY <1>8, <5>2
          <6>2. p < 1
            BY <4>1, <4>3, <6>1 DEF QueueInv
          <6>3. QED BY <6>1, <6>2
        <5>3. QED BY <1>4, <4>3, <5>1, <5>2
      <4>4. QED BY <1>9, <4>1, <4>2, <4>3
    <3>3. CASE d \notin ToSet(zset) /\ \A n \in Nat : ~Sent(j, n, "zadd", d)
      <4>1. \A n \in Nat : ~Sent(j, n, "zadd", d)'
        BY <1>8, <3>3
      <4>2. x.op = "zadd" => d # c
        BY <1>2, <2>4, <3>3 DEF QueueInv
      <4>3. QED BY <1>4, <3>3, <4>1, <4>2
    <3>4. QED BY <2>4, <3>2, <3>3 DEF CountInv
  <2>5. ASSUME NEW d \in Conns, stream'[d] = "closed", at'[d] \notin dead'
        PROVE  \/ \E n \in Nat : Sent(at[d], n, "zrem", d)'
               \/ d \notin ToSet(zset') /\ \A n \in Nat : ~Sent(at[d], n, "zadd", d)'
    <3>1. at'[d] = at[d] /\ at[d] \in Instances /\ stream[d] = "closed" /\ at[d] \notin dead
      BY <1>3, <2>5 DEF StreamTypes
    <3>2. QED BY <2>4, <3>1
  <2>6. QED BY <1>4, <2>2, <2>3, <2>5 DEF CountInv
<1>11. QED BY <1>6, <1>7, <1>10

LEMMA CloseGhost ==
  ASSUME GhostInv, (\E c \in Conns : ClientClose(c)) \/ DeliverEviction
                   \/ \E i \in Instances : DeliverDone(i)
  PROVE  GhostInv'
<1> USE DEF GhostInv
<1>1. ASSUME NEW c \in Conns, ClientClose(c) PROVE GhostInv'
  <2>1. PICK i \in Instances : at[c] = i
    BY <1>1 DEF ClientClose, StreamTypes
  <2>2. {c} \in SUBSET OpenAt(i) /\ Teardown({c}, i)
    BY <1>1, <2>1 DEF ClientClose, OpenAt
  <2>3. UNCHANGED <<at, zset, dead>> /\ local' \in [Instances -> SUBSET Conns]
    BY <1>1 DEF ClientClose, StreamTypes
  <2>4. QED BY <2>2, <2>3, TeardownKeeps
<1>2. ASSUME NEW i \in Instances, DeliverDone(i) PROVE GhostInv'
  <2>1. OpenAt(i) \in SUBSET OpenAt(i) /\ Teardown(OpenAt(i), i)
    BY <1>2 DEF DeliverDone
  <2>2. UNCHANGED <<at, zset, dead>> /\ local' \in [Instances -> SUBSET Conns]
    BY <1>2 DEF DeliverDone, StreamTypes
  <2>3. QED BY <2>1, <2>2, TeardownKeeps
<1>3. CASE DeliverEviction
  <2>1. PICK i \in Instances, m \in evictBox :
          /\ local' = [local EXCEPT ![i] = @ \ Evicted(i, m)]
          /\ Teardown(Evicted(i, m) \cap OpenAt(i), i)
    BY <1>3 DEF DeliverEviction
  <2>2. UNCHANGED <<at, zset, dead>>
    BY <1>3 DEF DeliverEviction
  <2>3. local' \in [Instances -> SUBSET Conns]
    BY <2>1 DEF StreamTypes
  <2>4. Evicted(i, m) \cap OpenAt(i) \in SUBSET OpenAt(i)
    OBVIOUS
  <2>5. QED BY <2>1, <2>2, <2>3, <2>4, TeardownKeeps
<1>4. QED BY <1>1, <1>2, <1>3

LEMMA ExpiresGhost == ASSUME GhostInv, KeyExpires PROVE GhostInv'
<1>1. /\ UNCHANGED <<stream, at, local, cmds, dead>> /\ zset' = <<>> /\ ToSet(zset') = {}
      /\ zset' \in Seq(Conns) /\ Once(zset')
  BY DEF KeyExpires, ToSet, Once
<1>2. StreamTypes' /\ QueueInv'
  BY <1>1 DEF GhostInv, StreamTypes, QueueInv, Sent
<1>3. CountInv'
  BY <1>1 DEF GhostInv, CountInv, Sent
<1>4. QED BY <1>2, <1>3 DEF GhostInv

LEMMA DiesGhost == ASSUME GhostInv, NEW i \in Instances, InstanceDies(i) PROVE GhostInv'
<1> USE DEF GhostInv
<1>1. /\ at' = at /\ zset' = zset /\ dead' = dead \union {i}
      /\ \A c \in Conns : stream'[c] = IF stream[c] = "open" /\ at[c] = i THEN "closed" ELSE stream[c]
      /\ stream' \in [Conns -> {"new", "open", "closed"}]
      /\ local' \in [Instances -> SUBSET Conns]
      /\ cmds' \in [Instances -> Seq(Command)] /\ cmds'[i] = <<>>
      /\ \A j \in Instances \ {i} : cmds'[j] = cmds[j]
  BY DEF InstanceDies, OpenAt, StreamTypes
<1>2. StreamTypes'
  BY <1>1 DEF StreamTypes
<1>3. \A j \in Instances, c \in Conns, n \in Nat, op \in {"zadd", "zrem"} :
       Sent(j, n, op, c)' => j # i /\ Sent(j, n, op, c)
  BY <1>1 DEF Sent
<1>4. QueueInv'
  <2>1. \A c \in Conns : stream[c] # "new" => at'[c] = at[c] /\ stream'[c] # "new"
    BY <1>1
  <2>2. ASSUME NEW j \in Instances, NEW c \in Conns, NEW n \in Nat,
               Sent(j, n, "zadd", c)' \/ Sent(j, n, "zrem", c)'
        PROVE  at'[c] = j /\ stream'[c] # "new"
    BY <1>3, <2>1, <2>2 DEF QueueInv
  <2>3. \A j \in Instances, c \in Conns, m, n \in Nat :
          Sent(j, m, "zadd", c)' /\ Sent(j, n, "zadd", c)' => m = n
    BY <1>3 DEF QueueInv
  <2>4. \A j \in Instances, c \in Conns, m, n \in Nat :
          Sent(j, m, "zadd", c)' /\ Sent(j, n, "zrem", c)' => m < n
    BY <1>3 DEF QueueInv
  <2>5. QED BY <2>2, <2>3, <2>4, Zenon DEF QueueInv
<1>5. \A c \in ToSet(zset) : c \in Conns
  BY MembersType DEF StreamTypes
<1>6. CountInv'
  <2>1. Once(zset') /\ \A c \in ToSet(zset') : stream'[c] # "new"
    BY <1>1, <1>5 DEF CountInv
  <2>2. \A j \in Instances, c \in Conns, n \in Nat : Sent(j, n, "zadd", c)' => c \notin ToSet(zset')
    BY <1>1, <1>3 DEF CountInv
  <2>3. ASSUME NEW c \in Conns, NEW j \in Instances, stream'[c] = "closed", at[c] = j, j \notin dead'
        PROVE  \/ \E n \in Nat : Sent(j, n, "zrem", c)'
               \/ c \notin ToSet(zset') /\ \A n \in Nat : ~Sent(j, n, "zadd", c)'
    <3>1. j # i /\ stream[c] = "closed" /\ j \notin dead /\ cmds'[j] = cmds[j]
      BY <1>1, <2>3
    <3>2. \/ \E n \in Nat : Sent(j, n, "zrem", c)
          \/ c \notin ToSet(zset) /\ \A n \in Nat : ~Sent(j, n, "zadd", c)
      BY <2>3, <3>1 DEF CountInv
    <3>3. \A n \in Nat : /\ Sent(j, n, "zrem", c)' <=> Sent(j, n, "zrem", c)
                         /\ Sent(j, n, "zadd", c)' <=> Sent(j, n, "zadd", c)
      BY <3>1 DEF Sent
    <3>4. QED BY <1>1, <3>2, <3>3
  <2>4. ASSUME NEW c \in Conns, stream'[c] = "closed", at'[c] \notin dead'
        PROVE  \/ \E n \in Nat : Sent(at[c], n, "zrem", c)'
               \/ c \notin ToSet(zset') /\ \A n \in Nat : ~Sent(at[c], n, "zadd", c)'
    <3>1. at'[c] = at[c] /\ at[c] \in Instances
      BY <1>1, <2>4 DEF StreamTypes
    <3>2. QED BY <2>3, <2>4, <3>1
  <2>5. QED BY <2>1, <2>2, <2>4 DEF CountInv
<1>7. QED BY <1>2, <1>4, <1>6

LEMMA OtherGhost ==
  ASSUME GhostInv, UNCHANGED <<stream, at, zset, local, cmds, dead>> PROVE GhostInv'
BY DEF GhostInv, StreamTypes, QueueInv, CountInv, Sent

LEMMA InitGhost == Init => GhostInv
<1> SUFFICES ASSUME Init PROVE GhostInv
  OBVIOUS
<1>1. /\ stream = [c \in Conns |-> "new"] /\ at = [c \in Conns |-> NoInstance]
      /\ zset = <<>> /\ zset \in Seq(Conns) /\ ToSet(zset) = {} /\ Once(zset)
      /\ local = [i \in Instances |-> {}] /\ cmds = [i \in Instances |-> <<>>]
      /\ <<>> \in Seq(Command) /\ Len(<<>>) = 0
  BY DEF Init, ToSet, Once
<1>2. \A i \in Instances, c \in Conns, n \in Nat, op \in {"zadd", "zrem"} :
       ~Sent(i, n, op, c)
  BY <1>1 DEF Sent
<1>3. StreamTypes
  BY <1>1 DEF StreamTypes
<1>4. QueueInv /\ CountInv
  BY <1>1, <1>2 DEF QueueInv, CountInv
<1>5. QED BY <1>3, <1>4 DEF GhostInv

LEMMA GhostNext == ASSUME GhostInv, [Next]_vars PROVE GhostInv'
<1>1. ASSUME NEW i \in Instances, SubscribeTakesEffect(i) PROVE GhostInv'
  BY <1>1, OtherGhost DEF SubscribeTakesEffect
<1>2. CASE Judged
  BY <1>2, OtherGhost DEF Judged
<1>3. CASE UNCHANGED vars
  BY <1>3, OtherGhost DEF vars
<1>4. QED
  BY <1>1, <1>2, <1>3, OpenGhost, CloseGhost, ExecuteGhost, ExpiresGhost, DiesGhost DEF Next

(* Closing a stream in the middle of its own registration never leaves it  *)
(* counted, however the commands of the instances interleave.              *)
THEOREM NoGhosts == Spec => []NoGhostCounted
<1>1. ASSUME GhostInv PROVE NoGhostCounted
  <2> SUFFICES ASSUME NEW c \in ToSet(zset), stream[c] # "open", at[c] \notin dead
               PROVE  Unregister(c) \in ToSet(cmds[at[c]])
    BY DEF NoGhostCounted
  <2>1. c \in Conns /\ stream[c] = "closed" /\ at[c] \in Instances
    BY <1>1, MembersType DEF GhostInv, StreamTypes, CountInv
  <2>2. PICK n \in Nat : Sent(at[c], n, "zrem", c)
    BY <1>1, <2>1 DEF GhostInv, CountInv
  <2>3. cmds[at[c]] \in Seq(Command)
    BY <1>1, <2>1 DEF GhostInv, StreamTypes
  <2>4. QED BY <2>2, <2>3, MembersOf DEF Sent, Unregister
<1>2. QED BY <1>1, InitGhost, GhostNext, PTL DEF Spec

-----------------------------------------------------------------------------
(* What is open is counted, or will be, or was evicted, until the key      *)
(* expires; what is to be removed is closed.                               *)
StillCounted(c) == c \in ToSet(zset) \union evicted \/ \E n \in Nat : Sent(at[c], n, "zadd", c)
OpenInv ==
  /\ expiries \in Nat
  /\ \A i \in Instances, c \in Conns, n \in Nat : Sent(i, n, "zrem", c) => stream[c] = "closed"
  /\ expiries = 0 => \A c \in Conns : stream[c] = "open" => StillCounted(c)

(* Removals come with q only, and an addition leaves only at its turn.     *)
LEMMA MovesOpen ==
  ASSUME StreamTypes, NEW i \in Instances, NEW k, NEW q, Moved(i, k, q)
  PROVE  /\ \A j \in Instances, c \in Conns, n \in Nat :
              Sent(j, n, "zrem", c)' => \/ \E m \in Nat : Sent(j, m, "zrem", c)
                                        \/ \E m \in 1..Len(q) : q[m] = [op |-> "zrem", conn |-> c]
         /\ \A j \in Instances, c \in Conns, n \in Nat :
              Sent(j, n, "zadd", c) => \/ \E m \in Nat : Sent(j, m, "zadd", c)'
                                       \/ k = 1 /\ j = i /\ n = 1
<1>1. k \in {0, 1}
  BY DEF Moved
<1>2. ASSUME NEW j \in Instances, NEW c \in Conns, NEW n \in Nat, Sent(j, n, "zrem", c)'
      PROVE  \/ \E m \in Nat : Sent(j, m, "zrem", c)
             \/ \E m \in 1..Len(q) : q[m] = [op |-> "zrem", conn |-> c]
  <2>1. Before(i, k, q, j, n, "zrem", c)
    BY <1>2, SentBefore DEF StreamTypes
  <2>2. n \in Nat /\ n + k \in Nat
    BY <1>1
  <2>3. QED BY <2>1, <2>2 DEF Before
<1>3. ASSUME NEW j \in Instances, NEW c \in Conns, NEW n \in Nat, Sent(j, n, "zadd", c),
             ~(k = 1 /\ j = i /\ n = 1)
      PROVE  \E m \in Nat : Sent(j, m, "zadd", c)'
  <2>1. CASE j # i
    BY <1>3, <2>1, SentAfter DEF StreamTypes
  <2>2. CASE j = i
    <3>1. n > k /\ n - k \in Nat
      BY <1>1, <1>3, <2>2 DEF Sent
    <3>2. Sent(i, n - k, "zadd", c)'
      BY <1>3, <2>2, <3>1, SentAfter DEF StreamTypes
    <3>3. QED BY <2>2, <3>1, <3>2
  <2>3. QED BY <2>1, <2>2
<1>4. QED BY <1>2, <1>3

LEMMA OpenOpen ==
  ASSUME GhostInv, OpenInv, NEW d \in Conns, NEW i \in Instances, Open(d, i) PROVE OpenInv'
<1> DEFINE Adds(q) == /\ Moved(i, 0, q) /\ \A m \in 1..Len(q) : q[m].op = "zadd"
                      /\ \E m \in 1..Len(q) : q[m] = [op |-> "zadd", conn |-> d]
<1>1. \E q : Adds(q)
  <2> DEFINE x == [op |-> "zadd", conn |-> d]
  <2>1. x \in Command /\ 1 \in 1..Len(<<x>>) /\ <<x>>[1] = x /\ x.op = "zadd"
    BY DEF Command
  <2>2. Moved(i, 0, <<x>>)
    BY <2>1, AppendMoves DEF Open, GhostInv, StreamTypes
  <2>3. Adds(<<x>>)
    BY <2>1, <2>2
  <2>4. QED BY <2>3
<1>2. PICK q : Adds(q)
  BY <1>1
<1>3. /\ stream[d] = "new" /\ at'[d] = i
      /\ \A c \in Conns \ {d} : stream'[c] = stream[c] /\ at'[c] = at[c]
      /\ zset' = zset /\ evicted' = evicted /\ expiries' = expiries
  BY DEF Open, GhostInv, StreamTypes
<1>4. \A m \in 1..Len(q), c \in Conns : q[m] # [op |-> "zrem", conn |-> c]
  BY <1>2
<1>5. ASSUME NEW j \in Instances, NEW c \in Conns, NEW n \in Nat, Sent(j, n, "zrem", c)'
      PROVE  stream'[c] = "closed"
  <2>1. \/ \E m \in Nat : Sent(j, m, "zrem", c)
        \/ \E m \in 1..Len(q) : q[m] = [op |-> "zrem", conn |-> c]
    <3>1. StreamTypes /\ Moved(i, 0, q)
      BY <1>2 DEF GhostInv
    <3> HIDE DEF Adds
    <3>2. QED BY <1>5, <3>1, MovesOpen
  <2>2. stream[c] = "closed"
    BY <1>4, <2>1 DEF OpenInv
  <2>3. QED BY <1>3, <2>2
<1>6. ASSUME expiries' = 0, NEW c \in Conns, stream'[c] = "open" PROVE StillCounted(c)'
  <2>1. CASE c = d
    <3>1. \E n \in Nat : Sent(i, n, "zadd", d)'
      BY <1>1, <1>2, SentAfter DEF GhostInv, StreamTypes
    <3>2. QED BY <1>3, <2>1, <3>1 DEF StillCounted
  <2>2. CASE c # d
    <3>1. stream[c] = "open" /\ at[c] \in Instances /\ at'[c] = at[c] /\ StillCounted(c)
      BY <1>3, <1>6, <2>2 DEF GhostInv, StreamTypes, OpenInv
    <3>2. CASE c \in ToSet(zset) \union evicted
      BY <1>3, <3>2 DEF StillCounted
    <3>3. CASE \E n \in Nat : Sent(at[c], n, "zadd", c)
      <4>1. \E m \in Nat : Sent(at[c], m, "zadd", c)'
        BY <1>2, <3>1, <3>3, MovesOpen DEF GhostInv
      <4>2. QED BY <3>1, <4>1 DEF StillCounted
    <3>4. QED BY <3>1, <3>2, <3>3 DEF StillCounted
  <2>3. QED BY <2>1, <2>2
<1>7. expiries' \in Nat
  BY <1>3 DEF OpenInv
<1>8. QED BY <1>5, <1>6, <1>7 DEF OpenInv

LEMMA TeardownOpen ==
  ASSUME GhostInv, OpenInv, NEW i \in Instances, NEW closing \in SUBSET Conns,
         Teardown(closing, i), UNCHANGED <<at, zset, expiries, evicted>>
  PROVE  OpenInv'
<1>1. PICK q : Moved(i, 0, q) /\ Closed(closing, q)
  BY TeardownMoves DEF GhostInv, StreamTypes
<1>2. \A c \in Conns : stream'[c] = IF c \in closing THEN "closed" ELSE stream[c]
  BY DEF Teardown
<1>3. ASSUME NEW j \in Instances, NEW c \in Conns, NEW n \in Nat, Sent(j, n, "zrem", c)'
      PROVE  stream'[c] = "closed"
  <2>1. CASE \E m \in Nat : Sent(j, m, "zrem", c)
    <3>1. stream[c] = "closed"
      BY <2>1 DEF OpenInv
    <3>2. QED BY <1>2, <3>1
  <2>2. CASE \E m \in 1..Len(q) : q[m] = [op |-> "zrem", conn |-> c]
    <3>1. PICK m \in 1..Len(q) : q[m] = [op |-> "zrem", conn |-> c]
      BY <2>2
    <3>2. PICK d \in closing : q[m] = [op |-> "zrem", conn |-> d]
      BY <1>1 DEF Closed
    <3>3. c = d
      BY <3>1, <3>2
    <3>4. QED BY <1>2, <3>3
  <2>3. QED BY <1>1, <1>3, <2>1, <2>2, MovesOpen DEF GhostInv
<1>4. ASSUME expiries' = 0, NEW c \in Conns, stream'[c] = "open" PROVE StillCounted(c)'
  <2>1. stream[c] = "open" /\ at[c] \in Instances /\ StillCounted(c)
    BY <1>2, <1>4 DEF GhostInv, StreamTypes, OpenInv
  <2>2. CASE c \in ToSet(zset) \union evicted
    BY <2>2 DEF StillCounted
  <2>3. CASE \E n \in Nat : Sent(at[c], n, "zadd", c)
    <3>1. \E m \in Nat : Sent(at[c], m, "zadd", c)'
      BY <1>1, <2>1, <2>3, MovesOpen DEF GhostInv
    <3>2. QED BY <3>1 DEF StillCounted
  <2>4. QED BY <2>1, <2>2, <2>3 DEF StillCounted
<1>5. expiries' \in Nat
  BY DEF OpenInv
<1>6. QED BY <1>3, <1>4, <1>5 DEF OpenInv

LEMMA ExecuteOpen ==
  ASSUME GhostInv, OpenInv, NEW i \in Instances, Execute(i) PROVE OpenInv'
<1> DEFINE x == cmds[i][1]
           d == x.conn
<1>1. PICK q : Moved(i, 1, q) /\ \A m \in 1..Len(q) : q[m].op \notin {"zadd", "zrem"}
  BY ExecuteMoves DEF GhostInv
<1>2. x \in Command /\ d \in Conns /\ x = [op |-> x.op, conn |-> d] /\ Sent(i, 1, x.op, d)
      /\ Head(cmds[i]) = x
  BY ExecuteMoves DEF Command, Sent, GhostInv
<1>3. stream' = stream /\ at' = at /\ expiries' = expiries
  BY DEF Execute
<1>4. /\ x.op = "zadd" => ToSet(zset') = ToSet(zset) \cup {d}
      /\ x.op \in {"evict", "zrem"} => ToSet(zset') = ToSet(zset) \ {d}
      /\ x.op \notin {"zadd", "evict", "zrem"} => zset' = zset
  BY ExecuteCounts DEF GhostInv
<1>5. evicted' = evicted \union {d} \/ (x.op # "evict" /\ evicted' = evicted)
  BY <1>2 DEF Execute, Zadd, Expire, Zcard, Zrange, Evict, Publish, Zrem
<1>6. ASSUME NEW j \in Instances, NEW c \in Conns, NEW n \in Nat, Sent(j, n, "zrem", c)'
      PROVE  stream'[c] = "closed"
  <2>1. ~\E m \in 1..Len(q) : q[m] = [op |-> "zrem", conn |-> c]
    BY <1>1
  <2>2. \E m \in Nat : Sent(j, m, "zrem", c)
    BY <1>1, <1>6, <2>1, MovesOpen DEF GhostInv
  <2>3. QED BY <1>3, <2>2 DEF OpenInv
<1>7. ASSUME expiries' = 0, NEW c \in Conns, stream'[c] = "open" PROVE StillCounted(c)'
  <2>1. stream[c] = "open" /\ at[c] \in Instances /\ StillCounted(c) /\ at'[c] = at[c]
    BY <1>3, <1>7 DEF GhostInv, StreamTypes, OpenInv
  <2>2. CASE c \in ToSet(zset) \union evicted
    <3>1. x.op = "zrem" => c # d
      BY <1>2, <2>1 DEF OpenInv
    <3>2. c \in ToSet(zset') \union evicted'
      BY <1>4, <1>5, <2>2, <3>1
    <3>3. QED BY <3>2 DEF StillCounted
  <2>3. CASE \E n \in Nat : Sent(at[c], n, "zadd", c)
    <3>1. PICK n \in Nat : Sent(at[c], n, "zadd", c)
      BY <2>3
    <3>2. CASE \E m \in Nat : Sent(at[c], m, "zadd", c)'
      BY <2>1, <3>2 DEF StillCounted
    <3>3. CASE at[c] = i /\ n = 1
      <4>1. x.op = "zadd" /\ d = c
        BY <3>1, <3>3 DEF Sent
      <4>2. QED BY <1>4, <4>1 DEF StillCounted
    <3>4. QED BY <1>1, <2>1, <3>1, <3>2, <3>3, MovesOpen DEF GhostInv
  <2>4. QED BY <2>1, <2>2, <2>3 DEF StillCounted
<1>8. expiries' \in Nat
  BY <1>3 DEF OpenInv
<1>9. QED BY <1>6, <1>7, <1>8 DEF OpenInv

LEMMA DiesOpen ==
  ASSUME GhostInv, OpenInv, NEW i \in Instances, InstanceDies(i) PROVE OpenInv'
<1>1. /\ UNCHANGED <<at, zset, expiries, evicted>>
      /\ \A c \in Conns : stream'[c] = IF stream[c] = "open" /\ at[c] = i THEN "closed" ELSE stream[c]
      /\ cmds'[i] = <<>> /\ \A j \in Instances \ {i} : cmds'[j] = cmds[j]
  BY DEF InstanceDies, OpenAt, GhostInv, StreamTypes
<1>2. \A j \in Instances, c \in Conns, n \in Nat :
        Sent(j, n, "zrem", c)' => Sent(j, n, "zrem", c)
  BY <1>1 DEF Sent
<1>3. \A j \in Instances \ {i}, c \in Conns, n \in Nat :
        Sent(j, n, "zadd", c) => Sent(j, n, "zadd", c)'
  BY <1>1 DEF Sent
<1>4. ASSUME expiries' = 0, NEW c \in Conns, stream'[c] = "open" PROVE StillCounted(c)'
  <2>1. stream[c] = "open" /\ at[c] \in Instances \ {i} /\ StillCounted(c)
    BY <1>1, <1>4 DEF GhostInv, StreamTypes, OpenInv
  <2>2. QED BY <1>1, <1>3, <2>1 DEF StillCounted
<1>5. \A j \in Instances, c \in Conns, n \in Nat : Sent(j, n, "zrem", c)' => stream'[c] = "closed"
  BY <1>1, <1>2 DEF OpenInv
<1>6. expiries' \in Nat
  BY <1>1 DEF OpenInv
<1>7. QED BY <1>4, <1>5, <1>6 DEF OpenInv

LEMMA OpenNext == ASSUME GhostInv, OpenInv, [Next]_vars PROVE OpenInv'
<1>1. CASE UNCHANGED <<stream, at, zset, cmds, expiries, evicted>>
  BY <1>1 DEF OpenInv, StillCounted, Sent
<1>2. CASE KeyExpires
  <2>1. expiries' = expiries + 1 /\ UNCHANGED <<stream, cmds>>
    BY <1>2 DEF KeyExpires
  <2>2. expiries' \in Nat /\ expiries' # 0
    BY <2>1 DEF OpenInv
  <2>3. \A i \in Instances, c \in Conns, n \in Nat : Sent(i, n, "zrem", c)' => stream'[c] = "closed"
    BY <2>1 DEF OpenInv, Sent
  <2>4. QED BY <2>2, <2>3 DEF OpenInv
<1>3. ASSUME NEW c \in Conns, ClientClose(c) PROVE OpenInv'
  <2>1. at[c] \in Instances /\ {c} \in SUBSET Conns
    BY <1>3 DEF ClientClose, GhostInv, StreamTypes
  <2>2. Teardown({c}, at[c]) /\ UNCHANGED <<at, zset, expiries, evicted>>
    BY <1>3 DEF ClientClose
  <2>3. QED BY <2>1, <2>2, TeardownOpen
<1>4. ASSUME NEW i \in Instances, DeliverDone(i) PROVE OpenInv'
  <2>1. OpenAt(i) \in SUBSET Conns
    BY DEF OpenAt
  <2>2. Teardown(OpenAt(i), i) /\ UNCHANGED <<at, zset, expiries, evicted>>
    BY <1>4 DEF DeliverDone
  <2>3. QED BY <2>1, <2>2, TeardownOpen
<1>5. CASE DeliverEviction
  <2>1. PICK i \in Instances, m \in evictBox : Teardown(Evicted(i, m) \cap OpenAt(i), i)
    BY <1>5 DEF DeliverEviction
  <2>2. Evicted(i, m) \cap OpenAt(i) \in SUBSET Conns
    BY DEF OpenAt
  <2>3. UNCHANGED <<at, zset, expiries, evicted>>
    BY <1>5 DEF DeliverEviction
  <2>4. QED BY <2>1, <2>2, <2>3, TeardownOpen
<1>6. ASSUME NEW i \in Instances, SubscribeTakesEffect(i) PROVE OpenInv'
  BY <1>1, <1>6 DEF SubscribeTakesEffect
<1>7. CASE Judged
  BY <1>1, <1>7 DEF Judged
<1>8. CASE UNCHANGED vars
  BY <1>1, <1>8 DEF vars
<1>9. QED
  BY <1>2, <1>3, <1>4, <1>5, <1>6, <1>7, <1>8, OpenOpen, ExecuteOpen, DiesOpen DEF Next

-----------------------------------------------------------------------------
(* The limit of the connections of a user.                                 *)

LimitInv == GhostInv /\ AloneInv /\ overlap \in BOOLEAN

Quiet == \A i \in Instances : cmds[i] = <<>>

LEMMA BusyIs == Busy <=> ~Quiet
BY DEF Busy, Quiet

(* What is counted gets less, and the queues stay or end.                  *)
LEMMA SetShrinks ==
  ASSUME AloneInv, StreamTypes, UNCHANGED <<cmds, overlap>>, zset' = <<>>
  PROVE  AloneInv'
<1>1. Len(zset') = 0 /\ Len(zset) \in Nat /\ MaxConnections \in Nat
  BY StreamAssumption DEF StreamTypes
<1>2. \A i \in Instances : cmds'[i] = cmds[i]
  OBVIOUS
<1>3. \A i \in Instances : Registering(i) => Registering(i)'
  BY <1>1, <1>2 DEF Registering
<1>4. \A i \in Instances : Closing(i) => Closing(i)'
  BY <1>1, <1>2 DEF Closing
<1>5. QED BY <1>1, <1>2, <1>3, <1>4 DEF AloneInv, Busy

LEMMA OpenAlone ==
  ASSUME LimitInv, NEW c \in Conns, NEW i \in Instances, Open(c, i) PROVE AloneInv'
<1> SUFFICES ASSUME ~overlap' PROVE /\ \A j, k \in Instances : cmds'[j] # <<>> /\ cmds'[k] # <<>> => j = k
                                    /\ \A j \in Instances : cmds'[j] # <<>> => Registering(j)'
                                    /\ Busy'
  BY DEF AloneInv
<1>1. ~overlap /\ ~Busy /\ zset' = zset
  BY DEF Open
<1>2. Quiet /\ Len(zset) <= MaxConnections
  BY <1>1, BusyIs DEF LimitInv, AloneInv
<1> DEFINE x == [op |-> "zadd", conn |-> c]
<1>3. cmds' = [cmds EXCEPT ![i] = <<x>>]
  <2>1. cmds' = [cmds EXCEPT ![i] = Append(cmds[i], x)] /\ cmds[i] = <<>>
    BY <1>2 DEF Open, Quiet
  <2>2. Append(<<>>, x) = <<x>>
    OBVIOUS
  <2>3. QED BY <2>1, <2>2
<1>4. cmds'[i] = <<x>> /\ \A j \in Instances \ {i} : cmds'[j] = <<>>
  BY <1>2, <1>3 DEF Quiet, LimitInv, GhostInv, StreamTypes
<1>5. <<x>> # <<>> /\ Len(<<x>>) = 1 /\ <<x>>[1] = x /\ x.op = "zadd"
  OBVIOUS
<1> HIDE DEF x
<1>6. Registering(i)'
  BY <1>1, <1>2, <1>4, <1>5 DEF Registering
<1>7. QED BY <1>4, <1>5, <1>6 DEF Busy

LEMMA TeardownAlone ==
  ASSUME LimitInv, NEW i \in Instances, NEW closing \in SUBSET Conns, Teardown(closing, i),
         zset' = zset
  PROVE  AloneInv'
<1>1. PICK q : Moved(i, 0, q) /\ Closed(closing, q)
  BY TeardownMoves DEF LimitInv, GhostInv, StreamTypes
<1>2. /\ Len(q) \in Nat /\ Len(cmds[i]) \in Nat /\ Len(cmds'[i]) = Len(cmds[i]) + Len(q)
      /\ cmds[i] \in Seq(Command) /\ cmds'[i] \in Seq(Command)
      /\ \A j \in Instances \ {i} : cmds'[j] = cmds[j]
  BY <1>1 DEF Moved, LimitInv, GhostInv, StreamTypes
<1>3. CASE closing = {}
  <2>1. Len(q) = 0
    <3>1. SUFFICES ASSUME Len(q) # 0 PROVE FALSE
      OBVIOUS
    <3>2. 1 \in 1..Len(q)
      BY <1>2, <3>1
    <3>3. QED BY <1>1, <1>3, <3>2 DEF Closed
  <2>2. cmds'[i] = cmds[i]
    <3>1. Len(cmds'[i]) = Len(cmds[i])
      BY <1>2, <2>1
    <3>2. \A n \in 1..Len(cmds[i]) : cmds'[i][n] = cmds[i][n]
      BY <1>1, <1>2 DEF Moved
    <3>3. QED BY <1>2, <3>1, <3>2, SeqEqual
  <2>3. \A j \in Instances : cmds'[j] = cmds[j]
    BY <1>2, <2>2
  <2>4. overlap' = overlap
    BY <1>3 DEF Teardown, LimitInv
  <2>5. QED BY <2>3, <2>4 DEF AloneInv, LimitInv, Busy, Registering, Closing
<1>4. CASE closing # {}
  <2> SUFFICES ASSUME ~overlap'
               PROVE  /\ \A j, k \in Instances : cmds'[j] # <<>> /\ cmds'[k] # <<>> => j = k
                      /\ \A j \in Instances : cmds'[j] # <<>> => Closing(j)'
                      /\ Len(zset') <= MaxConnections
    BY DEF AloneInv
  <2>1. ~overlap /\ ~Busy
    BY <1>4 DEF Teardown
  <2>2. Quiet /\ Len(zset) <= MaxConnections
    BY <2>1, BusyIs DEF LimitInv, AloneInv
  <2>3. \A j \in Instances \ {i} : cmds'[j] = <<>>
    BY <1>2, <2>2 DEF Quiet
  <2>4. \A n \in 1..Len(cmds'[i]) : cmds'[i][n].op = "zrem"
    <3> SUFFICES ASSUME NEW n \in 1..Len(cmds'[i]) PROVE cmds'[i][n].op = "zrem"
      OBVIOUS
    <3>1. Len(cmds[i]) = 0 /\ Len(cmds'[i]) = Len(q)
      BY <1>2, <2>2 DEF Quiet
    <3>2. cmds'[i][n] = q[n]
      <4>1. cmds'[i][Len(cmds[i]) - 0 + n] = q[n]
        BY <1>1, <3>1 DEF Moved
      <4>2. Len(cmds[i]) - 0 + n = n
        BY <3>1
      <4>3. QED BY <4>1, <4>2
    <3>3. PICK c \in closing : q[n] = [op |-> "zrem", conn |-> c]
      BY <1>1, <3>1 DEF Closed
    <3>4. QED BY <3>2, <3>3
  <2>5. Closing(i)'
    BY <2>2, <2>4 DEF Closing
  <2>6. QED BY <2>2, <2>3, <2>5
<1>5. QED BY <1>3, <1>4

LEMMA ExecuteAlone ==
  ASSUME LimitInv, NEW i \in Instances, Execute(i) PROVE AloneInv'
<1> USE DEF LimitInv, GhostInv
<1> SUFFICES ASSUME ~overlap PROVE AloneInv'
  BY DEF Execute, AloneInv
<1> DEFINE x == cmds[i][1]
           c == x.conn
<1>1. /\ cmds[i] # <<>> /\ x = Head(cmds[i]) /\ x \in Command /\ c \in Conns
      /\ cmds[i] \in Seq(Command) /\ zset \in Seq(Conns) /\ Len(zset) \in Nat /\ Once(zset)
      /\ MaxConnections \in Nat
  <2>1. cmds[i] # <<>> /\ x = Head(cmds[i]) /\ x \in Command
    BY ExecuteMoves
  <2>2. c \in Conns
    BY <2>1 DEF Command
  <2>3. cmds[i] \in Seq(Command) /\ zset \in Seq(Conns) /\ Once(zset)
    BY DEF StreamTypes, CountInv
  <2>4. Len(zset) \in Nat /\ MaxConnections \in Nat
    BY <2>3, StreamAssumption
  <2>5. QED BY <2>1, <2>2, <2>3, <2>4
<1>2. /\ \A j \in Instances \ {i} : cmds'[j] = <<>>
      /\ Registering(i) \/ Closing(i)
  <2>1. \A j \in Instances \ {i} : cmds[j] = <<>>
    BY <1>1 DEF AloneInv
  <2>2. Registering(i) \/ Closing(i)
    BY <1>1 DEF AloneInv
  <2>3. PICK q : Moved(i, 1, q)
    BY ExecuteMoves
  <2>4. QED BY <2>1, <2>2, <2>3 DEF Moved
<1>3. ASSUME Len(cmds[i]) = 1 PROVE Tail(cmds[i]) = <<>>
  <2>1. Tail(cmds[i]) \in Seq(Command) /\ Len(Tail(cmds[i])) = 0
    BY <1>1, <1>3, HeadTailProperties
  <2>2. QED BY <2>1, EmptySeq
<1>4. ASSUME Len(cmds[i]) = 1, Return(i) PROVE cmds'[i] = <<>>
  <2>1. Tail(cmds[i]) = <<>>
    BY <1>4, <1>3
  <2>2. cmds' = [cmds EXCEPT ![i] = Tail(cmds[i])]
    BY <1>4 DEF Return
  <2>3. QED BY <2>1, <2>2 DEF StreamTypes
<1>5. ASSUME Len(cmds[i]) = 1, NEW op, NEW d, Then(i, d, op)
      PROVE  cmds'[i] = <<[op |-> op, conn |-> d]>>
  <2>1. Tail(cmds[i]) = <<>>
    BY <1>5, <1>3
  <2>2. cmds'[i] = Append(<<>>, [op |-> op, conn |-> d])
    BY <2>1, <1>5 DEF Then, StreamTypes
  <2>3. QED BY <2>2
<1>6. \/ cmds'[i] = <<>> /\ Len(zset') <= MaxConnections
      \/ Registering(i)' \/ Closing(i)'
  <2>1. CASE Registering(i)
    <3>1. Len(cmds[i]) = 1
      BY <2>1 DEF Registering
    <3>2. CASE x.op = "zadd"
      <4>1. Then(i, c, "expire") /\ Len(zset) <= MaxConnections
        BY <1>1, <2>1, <3>2 DEF Execute, Zadd, Registering
      <4>2. Len(zset') = Len(zset) + 1
        BY <3>2, ExecuteCounts
      <4>3. cmds'[i] = <<[op |-> "expire", conn |-> c]>>
        BY <1>5, <3>1, <4>1
      <4>4. QED BY <1>1, <4>1, <4>2, <4>3 DEF Registering
    <3>3. CASE x.op = "expire"
      <4>1. Then(i, c, "zcard") /\ zset' = zset /\ Len(zset) <= MaxConnections + 1
        BY <1>1, <2>1, <3>3 DEF Execute, Expire, Registering
      <4>2. cmds'[i] = <<[op |-> "zcard", conn |-> c]>>
        BY <1>5, <3>1, <4>1
      <4>3. QED BY <4>1, <4>2 DEF Registering
    <3>4. CASE x.op = "zcard"
      <4>1. /\ IF Len(zset) > MaxConnections THEN Then(i, c, "zrange") ELSE Return(i)
            /\ zset' = zset /\ Len(zset) <= MaxConnections + 1
        BY <1>1, <2>1, <3>4 DEF Execute, Zcard, Registering
      <4>2. CASE Len(zset) > MaxConnections
        <5>1. cmds'[i] = <<[op |-> "zrange", conn |-> c]>>
          BY <1>5, <3>1, <4>1, <4>2
        <5>2. QED BY <4>1, <5>1 DEF Registering
      <4>3. CASE Len(zset) <= MaxConnections
        BY <1>1, <1>4, <3>1, <4>1, <4>3
      <4>4. QED BY <1>1, <4>2, <4>3
    <3>5. CASE x.op = "zrange"
      <4>1. /\ IF zset = <<>> THEN Return(i) ELSE Then(i, Head(zset), "evict")
            /\ zset' = zset /\ Len(zset) <= MaxConnections + 1
        BY <1>1, <2>1, <3>5 DEF Execute, Zrange, Registering
      <4>2. CASE zset = <<>>
        BY <1>1, <1>4, <3>1, <4>1, <4>2
      <4>3. CASE zset # <<>>
        <5>1. cmds'[i] = <<[op |-> "evict", conn |-> Head(zset)]>>
          BY <1>5, <3>1, <4>1, <4>3
        <5>2. QED BY <4>1, <5>1 DEF Registering
      <4>4. QED BY <4>2, <4>3
    <3>6. CASE x.op = "evict"
      <4>1. /\ Then(i, c, "publish") /\ zset' = Without(c)
            /\ zset = <<>> \/ (c = Head(zset) /\ zset # <<>> /\ Len(zset) <= MaxConnections + 1)
        <5>1. Then(i, c, "publish") /\ zset' = Without(c)
          BY <1>1, <3>6 DEF Execute, Evict
        <5>2. zset = <<>> \/ (c = Head(zset) /\ Len(zset) <= MaxConnections + 1)
          BY <2>1, <3>6 DEF Registering
        <5>3. QED BY <5>1, <5>2
      <4>2. Len(zset') <= MaxConnections
        <5>1. /\ ToSet(Without(c)) = ToSet(zset) \ {c}
              /\ Len(Without(c)) = IF c \in ToSet(zset) THEN Len(zset) - 1 ELSE Len(zset)
          BY <1>1, WithoutIs
        <5>2. CASE zset = <<>>
          <6>1. Len(zset) = 0 /\ c \notin ToSet(zset)
            BY <5>2 DEF ToSet
          <6>2. QED BY <1>1, <4>1, <5>1, <6>1
        <5>3. CASE zset # <<>>
          <6>1. c = zset[1] /\ 1 \in 1..Len(zset)
            BY <1>1, <4>1, <5>3
          <6>2. c \in ToSet(zset)
            BY <1>1, <6>1, MembersOf
          <6>3. Len(Without(c)) = Len(zset) - 1
            BY <5>1, <6>2
          <6>4. QED BY <1>1, <4>1, <5>3, <6>3
        <5>4. QED BY <5>2, <5>3
      <4>3. cmds'[i] = <<[op |-> "publish", conn |-> c]>>
        BY <1>5, <3>1, <4>1
      <4>4. QED BY <4>2, <4>3 DEF Registering
    <3>7. CASE x.op = "publish"
      <4>1. Return(i) /\ zset' = zset /\ Len(zset) <= MaxConnections
        BY <1>1, <2>1, <3>7 DEF Execute, Publish, Registering
      <4>2. QED BY <1>4, <3>1, <4>1
    <3>8. QED BY <2>1, <3>2, <3>3, <3>4, <3>5, <3>6, <3>7 DEF Registering
  <2>2. CASE Closing(i)
    <3>1. x.op = "zrem" /\ Len(zset) <= MaxConnections
      BY <2>2, ExecuteMoves DEF Closing
    <3>2. Return(i) /\ zset' = Without(c)
      BY <1>1, <3>1 DEF Execute, Zrem
    <3>3. Len(zset') <= MaxConnections
      <4>1. Len(Without(c)) = IF c \in ToSet(zset) THEN Len(zset) - 1 ELSE Len(zset)
        BY <1>1, WithoutIs
      <4>2. QED BY <1>1, <3>1, <3>2, <4>1
    <3>4. Moved(i, 1, <<>>)
      BY <1>1, <3>2, ReturnMoves DEF StreamTypes
    <3>5. /\ Len(cmds'[i]) = Len(cmds[i]) - 1 /\ Len(cmds[i]) \in Nat
          /\ \A n \in 1..(Len(cmds[i]) - 1) : cmds'[i][n] = cmds[i][n + 1]
      BY <1>1, <3>4 DEF Moved
    <3>6. \A n \in 1..Len(cmds'[i]) : cmds'[i][n].op = "zrem"
      BY <2>2, <3>5 DEF Closing
    <3>7. QED BY <3>3, <3>6 DEF Closing
  <2>3. QED BY <1>2, <2>1, <2>2
<1>7. overlap' = overlap
  BY DEF Execute
<1>8. /\ \A j, k \in Instances : cmds'[j] # <<>> /\ cmds'[k] # <<>> => j = k
      /\ \A j \in Instances : cmds'[j] # <<>> => Registering(j)' \/ Closing(j)'
  BY <1>2, <1>6
<1>9. ~Busy' => Len(zset') <= MaxConnections
  BY <1>6 DEF Busy, Registering, Closing
<1>10. QED BY <1>7, <1>8, <1>9 DEF AloneInv

LEMMA DiesAlone ==
  ASSUME LimitInv, NEW i \in Instances, InstanceDies(i) PROVE AloneInv'
<1> SUFFICES ASSUME ~overlap' PROVE Quiet' /\ Len(zset') <= MaxConnections
  BY DEF AloneInv, Quiet
<1>1. ~overlap /\ ~Busy /\ zset' = zset
  BY DEF InstanceDies
<1>2. Quiet /\ Len(zset) <= MaxConnections
  BY <1>1, BusyIs DEF LimitInv, AloneInv
<1>3. Quiet'
  BY <1>2 DEF InstanceDies, Quiet, LimitInv, GhostInv, StreamTypes
<1>4. QED BY <1>1, <1>2, <1>3

LEMMA OtherAlone ==
  ASSUME LimitInv, UNCHANGED <<zset, cmds, overlap>> PROVE AloneInv'
BY DEF LimitInv, AloneInv, Registering, Closing, Busy

LEMMA CloseAlone ==
  ASSUME LimitInv, (\E c \in Conns : ClientClose(c)) \/ DeliverEviction
                   \/ \E i \in Instances : DeliverDone(i)
  PROVE  AloneInv'
<1>1. ASSUME NEW c \in Conns, ClientClose(c) PROVE AloneInv'
  <2>1. at[c] \in Instances
    BY <1>1 DEF ClientClose, LimitInv, GhostInv, StreamTypes
  <2>2. Teardown({c}, at[c]) /\ zset' = zset /\ {c} \in SUBSET Conns
    BY <1>1 DEF ClientClose
  <2>3. QED BY <2>1, <2>2, TeardownAlone
<1>2. ASSUME NEW i \in Instances, DeliverDone(i) PROVE AloneInv'
  <2>1. OpenAt(i) \in SUBSET Conns /\ Teardown(OpenAt(i), i) /\ zset' = zset
    BY <1>2 DEF DeliverDone, OpenAt
  <2>2. QED BY <2>1, TeardownAlone
<1>3. CASE DeliverEviction
  <2>1. PICK i \in Instances, m \in evictBox : Teardown(Evicted(i, m) \cap OpenAt(i), i)
    BY <1>3 DEF DeliverEviction
  <2>2. Evicted(i, m) \cap OpenAt(i) \in SUBSET Conns /\ zset' = zset
    BY <1>3 DEF DeliverEviction, OpenAt
  <2>3. QED BY <2>1, <2>2, TeardownAlone
<1>4. QED BY <1>1, <1>2, <1>3

LEMMA LimitNext == ASSUME LimitInv, [Next]_vars PROVE LimitInv'
<1>1. GhostInv'
  BY GhostNext DEF LimitInv
<1>2. overlap' \in BOOLEAN
  BY DEF LimitInv, Next, Open, ClientClose, DeliverDone, DeliverEviction, Teardown, Execute,
         SubscribeTakesEffect, KeyExpires, InstanceDies, Judged, vars
<1>3. AloneInv'
  <2>1. ASSUME NEW i \in Instances, SubscribeTakesEffect(i) PROVE AloneInv'
    BY <2>1, OtherAlone DEF SubscribeTakesEffect
  <2>2. CASE Judged
    BY <2>2, OtherAlone DEF Judged
  <2>3. CASE UNCHANGED vars
    BY <2>3, OtherAlone DEF vars
  <2>4. CASE KeyExpires
    BY <2>4, SetShrinks DEF KeyExpires, LimitInv, GhostInv
  <2>5. QED
    BY <2>1, <2>2, <2>3, <2>4, OpenAlone, CloseAlone, ExecuteAlone, DiesAlone DEF Next
<1>4. QED BY <1>1, <1>2, <1>3 DEF LimitInv

(* Whatever number of instances serve the streams of a user, expire and    *)
(* die: no more connections than allowed are counted when no registration  *)
(* is under way and none has overlapped another, and until the key expires *)
(* all that is open and not counted are streams that were evicted.         *)
THEOREM CountIsLimited == Spec => []CountHoldsAlone
<1>1. Init => LimitInv
  <2> SUFFICES ASSUME Init PROVE LimitInv
    OBVIOUS
  <2>1. /\ cmds = [i \in Instances |-> <<>>] /\ Len(zset) = 0 /\ Len(zset) <= MaxConnections
        /\ overlap = FALSE
    BY StreamAssumption DEF Init
  <2>2. AloneInv
    BY <2>1 DEF AloneInv, Busy
  <2>3. QED BY <2>1, <2>2, InitGhost DEF LimitInv
<1>2. Init => OpenInv
  <2> SUFFICES ASSUME Init PROVE OpenInv
    OBVIOUS
  <2>1. /\ \A i \in Instances : cmds[i] = <<>> /\ Len(cmds[i]) = 0
        /\ \A c \in Conns : stream[c] = "new"
        /\ expiries = 0
    BY DEF Init
  <2>2. QED BY <2>1 DEF OpenInv, Sent
<1>3. ASSUME LimitInv, OpenInv PROVE CountHoldsAlone
  <2>1. ~Busy /\ ~overlap => Len(zset) <= MaxConnections
    BY <1>3 DEF LimitInv, AloneInv
  <2>2. ASSUME ~Busy, expiries = 0, NEW c \in Conns, stream[c] = "open"
        PROVE  c \in ToSet(zset) \union evicted
    <3>1. at[c] \in Instances /\ StillCounted(c)
      BY <1>3, <2>2 DEF LimitInv, GhostInv, StreamTypes, OpenInv
    <3>2. Len(cmds[at[c]]) = 0
      BY <2>2, <3>1 DEF Busy
    <3>3. QED BY <3>1, <3>2 DEF StillCounted, Sent
  <2>3. QED BY <2>1, <2>2 DEF CountHoldsAlone
<1>4. LimitInv /\ OpenInv /\ [Next]_vars => (LimitInv /\ OpenInv)'
  BY LimitNext, OpenNext DEF LimitInv
<1>5. QED BY <1>1, <1>2, <1>3, <1>4, PTL DEF Spec

-----------------------------------------------------------------------------
(* What the proofs need of the types: no container has seen a password     *)
(* that Redis cannot have, and those of the centre have sources.           *)
Centre == {"api", "judge"}
DeployTypes ==
  /\ env \in EnvFile /\ source \in Nat /\ schema \in Nat
  /\ redis \in Passwords \union {"none"}
  /\ script \in [pc : {"idle", "redis", "api", "judge", "migrate", "seed"}, judge : BOOLEAN]
  /\ box \in [Boxes ->
                [state : {"absent", "starting", "synced", "up", "exited"}, env : EnvFile,
                 source : Int]]
  /\ box["api"].source \in Nat /\ box["judge"].source \in Nat

(* Between the start of Redis and that of the API a deploy has the Redis of*)
(* .env, which is not edited meanwhile. Otherwise the API has the password *)
(* Redis has, but for a deploy cut off between the two.                    *)
RecoveryInv ==
  /\ script.pc = "api" => redis = env.redis
  /\ excused \/ script.pc = "api" \/ box["api"].state = "absent" \/ Reaches("api")
  /\ QueueLossRecovered

(* Only the centre migrates, before it listens, and to its own source.     *)
MigratedInv ==
  /\ schema <= source
  /\ box["remote"].env.auto => box["remote"].state = "absent"
  /\ \A b \in Centre :
       /\ box[b].source <= source
       /\ box[b].state \in {"synced", "up"} /\ box[b].env.auto => box[b].source <= schema

DeployInv == DeployTypes /\ RecoveryInv /\ MigratedInv

LEMMA MigratedTo ==
  ASSUME NEW v \in Nat, schema \in Nat
  PROVE  /\ Migrated(v) \in {schema, v} /\ schema <= Migrated(v)
         /\ v <= Migrated(v)
<1> DEFINE P(x) == x \in {schema, v} /\ \A y \in {schema, v} : x >= y
<1>1. Migrated(v) = CHOOSE x : P(x)
  BY DEF Migrated, Max
<1>2. \E x : P(x)
  <2>1. CASE schema >= v
    BY <2>1
  <2>2. CASE v >= schema
    BY <2>2
  <2>3. QED BY <2>1, <2>2
<1>3. P(CHOOSE x : P(x))
  BY <1>2
<1>4. QED BY <1>1, <1>3

LEMMA DeployInit == DeploymentInit => DeployInv
BY DEF DeploymentInit, DeployInv, DeployTypes, RecoveryInv, MigratedInv, QueueLossRecovered,
       EnvFile, Example, Passwords, Boxes, Absent,
       Idle, Reaches, Centre

LEMMA DeployNext == ASSUME DeployInv, [DeploymentNext]_deploymentVars PROVE DeployInv'
<1> USE DEF DeployInv, DeployTypes, RecoveryInv, MigratedInv, Centre, QueueLossRecovered,
            Reaches, At, Goto
<1>0. \A e \in EnvFile : e.redis \in Passwords /\ "none" \notin Passwords
  BY DEF EnvFile, Passwords
<1>1. CASE Pull
  BY <1>1 DEF Pull
<1>2. ASSUME NEW new \in EnvFile, Edit(new) PROVE DeployInv'
  BY <1>2 DEF Edit, Idle
<1>3. ASSUME NEW judge \in BOOLEAN, Deploy(judge) PROVE DeployInv'
  BY <1>3 DEF Deploy, Idle
<1>4. CASE UpRedis
  <2>1. /\ script.pc = "redis" /\ script' = [script EXCEPT !.pc = "api"] /\ redis' = env.redis
        /\ UNCHANGED <<env, source, schema, box, excused>>
    BY <1>4 DEF UpRedis
  <2>2. lost' => lost \/ redis \notin {"none", env.redis}
    BY <1>4, Zenon DEF UpRedis
  <2>3. DeployTypes' /\ MigratedInv'
    BY <1>0, <2>1
  <2>4. script'.pc = "api" => redis' = env'.redis
    BY <2>1
  <2>5. excused' \/ script'.pc = "api" \/ box'["api"].state = "absent" \/ Reaches("api")'
    BY <2>1
  <2>6. QueueLossRecovered'
    BY <2>1, <2>2
  <2>7. QED BY <2>3, <2>4, <2>5, <2>6
<1>5. CASE UpApi
  BY <1>0, <1>5 DEF UpApi, Up, Resolved, EnvFile,
                   Boxes, Passwords
<1>6. CASE UpJudge
  BY <1>0, <1>6 DEF UpJudge, Up, Resolved, EnvFile,
                   Boxes, Passwords
<1>7. CASE HostMigrates
  <2>1. /\ UNCHANGED <<env, source, redis, box, lost, excused>>
        /\ schema' = schema \/ schema' = Migrated(source)
    BY <1>7 DEF HostMigrates
  <2>2. script' = [script EXCEPT !.pc = "seed"] \/ script' = [pc |-> "idle", judge |-> FALSE]
    BY <1>7 DEF HostMigrates, Idle
  <2>3. /\ script'.pc # "api" /\ script.pc # "api"
        /\ script' \in [pc : {"idle", "redis", "api", "judge", "migrate", "seed"}, judge : BOOLEAN]
    <3>1. script.pc = "migrate"
      BY <1>7 DEF HostMigrates
    <3>2. CASE script' = [script EXCEPT !.pc = "seed"]
      BY <3>1, <3>2
    <3>3. CASE script' = [pc |-> "idle", judge |-> FALSE]
      BY <3>1, <3>3
    <3>4. QED BY <2>2, <3>2, <3>3
  <2>4. schema' \in Nat /\ schema <= schema' /\ schema' <= source
    BY <2>1, MigratedTo
  <2>5. QED BY <2>1, <2>3, <2>4
<1>8. CASE Seed
  BY <1>8 DEF Seed, Idle
<1>9. ASSUME NEW db \in Passwords, NEW version \in 1..MaxSource,
             DeployRemote(db, version)
      PROVE  DeployInv'
  BY <1>0, <1>9 DEF DeployRemote, RemoteEnv, EnvFile, Boxes
<1>10. ASSUME NEW b \in Boxes, Start(b) PROVE DeployInv'
  BY <1>10, MigratedTo DEF Start, Become, Boxes
<1>11. ASSUME NEW b \in Boxes, ListenJudge(b) PROVE DeployInv'
  BY <1>11 DEF ListenJudge, Become, Boxes
<1>12. CASE ListenApi
  BY <1>12 DEF ListenApi, Become, Boxes
<1>13. CASE Restarted
  BY <1>13 DEF Restarted, Become, Boxes
<1>14. CASE CutOff
  BY <1>14 DEF CutOff, Idle
<1>15. ASSUME NEW b \in Boxes, Dies(b) PROVE DeployInv'
  BY <1>15 DEF Dies, Become, Boxes
<1>16. CASE DatabaseAway
  BY <1>16 DEF DatabaseAway, Boxes
<1>17. CASE RedisDies
  BY <1>17 DEF RedisDies
<1>18. CASE UNCHANGED deploymentVars
  BY <1>18 DEF deploymentVars
<1>19. QED
  BY <1>1, <1>2, <1>3, <1>4, <1>5, <1>6, <1>7, <1>8, <1>9, <1>10, <1>11, <1>12, <1>13, <1>14,
     <1>15, <1>16, <1>17, <1>18 DEF DeploymentNext

(* An API that reaches Redis has begun its recovery pass after the queue   *)
(* was lost, whatever order passwords are edited, deploys are run and cut  *)
(* off, and containers die in.                                             *)
THEOREM QueueIsRecovered == DeploymentSpec => []QueueLossRecovered
<1>1. DeployInv => QueueLossRecovered
  BY DEF DeployInv, RecoveryInv
<1>2. QED BY <1>1, DeployInit, DeployNext, PTL DEF DeploymentSpec

(* The tables are those of the source of the centre or older, and those an *)
(* API or a judge that is up was built for are there if it migrates.       *)
THEOREM SchemaIsOfTheCentre == DeploymentSpec => []SchemaOfTheCentre
<1>1. DeployInv => SchemaOfTheCentre
  BY DEF DeployInv, MigratedInv, SchemaOfTheCentre, Centre, Boxes
<1>2. QED BY <1>1, DeployInit, DeployNext, PTL DEF DeploymentSpec
=============================================================================
