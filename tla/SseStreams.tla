----------------------------- MODULE SseStreams -----------------------------
(***************************************************************************)
(* The event streams a user follows a submission by: several instances of  *)
(* the API serve them, a Redis sorted set counts them, and a registration  *)
(* over the limit evicts the oldest.                                       *)
(*                                                                         *)
(* An instance sends its Redis commands over one connection, so that they  *)
(* run in the order they were sent and the code after an await runs with   *)
(* the answer; other instances come in between. The connections are those  *)
(* of one user (users have keys of their own) and follow one run of the    *)
(* judge. An instance is one process with its own pid: no shutdown hooks   *)
(* are enabled, so one that stops just dies, and its successor is another. *)
(***************************************************************************)
EXTENDS Naturals, Sequences, FiniteSets, SequencesExt

CONSTANTS
  Conns,           \* connection ids of the user, one per stream
  Instances,       \* API processes
  NoInstance,      \* where a stream is that nobody has opened
  MaxConnections,  \* SSE_MAX_CONNECTIONS_PER_USER
  MaxExpiries      \* bound: hours without a new stream

ASSUME StreamAssumption ==
  /\ IsFiniteSet(Conns) /\ NoInstance \notin Instances
  /\ MaxConnections \in Nat \ {0} /\ MaxExpiries \in Nat

VARIABLES
  judged,    \* the judge has published 'done'
  stream,    \* what the server does for a connection: "new", "open", "closed"
  at,        \* the instance that serves it
  zset,      \* the sorted set of the user's connections, by score
  local,     \* the map of connections of each instance
  cmds,      \* Redis commands sent by each instance and not executed
  listening, \* to judge events: "no", "asked", "yes"
  doneBox,   \* whether a 'done' event is under way to each instance
  evictBox,  \* eviction messages under way, to all instances
  dead,      \* instances that have died
  expiries,  \* how often the key has expired
  evicted,   \* ghost: connections that a registration has taken out
  overlap    \* ghost: a registration or closing has begun while another was
             \* under way

vars == <<judged, stream, at, zset, local, cmds, listening, doneBox, evictBox,
          dead, expiries, evicted, overlap>>

Command == [op : {"zadd", "expire", "zcard", "zrange", "zrem", "evict", "publish"},
            conn : Conns]

(* A member of the sorted set is host:pid:connection. It is taken apart at *)
(* the first colon, which is inside the instance id.                       *)
InstanceId(i) == <<i, "pid">>
Member(c) == InstanceId(at[c]) \o <<c>>
ParseMember(m) == [instanceId |-> SubSeq(m, 1, 1), connectionId |-> Tail(m)]

Init ==
  /\ judged = FALSE
  /\ stream = [c \in Conns |-> "new"]
  /\ at = [c \in Conns |-> NoInstance]
  /\ zset = <<>>
  /\ local = [i \in Instances |-> {}]
  /\ cmds = [i \in Instances |-> <<>>]
  /\ listening = [i \in Instances |-> "no"]
  /\ doneBox = [i \in Instances |-> FALSE]
  /\ evictBox = {}
  /\ dead = {}
  /\ expiries = 0
  /\ evicted = {}
  /\ overlap = FALSE

Busy == \E i \in Instances : cmds[i] # <<>>
OpenAt(i) == {c \in Conns : stream[c] = "open" /\ at[c] = i}

-----------------------------------------------------------------------------
(* The streams of an instance. *)

(* GET :number/stream: registration is started and not awaited, the first  *)
(* stream of an instance subscribes to the events, the handler is attached.*)
Open(c, i) ==
  /\ stream[c] = "new" /\ i \notin dead
  /\ stream' = [stream EXCEPT ![c] = "open"]
  /\ at' = [at EXCEPT ![c] = i]
  /\ cmds' = [cmds EXCEPT ![i] = Append(@, [op |-> "zadd", conn |-> c])]
  /\ listening' = [listening EXCEPT ![i] = IF @ = "no" THEN "asked" ELSE @]
  /\ overlap' = (overlap \/ Busy)
  /\ UNCHANGED <<judged, zset, local, doneBox, evictBox, dead, expiries, evicted>>

SubscribeTakesEffect(i) ==
  /\ listening[i] = "asked"
  /\ listening' = [listening EXCEPT ![i] = "yes"]
  /\ UNCHANGED <<judged, stream, at, zset, local, cmds, doneBox, evictBox, dead, expiries,
                 evicted, overlap>>

(* The teardown of streams: the handlers are detached, and the command of  *)
(* each unregisterConnection is sent.                                      *)
Unregister(c) == [op |-> "zrem", conn |-> c]
Teardown(closing, i) ==
  /\ stream' = [c \in Conns |-> IF c \in closing THEN "closed" ELSE stream[c]]
  /\ \E order \in SetToSeqs(closing) :
       cmds' = [cmds EXCEPT ![i] = @ \o [n \in DOMAIN order |-> Unregister(order[n])]]
  /\ overlap' = (overlap \/ (closing # {} /\ Busy))

(* The client goes away, by abort or by a lost network connection. *)
ClientClose(c) ==
  /\ stream[c] = "open"
  /\ Teardown({c}, at[c])
  /\ UNCHANGED <<judged, at, zset, local, listening, doneBox, evictBox, dead, expiries, evicted>>

DeliverDoneToRegistered(i) ==   \* mutant: the handler is attached after the await
  /\ doneBox[i]
  /\ doneBox' = [doneBox EXCEPT ![i] = FALSE]
  /\ Teardown(OpenAt(i) \cap local[i], i)
  /\ UNCHANGED <<judged, at, zset, local, listening, evictBox, dead, expiries, evicted>>

(* A 'done' event reaches the handlers of all streams of the instance,     *)
(* also of one whose registration is not finished.                         *)
DeliverDone(i) ==
  /\ doneBox[i]
  /\ doneBox' = [doneBox EXCEPT ![i] = FALSE]
  /\ Teardown(OpenAt(i), i)
  /\ UNCHANGED <<judged, at, zset, local, listening, evictBox, dead, expiries, evicted>>

(* handleLocalEviction, on the instance whose id the message carries. *)
Evicted(i, m) ==
  {c \in local[i] : m.instanceId = InstanceId(i) /\ m.connectionId = <<c>>}

DeliverEviction ==
  \E m \in evictBox, i \in Instances \ dead :
    /\ \A j \in Instances \ {i} : Evicted(j, m) = {}
    /\ evictBox' = evictBox \ {m}
    /\ local' = [local EXCEPT ![i] = @ \ Evicted(i, m)]
    /\ Teardown(Evicted(i, m) \cap OpenAt(i), i)
    /\ UNCHANGED <<judged, at, zset, listening, doneBox, dead, expiries, evicted>>

-----------------------------------------------------------------------------
(* Redis executes the next command of an instance; what follows the await  *)
(* in registerConnection or unregisterConnection runs with the answer.     *)

Without(c) ==
  IF c \in ToSet(zset) THEN RemoveAt(zset, CHOOSE n \in DOMAIN zset : zset[n] = c) ELSE zset
Then(i, c, op) == cmds' = [cmds EXCEPT ![i] = Append(Tail(@), [op |-> op, conn |-> c])]
Return(i) == cmds' = [cmds EXCEPT ![i] = Tail(@)]

(* The score is the time of day of the instance before the command is sent: *)
(* clocks differ and are set, and streams of one millisecond are ordered by *)
(* name, so that the place of a new one may be any.                         *)
Zadd(i, c) ==
  /\ \E n \in 1..(Len(zset) + 1) : zset' = InsertAt(zset, n, c)
  /\ Then(i, c, "expire")
  /\ UNCHANGED <<local, evictBox, evicted>>

Expire(i, c) ==
  /\ local' = [local EXCEPT ![i] = @ \union {c}]
  /\ Then(i, c, "zcard")
  /\ UNCHANGED <<zset, evictBox, evicted>>

ZcardBefore(i, c) ==            \* mutant: the connection itself is not counted
  /\ IF Len(zset) - 1 > MaxConnections THEN Then(i, c, "zrange") ELSE Return(i)
  /\ UNCHANGED <<zset, local, evictBox, evicted>>

Zcard(i, c) ==
  /\ IF Len(zset) > MaxConnections THEN Then(i, c, "zrange") ELSE Return(i)
  /\ UNCHANGED <<zset, local, evictBox, evicted>>

(* What follows is about the oldest connection, its own or not. *)
Zrange(i) ==
  /\ IF zset = <<>> THEN Return(i) ELSE Then(i, Head(zset), "evict")
  /\ UNCHANGED <<zset, local, evictBox, evicted>>

Evict(i, c) ==
  /\ zset' = Without(c)
  /\ evicted' = evicted \union {c}
  /\ Then(i, c, "publish")
  /\ UNCHANGED <<local, evictBox>>

Publish(i, c) ==
  /\ evictBox' = evictBox \union {ParseMember(Member(c))}
  /\ Return(i)
  /\ UNCHANGED <<zset, local, evicted>>

ZremIfLocal(i, c) ==            \* mutant: only what the local map knows is removed
  /\ zset' = IF c \in local[i] THEN Without(c) ELSE zset
  /\ local' = [local EXCEPT ![i] = @ \ {c}]
  /\ Return(i)
  /\ UNCHANGED <<evictBox, evicted>>

(* unregisterConnection *)
Zrem(i, c) ==
  /\ zset' = Without(c)
  /\ local' = [local EXCEPT ![i] = @ \ {c}]
  /\ Return(i)
  /\ UNCHANGED <<evictBox, evicted>>

Execute(i) ==
  /\ cmds[i] # <<>>
  /\ LET c == Head(cmds[i]).conn
         op == Head(cmds[i]).op
     IN \/ op = "zadd" /\ Zadd(i, c)
        \/ op = "expire" /\ Expire(i, c)
        \/ op = "zcard" /\ Zcard(i, c)
        \/ op = "zrange" /\ Zrange(i)
        \/ op = "evict" /\ Evict(i, c)
        \/ op = "publish" /\ Publish(i, c)
        \/ op = "zrem" /\ Zrem(i, c)
  /\ UNCHANGED <<judged, stream, at, listening, doneBox, dead, expiries, overlap>>

-----------------------------------------------------------------------------
(* An hour after the last registration the key is gone, whoever is open. *)
KeyExpires ==
  /\ expiries < MaxExpiries
  /\ zset # <<>>
  /\ zset' = <<>>
  /\ expiries' = expiries + 1
  /\ UNCHANGED <<judged, stream, at, local, cmds, listening, doneBox, evictBox, dead, evicted,
                 overlap>>

(* What the instance sent and Redis has not executed is lost, what it had  *)
(* counted stays counted.                                                  *)
InstanceDies(i) ==
  /\ dead \union {i} # Instances /\ i \notin dead
  /\ dead' = dead \union {i}
  /\ stream' = [c \in Conns |-> IF c \in OpenAt(i) THEN "closed" ELSE stream[c]]
  /\ local' = [local EXCEPT ![i] = {}]
  /\ cmds' = [cmds EXCEPT ![i] = <<>>]
  /\ listening' = [listening EXCEPT ![i] = "no"]
  /\ doneBox' = [doneBox EXCEPT ![i] = FALSE]
  /\ overlap' = (overlap \/ Busy)
  /\ UNCHANGED <<judged, at, zset, evictBox, expiries, evicted>>

(* The judge publishes 'done', to the instances subscribed at that moment. *)
Judged ==
  /\ ~judged
  /\ judged' = TRUE
  /\ doneBox' = [i \in Instances |-> listening[i] = "yes"]
  /\ UNCHANGED <<stream, at, zset, local, cmds, listening, evictBox, dead, expiries, evicted,
                 overlap>>

-----------------------------------------------------------------------------
Next ==
  \/ \E c \in Conns, i \in Instances : Open(c, i)
  \/ \E c \in Conns : ClientClose(c)
  \/ \E i \in Instances : SubscribeTakesEffect(i) \/ DeliverDone(i) \/ Execute(i)
                          \/ InstanceDies(i)
  \/ DeliverEviction
  \/ KeyExpires
  \/ Judged

Spec == Init /\ [][Next]_vars

(* Messages arrive and commands run; and what is submitted is judged in    *)
(* the end, which JudgePipeline shows.                                     *)
Fairness ==
  /\ \A i \in Instances : WF_vars(SubscribeTakesEffect(i)) /\ WF_vars(DeliverDone(i))
  /\ WF_vars(Judged)
FairSpec == Spec /\ Fairness

-----------------------------------------------------------------------------
(* The type of every variable. *)
TypeOK ==
  /\ judged \in BOOLEAN
  /\ stream \in [Conns -> {"new", "open", "closed"}]
  /\ at \in [Conns -> Instances \union {NoInstance}]
  /\ zset \in Seq(Conns)
  /\ local \in [Instances -> SUBSET Conns]
  /\ cmds \in [Instances -> Seq(Command)]
  /\ listening \in [Instances -> {"no", "asked", "yes"}]
  /\ doneBox \in [Instances -> BOOLEAN]
  /\ dead \in SUBSET Instances
  /\ expiries \in 0..MaxExpiries
  /\ evicted \in SUBSET Conns
  /\ overlap \in BOOLEAN

(* A connection that is counted is open, or about to be taken out, or was  *)
(* lost with its instance: closing a stream in the middle of its own       *)
(* registration never leaves it counted for the hour the key lives.        *)
NoGhostCounted ==
  \A c \in ToSet(zset) :
    \/ stream[c] = "open"
    \/ at[c] \in dead
    \/ Unregister(c) \in ToSet(cmds[at[c]])

(* What a registration that nothing overlaps leaves in Redis: no more      *)
(* connections than the limit are counted, and until the key expires every *)
(* open stream is counted but those that were evicted. It is the count     *)
(* that is limited, not the streams: an evicted one is never closed, since *)
(* ParseMember takes the name of its instance apart, and stays open beside *)
(* the counted ones (OpenWithinLimit). Overlapping registrations may both  *)
(* evict the same connection, and then leave more in the count as well.    *)
CountHoldsAlone ==
  ~Busy =>
    /\ ~overlap => Len(zset) <= MaxConnections
    /\ expiries = 0 => \A c \in Conns : stream[c] = "open" => c \in ToSet(zset) \union evicted

(* The user's streams that are open are no more than the limit, once a     *)
(* registration that nothing overlapped is over and its eviction has been  *)
(* delivered: what the requirements of the connection limit say, and what  *)
(* handleLocalEviction does not bring about.                               *)
OpenWithinLimit ==
  ~overlap /\ ~Busy /\ evictBox = {} =>
    Cardinality({c \in Conns : stream[c] = "open"}) <= MaxConnections

(* A stream open on an instance that listens, while its submission is not  *)
(* judged, ends by itself (or with its instance): 'done' also ends a       *)
(* stream whose registration is still under way.                           *)
Hears(c) == stream[c] = "open" /\ listening[at[c]] = "yes" /\ ~judged
StreamEnds == \A c \in Conns : Hears(c) ~> (stream[c] = "closed")
=============================================================================
