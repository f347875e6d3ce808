------------------------- MODULE Http2PoolInvariant -------------------------
(***************************************************************************)
(* The invariant of the HTTP/2 pool, for any number of requests,           *)
(* connections and limits, and the steps of Pool::acquire().               *)
(*                                                                         *)
(* A slot of a connection is shared by the caller and by Hyper's upload,   *)
(* and freed by whichever ends last; the argument is an invariant (Held)   *)
(* that relates Activity::active to the attempts that hold a share, and    *)
(* one (Stage) on what a request holds at each of its awaits.              *)
(***************************************************************************)
EXTENDS Http2Pool, FiniteSetTheorems, TLAPS

USE ZenonT(5), SMTT(30)

Stages == Acquiring \cup {"idle", "prepare", "send", "submitted", "refused", "body", "done"}
Holding == {"prepare", "send", "submitted", "refused", "body"}
Results == {"None", "unsent", "refusal", "unknown", "response"}
Closings == {"check", "waiting", "closed", "forced"}

Attempts == 1 .. 2
Uploads == SUBSET (Attempts \X Ids)
Slots == Ids \cup {None}

TaskType ==
  [at : Stages, attempt : Attempts, size : Nat, woken : BOOLEAN, chan : Slots,
   uploads : Uploads, ran : SUBSET Attempts, refusal : BOOLEAN, avoid : Slots,
   result : Results]
ActivityType ==
  [active : Nat, maximum : Streams \cup {0}, retired : BOOLEAN, forced : BOOLEAN,
   stopped : BOOLEAN]

CloserType == [at : Closings \cup {"open", "dropped"}, woken : BOOLEAN, calls : Nat]

\* The shape of the pool, of the tasks and of close(); a connection is in channels once.
TypeOK ==
  /\ task \in [Tasks -> TaskType] /\ activity \in [Ids -> ActivityType]
  /\ channels \in Seq(Ids)
  /\ \A i, j \in 1 .. Len(channels) : channels[i] = channels[j] => i = j
  /\ connecting \in BOOLEAN /\ closed \in BOOLEAN
  /\ closer \in CloserType

\* What a task holds at each of its awaits.  Connections it holds or avoids are open, the
\* one it avoids is retired; an upload of the attempt under way shares its slot.
Stage(r) ==
  /\ r.at \notin Holding => r.chan = None
  /\ r.chan # None => r.chan \in Range(channels) /\ r.chan # r.avoid
  /\ r.avoid # None => r.avoid \in Range(channels) /\ activity[r.avoid].retired
  /\ r.at = "refused" => r.attempt = 1 /\ (r.chan # None => activity[r.chan].retired)
  /\ \A u \in r.uploads :
       /\ u[2] \in Range(channels)
       /\ r.at # "done" /\ r.attempt = 1 => u[1] = 1
       /\ r.at \notin {"submitted", "refused", "body", "done"} => u[1] # r.attempt
       /\ u[1] = r.attempt /\ r.chan # None => u[2] = r.chan
  /\ r.at \notin {"submitted", "body", "done"} => r.ran = {}
  /\ r.at = "submitted" => r.ran \subseteq {r.attempt}
  /\ r.at = "body" => \/ r.result = "response" /\ r.ran # {}
                      \/ r.result = "refusal" /\ r.ran = {}
  /\ r.at = "done" => r.avoid = None
Staged == \A t \in Tasks : Stage(task[t])

\* Activity::active is the number of shares held, within some limit of the peer.
Shares(c) == {p \in Tasks \X (1 .. 2) : p[2] \in Leases(p[1], c)}
Held == \A c \in Ids : /\ activity[c].active = Cardinality(Shares(c))
                       /\ \E m \in Streams \cup {0} : activity[c].active <= m

\* The budget of Waiting is that of the requests in acquire().
Retained == UNION {{t} \X (1 .. task[t].size) : t \in Inside}
Queued ==
  /\ waitingRequests = Cardinality(Inside) /\ waitingRequests <= WaitingRequests
  /\ waitingBytes = Cardinality(Retained) /\ waitingBytes <= WaitingBytes

\* One task at a time opens a connection, and there is room for it.
Opens(t) == task[t].at \in {"connect", "pushed"}
Roomy ==
  /\ connecting <=> \E t \in Tasks : Opens(t)
  /\ \A t, u \in Tasks : Opens(t) /\ Opens(u) => t = u
  /\ Cardinality(Live) + Opening <= Connections
  /\ Len(channels) + Opening <= Connections + 1

\* close() has closed the pool before it waits.
Closing == (closer.at \in Closings => closed) /\ CloseIsQuiet

IInv == TypeOK /\ Staged /\ Held /\ Queued /\ Roomy /\ NoLostWakeup /\ Closing

-----------------------------------------------------------------------------
(* Steps in general.                                                       *)

LeasesOf(r, c) == {a \in 1 .. 2 : (r.chan = c /\ r.attempt = a) \/ <<a, c>> \in r.uploads}

\* What a notification leaves of a task.
Alike(r, q) ==
  /\ q.at = r.at /\ q.attempt = r.attempt /\ q.size = r.size /\ q.chan = r.chan
  /\ q.uploads = r.uploads /\ q.ran = r.ran /\ q.refusal = r.refusal
  /\ q.avoid = r.avoid /\ q.result = r.result

\* Task t becomes new; all are at most notified besides.
Becomes(t, new) ==
  /\ task' \in [Tasks -> TaskType]
  /\ Alike(new, task'[t])
  /\ \A u \in Tasks \ {t} : Alike(task[u], task'[u])

\* Only t changes, or everybody is notified as well.
Alone(t, new) == task' = [task EXCEPT ![t] = new] /\ closer' = closer
Loud(t, new) == Notify([task EXCEPT ![t] = new])

Asleep(r) == r.at \in {"parking", "waiting"} /\ ~r.woken

\* What a task's step keeps of the connections.
Carried ==
  /\ activity' \in [Ids -> ActivityType]
  /\ channels' \in Seq(Ids)
  /\ \A i, j \in 1 .. Len(channels') : channels'[i] = channels'[j] => i = j
  /\ Range(channels) \subseteq Range(channels')
  /\ \A c \in Range(channels) : activity[c].retired => activity'[c].retired

LEMMA AloneBecomes ==
  ASSUME TypeOK, NEW t \in Tasks, NEW new \in TaskType, Alone(t, new)
  PROVE  Becomes(t, new)
BY DEF TypeOK, Becomes, Alike, Alone

\* notify_waiters() leaves nobody asleep who was not just put to sleep.
LEMMA LoudBecomes ==
  ASSUME TypeOK, NEW t \in Tasks, NEW new \in TaskType, Loud(t, new),
         new.at \in {"parking", "waiting"} => task[t].at \in Enabled
  PROVE  Becomes(t, new) /\ \A u \in Tasks : ~Asleep(task'[u])
<1> DEFINE all == [task EXCEPT ![t] = new]
<1>1. task' = [u \in Tasks |-> IF task[u].at \in Enabled /\ all[u].at \in Enabled
                               THEN [all[u] EXCEPT !.woken = TRUE] ELSE all[u]]
  BY DEF Loud, Notify
<1>2. all \in [Tasks -> TaskType] /\ all[t] = new /\ \A u \in Tasks \ {t} : all[u] = task[u]
  BY DEF TypeOK
<1> HIDE DEF all
<1>3. ASSUME NEW u \in Tasks
      PROVE  /\ task'[u] \in TaskType /\ Alike(all[u], task'[u])
             /\ task[u].at \in Enabled /\ all[u].at \in Enabled => task'[u].woken
  <2>1. all[u] \in TaskType BY <1>2
  <2> QED BY <1>1, <2>1, Zenon DEF TaskType, Alike
<1>4. Becomes(t, new) BY <1>1, <1>2, <1>3 DEF Becomes
<1>5. ASSUME NEW u \in Tasks PROVE ~Asleep(task'[u])
  <2>1. CASE u = t BY <1>2, <1>3, <2>1 DEF Alike, Asleep, Enabled
  <2>2. CASE u # t BY <1>2, <1>3, <2>2 DEF Alike, Asleep, Enabled
  <2> QED BY <2>1, <2>2
<1> QED BY <1>4, <1>5

\* The shares of a connection, by task.
LEMMA SharesBy ==
  \A c : /\ Shares(c) = {p \in Tasks \X (1 .. 2) : p[2] \in LeasesOf(task[p[1]], c)}
         /\ Shares(c)' = {p \in Tasks \X (1 .. 2) : p[2] \in LeasesOf(task'[p[1]], c)}
BY DEF Shares, Leases, LeasesOf

LEMMA SharesFinite == \A c : IsFiniteSet(Shares(c)) /\ Cardinality(Shares(c)) \in Nat
<1> SUFFICES ASSUME NEW c PROVE IsFiniteSet(Shares(c)) /\ Cardinality(Shares(c)) \in Nat
  OBVIOUS
<1>1. IsFiniteSet(1 .. 2) BY FS_Interval, 1 \in Int, 2 \in Int, Zenon
<1>2. IsFiniteSet(Tasks \X (1 .. 2)) BY <1>1, FS_Product, Http2Assumption
<1>3. Shares(c) \subseteq Tasks \X (1 .. 2) BY DEF Shares
<1>4. IsFiniteSet(Shares(c)) BY <1>2, <1>3, FS_Subset
<1> QED BY <1>4, FS_CardinalityType

LEMMA AlikeLeases ==
  ASSUME NEW r, NEW q, Alike(r, q) PROVE \A c : LeasesOf(q, c) = LeasesOf(r, c)
BY DEF Alike, LeasesOf

\* Held survives a step that leaves shares and counters alone.
LEMMA HeldKept ==
  ASSUME Held, NEW t \in Tasks, NEW new, Becomes(t, new),
         \A c \in Ids : /\ LeasesOf(new, c) = LeasesOf(task[t], c)
                        /\ activity'[c].active = activity[c].active
  PROVE  Held'
<1>1. \A u \in Tasks, c \in Ids : LeasesOf(task'[u], c) = LeasesOf(task[u], c)
  BY AlikeLeases DEF Becomes
<1>2. \A c \in Ids : Shares(c)' = Shares(c) BY <1>1, SharesBy, Zenon
<1> QED BY <1>2 DEF Held

\* Held survives a step in which attempt a of t takes a slot of d.
LEMMA HeldTaken ==
  ASSUME TypeOK, Held, NEW t \in Tasks, NEW new, Becomes(t, new), NEW d \in Ids, NEW a \in 1 .. 2,
         a \notin LeasesOf(task[t], d), LeasesOf(new, d) = LeasesOf(task[t], d) \cup {a},
         \A c \in Ids \ {d} : /\ LeasesOf(new, c) = LeasesOf(task[t], c)
                              /\ activity'[c].active = activity[c].active,
         activity'[d].active = activity[d].active + 1,
         activity[d].active < activity[d].maximum
  PROVE  Held'
<1>1. \A u \in Tasks \ {t}, c \in Ids : LeasesOf(task'[u], c) = LeasesOf(task[u], c)
  BY AlikeLeases DEF Becomes
<1>2. \A c \in Ids : LeasesOf(task'[t], c) = LeasesOf(new, c) BY AlikeLeases DEF Becomes
<1>3. ASSUME NEW c \in Ids \ {d} PROVE Shares(c)' = Shares(c)
  <2>1. \A u \in Tasks : LeasesOf(task'[u], c) = LeasesOf(task[u], c) BY <1>1, <1>2
  <2> QED BY <2>1, SharesBy, Zenon
<1>4. Shares(d)' = Shares(d) \cup {<<t, a>>} /\ <<t, a>> \notin Shares(d)
  BY <1>1, <1>2, SharesBy
<1>5. Cardinality(Shares(d)') = Cardinality(Shares(d)) + 1
  <2> DEFINE L == Shares(d)  p == <<t, a>>
  <2>1. IsFiniteSet(L) /\ p \notin L BY <1>4, SharesFinite
  <2> HIDE DEF L, p
  <2>2. Cardinality(L \cup {p}) = Cardinality(L) + 1 BY <2>1, FS_AddElement, Zenon
  <2> QED BY <1>4, <2>2 DEF L, p
<1>6. /\ activity[d].active \in Nat /\ activity[d].maximum \in Nat
      /\ activity[d].maximum \in Streams \cup {0}
  <2>1. activity[d] \in ActivityType BY DEF TypeOK
  <2>2. activity[d].active \in Nat /\ activity[d].maximum \in Streams \cup {0}
    BY <2>1 DEF ActivityType
  <2>3. Streams \cup {0} \subseteq Nat BY Http2Assumption
  <2> QED BY <2>2, <2>3
<1>7. activity'[d].active <= activity[d].maximum BY <1>6
<1>8. ASSUME NEW c \in Ids
      PROVE  /\ activity'[c].active = Cardinality(Shares(c)')
             /\ \E m \in Streams \cup {0} : activity'[c].active <= m
  <2>1. CASE c = d BY <1>5, <1>6, <1>7, <2>1 DEF Held
  <2>2. CASE c # d BY <1>3, <2>2 DEF Held
  <2> QED BY <2>1, <2>2
<1> QED BY <1>8 DEF Held

\* A slot that is held counts.
LEMMA HeldCounts ==
  ASSUME TypeOK, Held, NEW t \in Tasks, NEW d \in Ids, NEW a \in 1 .. 2,
         a \in LeasesOf(task[t], d)
  PROVE  activity[d].active \in Nat \ {0} /\ activity[d].active - 1 \in Nat
<1>1. <<t, a>> \in Shares(d) BY SharesBy
<1>2. Cardinality(Shares(d)) # 0 BY <1>1, SharesFinite, FS_EmptySet
<1>3. activity[d].active = Cardinality(Shares(d)) BY DEF Held
<1>4. activity[d].active \in Nat BY DEF TypeOK, ActivityType
<1> QED BY <1>2, <1>3, <1>4

\* Held survives a step in which attempt a of t gives its slot of d back.
Drops(t, new, d, a) ==
  /\ a \in LeasesOf(task[t], d) /\ LeasesOf(new, d) = LeasesOf(task[t], d) \ {a}
  /\ \A c \in Ids \ {d} : /\ LeasesOf(new, c) = LeasesOf(task[t], c)
                          /\ activity'[c].active = activity[c].active
  /\ activity'[d].active = activity[d].active - 1
LEMMA HeldDropped ==
  ASSUME TypeOK, Held, NEW t \in Tasks, NEW new, Becomes(t, new), NEW d \in Ids, NEW a \in 1 .. 2,
         Drops(t, new, d, a)
  PROVE  Held'
<1> USE DEF Drops
<1>1. \A u \in Tasks \ {t}, c \in Ids : LeasesOf(task'[u], c) = LeasesOf(task[u], c)
  BY AlikeLeases DEF Becomes
<1>2. \A c \in Ids : LeasesOf(task'[t], c) = LeasesOf(new, c) BY AlikeLeases DEF Becomes
<1>3. ASSUME NEW c \in Ids \ {d} PROVE Shares(c)' = Shares(c)
  <2>1. \A u \in Tasks : LeasesOf(task'[u], c) = LeasesOf(task[u], c) BY <1>1, <1>2
  <2> QED BY <2>1, SharesBy, Zenon
<1>4. Shares(d)' = Shares(d) \ {<<t, a>>} /\ <<t, a>> \in Shares(d)
  BY <1>1, <1>2, SharesBy
<1>5. Cardinality(Shares(d)') = Cardinality(Shares(d)) - 1
  <2> DEFINE L == Shares(d)  p == <<t, a>>
  <2>1. IsFiniteSet(L) /\ p \in L BY <1>4, SharesFinite
  <2> HIDE DEF L, p
  <2>2. Cardinality(L \ {p}) = Cardinality(L) - 1 BY <2>1, FS_RemoveElement, Zenon
  <2> QED BY <1>4, <2>2 DEF L, p
<1>6. activity[d].active \in Nat BY DEF TypeOK, ActivityType
<1>7. PICK m \in Streams \cup {0} : activity[d].active <= m BY DEF Held
<1>8. activity'[d].active <= m
  <2> HIDE DEF Drops
  <2>1. activity'[d].active = activity[d].active - 1 BY DEF Drops
  <2>2. m \in Nat BY Http2Assumption
  <2> QED BY <1>6, <1>7, <2>1, <2>2
<1>9. ASSUME NEW c \in Ids
      PROVE  /\ activity'[c].active = Cardinality(Shares(c)')
             /\ \E k \in Streams \cup {0} : activity'[c].active <= k
  <2>1. CASE c = d BY <1>5, <1>8, <2>1 DEF Held
  <2>2. CASE c # d BY <1>3, <2>2 DEF Held
  <2> QED BY <2>1, <2>2
<1> QED BY <1>9 DEF Held

\* The requests in acquire() and what they retain are finitely many.
LEMMA QueueFinite ==
  ASSUME TypeOK
  PROVE  /\ IsFiniteSet(Inside) /\ Cardinality(Inside) \in Nat
         /\ IsFiniteSet(Retained) /\ Cardinality(Retained) \in Nat
<1>1. IsFiniteSet(Inside)
  <2>1. Inside \subseteq Tasks BY DEF Inside
  <2> QED BY <2>1, FS_Subset, Http2Assumption
<1>2. IsFiniteSet(Retained)
  <2> DEFINE Part(t) == {t} \X (1 .. task[t].size)
             Parts == {Part(t) : t \in Inside}
  <2>1. \A t \in Inside : IsFiniteSet(Part(t))
    <3> SUFFICES ASSUME NEW t \in Inside PROVE IsFiniteSet(Part(t)) OBVIOUS
    <3>1. task[t].size \in Int /\ 1 \in Int BY DEF TypeOK, TaskType, Inside
    <3>2. IsFiniteSet(1 .. task[t].size) BY <3>1, FS_Interval
    <3>3. IsFiniteSet({t}) BY FS_Singleton, Zenon
    <3> QED BY <3>2, <3>3, FS_Product, Zenon
  <2>2. Retained = UNION Parts BY DEF Retained
  <2> HIDE DEF Part
  <2>3. IsFiniteSet(Parts)
    <3> DEFINE f == [t \in Inside |-> Part(t)]
    <3>1. f \in Surjection(Inside, Parts) BY DEF Surjection
    <3> HIDE DEF f, Parts
    <3> QED BY <1>1, <3>1, FS_Surjection DEF ExistsSurjection
  <2>4. \A x \in Parts : IsFiniteSet(x) BY <2>1
  <2> HIDE DEF Parts
  <2> QED BY <2>2, <2>3, <2>4, FS_UNION
<1> QED BY <1>1, <1>2, FS_CardinalityType

\* What one request retains.
LEMMA BytesOf ==
  ASSUME NEW t, NEW size \in Nat
  PROVE  IsFiniteSet({t} \X (1 .. size)) /\ Cardinality({t} \X (1 .. size)) = size
<1> DEFINE A == {t}  B == 1 .. size
<1>1. IsFiniteSet(A) /\ Cardinality(A) = 1 BY FS_Singleton
<1>2. IsFiniteSet(B) /\ Cardinality(B) = size BY FS_Interval, 1 \in Int, size \in Int
<1> HIDE DEF A, B
<1>3. IsFiniteSet(A \X B) /\ Cardinality(A \X B) = Cardinality(A) * Cardinality(B)
  BY <1>1, <1>2, FS_Product
<1>4. IsFiniteSet(A \X B) /\ Cardinality(A \X B) = size BY <1>1, <1>2, <1>3
<1> QED BY <1>4 DEF A, B

\* The queue survives a step of a task that stays where it is of it.
LEMMA QueueKept ==
  ASSUME Queued, NEW t \in Tasks, NEW new, Becomes(t, new), UNCHANGED waits,
         new.at \in Acquiring <=> task[t].at \in Acquiring,
         new.at \in Acquiring => new.size = task[t].size
  PROVE  Queued'
<1>1. \A u \in Tasks : task'[u].at \in Acquiring <=> task[u].at \in Acquiring
  BY DEF Becomes, Alike
<1>2. Inside' = Inside BY <1>1 DEF Inside
<1>3. \A u \in Inside : task'[u].size = task[u].size BY DEF Becomes, Alike, Inside
<1>4. Retained' = Retained BY <1>2, <1>3 DEF Retained
<1> QED BY <1>2, <1>4 DEF Queued, waits

\* A request joins the queue.
LEMMA QueueJoined ==
  ASSUME TypeOK, Queued, NEW t \in Tasks, NEW size \in Nat, NEW new, Becomes(t, new), Fits(size),
         waitingRequests' = waitingRequests + 1, waitingBytes' = waitingBytes + size,
         task[t].at \notin Acquiring, new.at \in Acquiring, new.size = size
  PROVE  Queued'
<1> DEFINE more == {t} \X (1 .. size)
<1>1. \A u \in Tasks : task'[u].at \in Acquiring <=> u = t \/ task[u].at \in Acquiring
  BY DEF Becomes, Alike
<1>2. Inside' = Inside \cup {t} /\ t \notin Inside BY <1>1 DEF Inside
<1>3. Cardinality(Inside') = Cardinality(Inside) + 1 BY <1>2, QueueFinite, FS_AddElement, Zenon
<1>4. task'[t].size = size /\ \A u \in Inside : task'[u].size = task[u].size
  BY <1>2 DEF Becomes, Alike, Inside
<1>5. Retained' = Retained \cup more /\ Retained \cap more = {}
  BY <1>2, <1>4 DEF Retained
<1>6. IsFiniteSet(more) /\ Cardinality(more) = size BY BytesOf, Zenon
<1> HIDE DEF more
<1>7. Cardinality(Retained') = Cardinality(Retained) + size
  <2>1. Cardinality(Retained \cup more) =
          Cardinality(Retained) + Cardinality(more) - Cardinality(Retained \cap more)
    BY <1>6, QueueFinite, FS_Union
  <2>2. Cardinality(Retained \cap more) = 0 BY <1>5, FS_EmptySet, Zenon
  <2> QED BY <1>5, <1>6, <2>1, <2>2, QueueFinite
<1>8. waitingRequests' <= WaitingRequests /\ waitingBytes' <= WaitingBytes
  BY QueueFinite, Http2Assumption DEF Fits, Queued
<1> QED BY <1>3, <1>7, <1>8 DEF Queued

\* A request leaves the queue.
LEMMA QueueLeft ==
  ASSUME TypeOK, Queued, NEW t \in Tasks, NEW new, Becomes(t, new), EndWait(t),
         task[t].at \in Acquiring, new.at \notin Acquiring
  PROVE  Queued'
<1> DEFINE size == task[t].size
           less == {t} \X (1 .. size)
<1>0. size \in Nat BY DEF TypeOK, TaskType
<1>1. \A u \in Tasks : task'[u].at \in Acquiring <=> u # t /\ task[u].at \in Acquiring
  BY DEF Becomes, Alike
<1>2. Inside' = Inside \ {t} /\ t \in Inside BY <1>1 DEF Inside
<1>3. Cardinality(Inside') = Cardinality(Inside) - 1
  BY <1>2, QueueFinite, FS_RemoveElement, Zenon
<1>4. \A u \in Inside' : task'[u].size = task[u].size BY <1>2 DEF Becomes, Alike, Inside
<1>5. Retained' = Retained \ less /\ less \subseteq Retained
  BY <1>2, <1>4 DEF Retained
<1>6. IsFiniteSet(less) /\ Cardinality(less) = size BY <1>0, BytesOf, Zenon
<1> HIDE DEF less
<1>7. Cardinality(Retained') = Cardinality(Retained) - size
  <2>1. Cardinality(Retained \ less) = Cardinality(Retained) - Cardinality(Retained \cap less)
    BY QueueFinite, FS_Difference, Zenon
  <2>2. Retained \cap less = less BY <1>5
  <2> QED BY <1>5, <1>6, <2>1, <2>2
<1>8. waitingRequests' <= WaitingRequests /\ waitingBytes' <= WaitingBytes
  BY <1>0, QueueFinite, Http2Assumption DEF EndWait, Queued
<1> QED BY <1>3, <1>7, <1>8 DEF Queued, EndWait

\* The connections are finitely many.
LEMMA ChannelsFinite ==
  ASSUME channels \in Seq(Ids)
  PROVE  /\ IsFiniteSet(Range(channels)) /\ IsFiniteSet(Live) /\ Cardinality(Live) \in Nat
         /\ Range(channels) \subseteq Ids
<1>1. IsFiniteSet(1 .. Len(channels)) BY FS_Interval, 1 \in Int, Len(channels) \in Int
<1>2. channels \in Surjection(1 .. Len(channels), Range(channels)) BY DEF Surjection, Range
<1>3. IsFiniteSet(Range(channels)) BY <1>1, <1>2, FS_Surjection
<1>4. Live \subseteq Range(channels) BY DEF Live
<1>5. IsFiniteSet(Live) BY <1>3, <1>4, FS_Subset
<1> QED BY <1>3, <1>5, FS_CardinalityType DEF Range

\* Fewer live connections need less room.
LEMMA FewerLive ==
  ASSUME channels \in Seq(Ids), Live' \subseteq Live
  PROVE  Cardinality(Live') <= Cardinality(Live) /\ Cardinality(Live') \in Nat
<1> DEFINE A == Live  B == Live'
<1>1. IsFiniteSet(A) /\ B \subseteq A BY ChannelsFinite
<1> HIDE DEF A, B
<1>2. IsFiniteSet(B) /\ Cardinality(B) <= Cardinality(A) BY <1>1, FS_Subset
<1>3. Cardinality(B) \in Nat BY <1>2, FS_CardinalityType
<1> QED BY <1>2, <1>3 DEF A, B

\* Room survives a step that opens nothing and ends no opening.
LEMMA RoomKept ==
  ASSUME TypeOK, Roomy, NEW t \in Tasks, NEW new, Becomes(t, new), Carried,
         UNCHANGED <<channels, connecting>>,
         \/ new.at = task[t].at
         \/ new.at \notin {"connect", "pushed"} /\ task[t].at \notin {"connect", "pushed"}
  PROVE  Roomy'
<1>1. \A u \in Tasks : /\ task'[u].at = "connect" <=> task[u].at = "connect"
                       /\ Opens(u)' <=> Opens(u)
  BY DEF Becomes, Alike, Opens
<1>2. Opening' = Opening BY <1>1 DEF Opening
<1>3. Live' \subseteq Live
  BY DEF Live, Carried, TypeOK, ActivityType
<1>4. Cardinality(Live') <= Cardinality(Live) /\ Cardinality(Live') \in Nat
      /\ Cardinality(Live) \in Nat
  BY <1>3, FewerLive, ChannelsFinite DEF TypeOK
<1>5. Opening \in Nat BY DEF Opening
<1>6. Cardinality(Live') + Opening <= Connections
  BY <1>4, <1>5, Http2Assumption DEF Roomy
<1> QED BY <1>1, <1>2, <1>6 DEF Roomy

\* A stage lasts while connections stay and stay retired.
LEMMA StageLasts ==
  ASSUME NEW r, Stage(r), Range(channels) \subseteq Range(channels'),
         \A c \in Range(channels) : activity[c].retired => activity'[c].retired
  PROVE  Stage(r)'
BY DEF Stage

\* The stages of the tasks that are at most notified last.
LEMMA StagesKept ==
  ASSUME Staged, Carried, NEW t \in Tasks, NEW new, Becomes(t, new), Stage(new)'
  PROVE  Staged'
<1>1. ASSUME NEW u \in Tasks \ {t} PROVE Stage(task[u])'
  <2>1. Alike(task[u], task'[u]) /\ Stage(task[u]) BY DEF Becomes, Staged
  <2> QED BY <2>1 DEF Stage, Alike, Carried
<1>2. Stage(task[t])'
  <2>1. Alike(new, task'[t]) BY DEF Becomes
  <2> QED BY <2>1 DEF Stage, Alike
<1> QED BY <1>1, <1>2 DEF Staged

-----------------------------------------------------------------------------
(* Two kinds of step that most actions take.                               *)

\* The sleeping tasks of the new state were asleep, and what they wait for did not come.
LEMMA SleepersKept ==
  ASSUME NoLostWakeup, UNCHANGED <<channels, activity, connecting, closed>>,
         \A u \in Tasks : /\ Asleep(task'[u]) => Asleep(task[u])
                          /\ task[u].at = "pushed" => task'[u].at = "pushed"
  PROVE  NoLostWakeup'
<1>1. Usable' = Usable BY DEF Usable, Eligible
<1>2. MayConnect' = MayConnect BY DEF MayConnect, Serving, Eligible
<1> QED BY <1>1, <1>2 DEF NoLostWakeup, Asleep

LEMMA NobodySleeps ==
  ASSUME \A u \in Tasks : ~Asleep(task'[u]) PROVE NoLostWakeup'
BY DEF NoLostWakeup, Asleep

\* notify_waiters() wakes close() too.
LEMMA CloserNotified ==
  ASSUME TypeOK, Closing, closer' = [closer EXCEPT !.woken = @ \/ closer.at = "waiting"],
         UNCHANGED closed, closer.at = "closed" => ~connecting' /\ channels' = <<>>
  PROVE  Closing' /\ closer' \in CloserType
<1>1. /\ closer'.at = closer.at /\ closer'.calls = closer.calls
      /\ closer'.woken = (closer.woken \/ closer.at = "waiting")
  BY DEF TypeOK, CloserType
<1>2. Closing' BY <1>1, Zenon DEF Closing, CloseIsQuiet
<1>3. closer.woken \in BOOLEAN BY DEF TypeOK, CloserType
<1> QED BY <1>2, <1>3, Zenon DEF TypeOK, CloserType

\* A step of t alone that leaves the connections alone.
LEMMA Quietly ==
  ASSUME IInv, NEW t \in Tasks, NEW new \in TaskType, Alone(t, new),
         UNCHANGED <<channels, activity, connecting, closed>>,
         \/ new.at = task[t].at
         \/ new.at \notin {"connect", "pushed"} /\ task[t].at \notin {"connect", "pushed"},
         Asleep(new) => Asleep(task[t]), Stage(new), Queued',
         \A c \in Ids : LeasesOf(new, c) = LeasesOf(task[t], c)
  PROVE  IInv' /\ Becomes(t, new)
<1>1. TypeOK /\ Staged /\ Held /\ Roomy /\ NoLostWakeup /\ Closing BY DEF IInv
<1>2. Becomes(t, new) BY <1>1, AloneBecomes
<1>3. Carried BY <1>1 DEF TypeOK, Carried
<1>4. Stage(new)' BY DEF Stage
<1>5. Staged' BY <1>1, <1>2, <1>3, <1>4, StagesKept
<1>6. Held' BY <1>1, <1>2, HeldKept
<1>7. Roomy' BY <1>1, <1>2, <1>3, RoomKept
<1>8. NoLostWakeup'
  <2>1. \A u \in Tasks : task'[u] = IF u = t THEN new ELSE task[u]
    BY <1>1 DEF Alone, TypeOK
  <2> QED BY <1>1, <2>1, SleepersKept
<1>9. Closing' BY <1>1 DEF Closing, CloseIsQuiet, Alone
<1>10. TypeOK' BY <1>1, <1>2 DEF TypeOK, Becomes, Alone
<1> QED BY <1>2, <1>5, <1>6, <1>7, <1>8, <1>9, <1>10 DEF IInv

\* A step of t, none of acquire()'s, that notifies everybody and may retire connections.
LEMMA Loudly ==
  ASSUME IInv, NEW t \in Tasks, NEW new \in TaskType, Loud(t, new), UNCHANGED state,
         activity' \in [Ids -> ActivityType],
         \A c \in Range(channels) : activity[c].retired => activity'[c].retired,
         \/ task[t].at \notin Acquiring /\ new.at \notin Acquiring
         \/ new.at = task[t].at /\ new.size = task[t].size,
         Stage(new)', Becomes(t, new) => Held'
  PROVE  IInv' /\ Becomes(t, new)
<1>1. TypeOK /\ Staged /\ Queued /\ Roomy /\ Closing BY DEF IInv
<1>2. Becomes(t, new) /\ \A u \in Tasks : ~Asleep(task'[u])
  BY <1>1, LoudBecomes DEF Acquiring, Enabled
<1>3. Carried BY <1>1 DEF TypeOK, Carried, state
<1>4. Staged' BY <1>1, <1>2, <1>3, StagesKept
<1>5. Queued' BY <1>1, <1>2, QueueKept DEF state
<1>6. Roomy' BY <1>1, <1>2, <1>3, RoomKept DEF state, Acquiring
<1>7. NoLostWakeup' BY <1>2, NobodySleeps
<1>8. Closing' /\ closer' \in CloserType
  <2>1. closer' = [closer EXCEPT !.woken = @ \/ closer.at = "waiting"] BY DEF Loud, Notify
  <2>2. closer.at = "closed" => ~connecting' /\ channels' = <<>>
    BY <1>1 DEF Closing, CloseIsQuiet, state
  <2> QED BY <1>1, <2>1, <2>2, CloserNotified DEF state
<1>9. TypeOK' BY <1>1, <1>2, <1>8 DEF TypeOK, Becomes, state
<1> QED BY <1>2, <1>4, <1>5, <1>6, <1>7, <1>8, <1>9 DEF IInv

\* A connection has one active slot less.
LEMMA SlotFreed ==
  ASSUME TypeOK, NEW d \in Ids, activity[d].active - 1 \in Nat,
         activity' = [activity EXCEPT ![d].active = @ - 1]
  PROVE  /\ activity' \in [Ids -> ActivityType]
         /\ \A c \in Ids : activity'[c].retired = activity[c].retired
         /\ \A c \in Ids \ {d} : activity'[c].active = activity[c].active
         /\ activity'[d].active = activity[d].active - 1
<1>1. activity \in [Ids -> ActivityType] BY DEF TypeOK
<1>2. activity'[d] = [activity[d] EXCEPT !.active = @ - 1] BY <1>1
<1>3. \A c \in Ids \ {d} : activity'[c] = activity[c] BY <1>1
<1>4. activity[d] \in ActivityType BY <1>1
<1>5. /\ activity'[d] \in ActivityType /\ activity'[d].active = activity[d].active - 1
      /\ activity'[d].retired = activity[d].retired
  BY <1>2, <1>4 DEF ActivityType
<1>6. DOMAIN activity' = Ids BY <1>1
<1> QED BY <1>1, <1>3, <1>5, <1>6

\* The caller's share of a slot ends; the slot is freed unless the upload has a share.
LEMMA Releases ==
  ASSUME IInv, NEW t \in Tasks, NEW new \in TaskType, Release(t, new),
         task[t].at \notin Acquiring, new.at \notin Acquiring,
         new.chan = None, new.uploads = task[t].uploads, Stage(new)
  PROVE  IInv' /\ Becomes(t, new)
<1> DEFINE d == task[t].chan  a == task[t].attempt
<1>0. TypeOK /\ Staged /\ Held /\ Queued BY DEF IInv
<1>1. /\ task[t] \in TaskType /\ Stage(task[t]) /\ a \in 1 .. 2 /\ d \in Ids \cup {None}
      /\ task[t].uploads \subseteq (1 .. 2) \X Ids
  BY <1>0 DEF TypeOK, Staged, TaskType, Attempts, Uploads, Slots
<1>2. \A c \in Ids : LeasesOf(new, c) = {k \in 1 .. 2 : <<k, c>> \in task[t].uploads}
  BY Http2Assumption DEF LeasesOf
<1>3. CASE d = None \/ \E u \in task[t].uploads : u[1] = a
  <2>1. Alone(t, new) /\ UNCHANGED <<channels, activity, connecting, closed, waits>>
    BY <1>3 DEF Release, Alone, state
  <2>2. ASSUME NEW c \in Ids PROVE LeasesOf(new, c) = LeasesOf(task[t], c)
    <3>1. ASSUME d = c PROVE <<a, c>> \in task[t].uploads
      <4>1. d # None BY <3>1, Http2Assumption
      <4>2. PICK u \in task[t].uploads : u[1] = a BY <1>3, <4>1
      <4>3. u[2] = c BY <1>1, <3>1, <4>1, <4>2 DEF Stage
      <4>4. u = <<u[1], u[2]>> BY <1>1
      <4> QED BY <4>2, <4>3, <4>4
    <3> QED BY <1>2, <3>1 DEF LeasesOf
  <2>3. Becomes(t, new) BY <1>0, <2>1, AloneBecomes
  <2>4. Queued' BY <1>0, <2>1, <2>3, QueueKept
  <2> QED BY <2>1, <2>2, <2>4, Quietly DEF Asleep, Acquiring
<1>4. CASE ~(d = None \/ \E u \in task[t].uploads : u[1] = a)
  <2>1. /\ Loud(t, new) /\ UNCHANGED state
        /\ activity' = [activity EXCEPT ![d].active = @ - 1]
    BY <1>4 DEF Release, EndLease, Loud
  <2>2. d \in Ids /\ a \in LeasesOf(task[t], d) BY <1>1, <1>4 DEF LeasesOf
  <2>3. activity[d].active \in Nat \ {0} /\ activity[d].active - 1 \in Nat
    BY <1>0, <1>1, <2>2, HeldCounts
  <2>4. /\ activity' \in [Ids -> ActivityType]
        /\ \A c \in Ids : activity'[c].retired = activity[c].retired
        /\ \A c \in Ids \ {d} : activity'[c].active = activity[c].active
        /\ activity'[d].active = activity[d].active - 1
    BY <1>0, <2>1, <2>2, <2>3, SlotFreed, Zenon
  <2>5. LeasesOf(new, d) = LeasesOf(task[t], d) \ {a} BY <1>2, <1>4, <2>2 DEF LeasesOf
  <2>6. \A c \in Ids \ {d} : LeasesOf(new, c) = LeasesOf(task[t], c) BY <1>2 DEF LeasesOf
  <2>7. Range(channels) \subseteq Ids BY <1>0, ChannelsFinite DEF TypeOK
  <2>8. Stage(new)' BY <2>1, <2>4, <2>7 DEF Stage, state
  <2> HIDE DEF d, a
  <2>9. Drops(t, new, d, a) BY <2>2, <2>4, <2>5, <2>6 DEF Drops
  <2>10. Becomes(t, new) => Held' BY <1>0, <1>1, <2>2, <2>9, HeldDropped
  <2> QED BY <2>1, <2>4, <2>7, <2>8, <2>10, Loudly
<1> QED BY <1>3, <1>4

-----------------------------------------------------------------------------
(* Steps of the contract.                                                  *)

\* A notified task looks the same to its caller.
LEMMA AlikeLooks ==
  ASSUME NEW r, NEW q, Alike(r, q)
  PROVE  Phase(q) = Phase(r) /\ Place(q) = Place(r) /\ Avoid(q) = Avoid(r) /\ Told(q) = Told(r)
BY DEF Alike, Phase, Place, Avoid, Told

\* All tasks look as the step says.
LEMMA AllLook ==
  ASSUME NEW t \in Tasks, NEW new, Becomes(t, new)
  PROVE  /\ Phase(task'[t]) = Phase(new) /\ Place(task'[t]) = Place(new)
         /\ Avoid(task'[t]) = Avoid(new) /\ Told(task'[t]) = Told(new)
         /\ \A u \in Tasks \ {t} :
              /\ Phase(task'[u]) = Phase(task[u]) /\ Place(task'[u]) = Place(task[u])
              /\ Avoid(task'[u]) = Avoid(task[u]) /\ Told(task'[u]) = Told(task[u])
BY AlikeLooks DEF Becomes

\* A step that leaves the looks of t alone is none of the contract.
LEMMA LooksTheSame ==
  ASSUME NEW t \in Tasks, NEW new, Becomes(t, new),
         Phase(new) = Phase(task[t]), Place(new) = Place(task[t]),
         Avoid(new) = Avoid(task[t]), Told(new) = Told(task[t])
  PROVE  UNCHANGED Contract!vars
<1>1. \A u \in Tasks :
         /\ Phase(task'[u]) = Phase(task[u]) /\ Place(task'[u]) = Place(task[u])
         /\ Avoid(task'[u]) = Avoid(task[u]) /\ Told(task'[u]) = Told(task[u])
  BY AllLook
<1> QED BY <1>1 DEF Contract!vars

\* A step that hands t over to a connection it does not avoid.
LEMMA Submits ==
  ASSUME NEW t \in Tasks, NEW new, Becomes(t, new),
         Phase(task[t]) = "open", Phase(new) = "sent", Told(task[t]) = "nothing",
         Place(new) \in {None} \cup (Ids \ {Avoid(task[t])}),
         Avoid(new) = Avoid(task[t]), Told(new) = Told(task[t])
  PROVE  Contract!Next
<1>1. Contract!Submit(t)
  <2>0. \A u \in Tasks : /\ Phase(task'[u]) = IF u = t THEN "sent" ELSE Phase(task[u])
                         /\ Place(task'[u]) = IF u = t THEN Place(new) ELSE Place(task[u])
                         /\ Avoid(task'[u]) = Avoid(task[u]) /\ Told(task'[u]) = Told(task[u])
    BY AllLook
  <2>1. [u \in Tasks |-> Phase(task'[u])] =
          [[u \in Tasks |-> Phase(task[u])] EXCEPT ![t] = "sent"]
    BY <2>0, Zenon
  <2>2. [u \in Tasks |-> Place(task'[u])] =
          [[u \in Tasks |-> Place(task[u])] EXCEPT ![t] = Place(new)]
    BY <2>0, Zenon
  <2>3. /\ [u \in Tasks |-> Avoid(task'[u])] = [u \in Tasks |-> Avoid(task[u])]
        /\ [u \in Tasks |-> Told(task'[u])] = [u \in Tasks |-> Told(task[u])]
    BY <2>0
  <2> QED BY <2>1, <2>2, <2>3, Zenon DEF Contract!Submit
<1> QED BY <1>1 DEF Contract!Next

\* A step in which the gateway runs the request of t.
LEMMA Processes ==
  ASSUME NEW t \in Tasks, NEW new, Becomes(t, new),
         Phase(task[t]) = "sent", Phase(new) = "ran", Place(new) = None,
         Avoid(new) = Avoid(task[t]), Told(new) = Told(task[t])
  PROVE  Contract!Next
<1>1. Contract!Process(t) BY AllLook, ZenonT(40) DEF Contract!Process
<1> QED BY <1>1 DEF Contract!Next

\* A step in which the gateway gives the request of t back.
LEMMA ComesBack ==
  ASSUME NEW t \in Tasks, NEW new, Becomes(t, new),
         Phase(task[t]) = "sent", Phase(new) = "open", Place(new) = None,
         Avoid(new) \in {Avoid(task[t]), Place(task[t])}, Told(new) = Told(task[t])
  PROVE  Contract!Next
<1>1. Contract!ComeBack(t) BY AllLook, ZenonT(40) DEF Contract!ComeBack
<1> QED BY <1>1 DEF Contract!Next

\* A step in which the caller of t learns an outcome that is true.
LEMMA Tells ==
  ASSUME NEW t \in Tasks, NEW new, Becomes(t, new),
         Told(task[t]) = "nothing", Told(new) \in {"unprocessed", "response", "unknown"},
         Phase(new) = Phase(task[t]) \/ (Phase(task[t]) = "sent" /\ Phase(new) \in {"open", "ran"}),
         Told(new) = "unprocessed" => Phase(new) = "open",
         Told(new) = "response" => Phase(new) = "ran",
         Place(new) = None, Avoid(new) = None
  PROVE  Contract!Next
<1>1. Contract!Tell(t, Told(new))
  <2>1. [u \in Tasks |-> Phase(task'[u])] =
          [[u \in Tasks |-> Phase(task[u])] EXCEPT ![t] = Phase(new)]
    BY AllLook, ZenonT(40)
  <2>2. [u \in Tasks |-> Place(task'[u])] = [[u \in Tasks |-> Place(task[u])] EXCEPT ![t] = None]
    BY AllLook, ZenonT(40)
  <2>3. [u \in Tasks |-> Avoid(task'[u])] = [[u \in Tasks |-> Avoid(task[u])] EXCEPT ![t] = None]
    BY AllLook, ZenonT(40)
  <2>4. [u \in Tasks |-> Told(task'[u])] =
          [[u \in Tasks |-> Told(task[u])] EXCEPT ![t] = Told(new)]
    BY AllLook, ZenonT(40)
  <2> QED BY <2>1, <2>2, <2>3, <2>4, ZenonT(40) DEF Contract!Tell
<1> QED BY <1>1 DEF Contract!Next, Contract!Outcomes

-----------------------------------------------------------------------------
(* An attempt ends.                                                        *)

Good == IInv' /\ [Contract!Next]_(Contract!vars)

LEMMA EndedShape ==
  ASSUME NEW r \in TaskType, NEW result \in Results, NEW new, new = Ended(r, result)
  PROVE  /\ new \in TaskType /\ new.at = "done" /\ new.chan = None /\ new.avoid = None
         /\ new.uploads = r.uploads /\ new.ran = r.ran /\ new.result = result
<1>1. NewTask \in TaskType
  BY DEF NewTask, TaskType, Stages, Results, Attempts, Uploads, Slots
<1>2. "done" \in Stages BY DEF Stages
<1>3. new = [NewTask EXCEPT !.at = "done", !.uploads = r.uploads, !.ran = r.ran, !.result = result]
  BY DEF Ended
<1>4. new \in TaskType BY <1>1, <1>2, <1>3, Zenon DEF TaskType
<1> QED BY <1>1, <1>3, <1>4 DEF NewTask

LEMMA FailedShape ==
  ASSUME NEW r \in TaskType, NEW resend, NEW new, new = Failed(r, resend)
  PROVE  /\ new \in TaskType /\ new.at \in {"idle", "done"} /\ new.chan = None
         /\ new.uploads = r.uploads /\ new.ran = r.ran
         /\ new.at = "idle" => new.attempt = 2 /\ r.attempt = 1 /\ new.avoid = r.avoid
         /\ new.at = "done" => new.avoid = None /\ new.result \in {"unsent", "refusal"}
<1>1. CASE resend /\ r.attempt = 1
  <2>1. new = [r EXCEPT !.at = "idle", !.attempt = 2, !.chan = None, !.woken = FALSE]
    BY <1>1 DEF Failed
  <2>2. "idle" \in Stages /\ 2 \in Attempts /\ None \in Slots BY DEF Stages, Attempts, Slots
  <2>3. new \in TaskType BY <2>1, <2>2, Zenon DEF TaskType
  <2>4. /\ new.at = "idle" /\ new.attempt = 2 /\ new.chan = None /\ new.uploads = r.uploads
        /\ new.ran = r.ran /\ new.avoid = r.avoid
    BY <2>1 DEF TaskType
  <2> QED BY <1>1, <2>3, <2>4, Zenon
<1>2. CASE ~(resend /\ r.attempt = 1)
  <2> DEFINE result == IF r.refusal THEN "refusal" ELSE "unsent"
  <2>1. new = Ended(r, result) BY <1>2 DEF Failed
  <2>2. result \in Results /\ result \in {"unsent", "refusal"} BY DEF Results
  <2> HIDE DEF result
  <2> QED BY <2>1, <2>2, EndedShape
<1> QED BY <1>1, <1>2

\* What is left of a task whose request was given back.
LEMMA FailedStage ==
  ASSUME IInv, NEW t \in Tasks, NEW r \in TaskType, NEW resend, NEW new, new = Failed(r, resend),
         task[t].at # "done", r.attempt = task[t].attempt, r.uploads = task[t].uploads,
         r.ran = {}, r.avoid = task[t].avoid
  PROVE  Stage(new)
<1>1. Stage(task[t]) BY DEF IInv, Staged
<1> DEFINE q == task[t]
<1> HIDE DEF q
<1>2. /\ new.at \in {"idle", "done"} /\ new.chan = None /\ new.uploads = q.uploads
      /\ new.ran = {}
      /\ new.at = "idle" => new.attempt = 2 /\ q.attempt = 1 /\ new.avoid = q.avoid
      /\ new.at = "done" => new.avoid = None
  BY FailedShape DEF q
<1>3. Stage(q) /\ q.at # "done" BY <1>1 DEF q
<1> QED BY <1>2, <1>3 DEF Stage, Holding

\* To the caller of a request that did not run, failing is coming back or a true answer.
LEMMA FailedTells ==
  ASSUME NEW t \in Tasks, task[t] \in TaskType, NEW r \in TaskType, NEW resend, NEW new,
         new = Failed(r, resend), Becomes(t, new), task[t].at \notin {"done", "refused"},
         r.ran = {}, task[t].ran = {},
         r.avoid = task[t].avoid \/ (task[t].at = "submitted" /\ r.avoid = task[t].chan)
  PROVE  [Contract!Next]_(Contract!vars)
<1>1. /\ new.at \in {"idle", "done"} /\ new.chan = None /\ new.ran = {}
      /\ new.at = "idle" => new.avoid = r.avoid
      /\ new.at = "done" => new.avoid = None /\ new.result \in {"unsent", "refusal"}
  BY FailedShape
<1>2. Phase(new) = "open" /\ Place(new) = None /\ Told(task[t]) = "nothing"
  BY <1>1 DEF Phase, Place, Told
<1>3. Avoid(new) = new.avoid /\ Avoid(task[t]) = task[t].avoid BY <1>1 DEF Avoid
<1>4. Phase(task[t]) = IF task[t].at = "submitted" THEN "sent" ELSE "open" BY DEF Phase
<1>5. CASE new.at = "done"
  <2>1. Told(new) = "unprocessed" BY <1>1, <1>5 DEF Told
  <2> QED BY <1>1, <1>2, <1>3, <1>4, <1>5, <2>1, Tells
<1>6. CASE new.at = "idle" /\ task[t].at = "submitted"
  <2>1. Told(new) = "nothing" BY <1>6 DEF Told
  <2>2. Place(task[t]) = task[t].chan BY <1>4, <1>6 DEF Place
  <2> QED BY <1>1, <1>2, <1>3, <1>4, <1>6, <2>1, <2>2, ComesBack
<1>7. CASE new.at = "idle" /\ task[t].at # "submitted"
  <2>1. Told(new) = "nothing" BY <1>7 DEF Told
  <2>2. Place(task[t]) = None BY <1>4, <1>7 DEF Place
  <2> QED BY <1>1, <1>2, <1>3, <1>4, <1>7, <2>1, <2>2, LooksTheSame
<1> QED BY <1>1, <1>5, <1>6, <1>7

\* A task that holds nothing.
LEMMA WaitingShape ==
  ASSUME IInv, NEW t \in Tasks, task[t].at \in Acquiring \cup {"idle"}
  PROVE  /\ task[t] \in TaskType /\ Stage(task[t]) /\ task[t].chan = None /\ task[t].ran = {}
         /\ Phase(task[t]) = "open" /\ Place(task[t]) = None /\ Told(task[t]) = "nothing"
         /\ Avoid(task[t]) = task[t].avoid
<1>1. task[t] \in TaskType /\ Stage(task[t]) BY DEF IInv, TypeOK, Staged
<1>2. task[t].chan = None /\ task[t].ran = {} BY <1>1 DEF Stage, Acquiring, Holding
<1> QED BY <1>1, <1>2 DEF Phase, Place, Told, Avoid, Acquiring

-----------------------------------------------------------------------------
(* Pool::acquire().                                                        *)

\* A task that holds no slot goes on without one.
LEMMA SameLeases ==
  ASSUME NEW r, NEW q, r.chan = None, q.chan = None, q.uploads = r.uploads
  PROVE  \A c \in Ids : LeasesOf(q, c) = LeasesOf(r, c)
BY Http2Assumption DEF LeasesOf

\* A task in acquire() that leaves it without a connection, not while it opens one.
LEMMA LeavesQueue ==
  ASSUME IInv, NEW t \in Tasks, task[t].at \in {"look", "waiting"},
         NEW new \in TaskType, new.at \in {"idle", "done"}, new.chan = None,
         new.uploads = task[t].uploads, Stage(new), task' = [task EXCEPT ![t] = new], EndWait(t),
         UNCHANGED <<channels, activity, connecting, closed, closer>>
  PROVE  IInv' /\ Becomes(t, new)
<1>1. task[t].chan = None BY WaitingShape DEF Acquiring
<1>2. Alone(t, new) BY DEF Alone
<1>3. Becomes(t, new) BY <1>2, AloneBecomes DEF IInv
<1>4. Queued' BY <1>3, QueueLeft DEF IInv, Acquiring
<1>5. \A c \in Ids : LeasesOf(new, c) = LeasesOf(task[t], c) BY <1>1, SameLeases
<1> QED BY <1>2, <1>4, <1>5, Quietly DEF Asleep

LEMMA GivesUp ==
  ASSUME IInv, NEW t \in Tasks, task[t].at \in {"look", "waiting"}, NEW resend \in BOOLEAN,
         task' = [task EXCEPT ![t] = Failed(@, resend)], EndWait(t),
         UNCHANGED <<channels, activity, connecting, closed, closer>>
  PROVE  Good
<1> DEFINE r == task[t]
           new == Failed(r, resend)
<1>1. r \in TaskType /\ r.ran = {} /\ task' = [task EXCEPT ![t] = new] /\ task \in [Tasks -> TaskType]
  BY WaitingShape DEF Acquiring, IInv, TypeOK
<1>2. Stage(new) BY <1>1, FailedStage
<1> HIDE DEF r
<1>3. new \in TaskType /\ new.at \in {"idle", "done"} /\ new.chan = None
      /\ new.uploads = r.uploads
  BY <1>1, FailedShape
<1> HIDE DEF new
<1>4. IInv' /\ Becomes(t, new) BY <1>1, <1>2, <1>3, LeavesQueue, Zenon DEF r
<1>5. [Contract!Next]_(Contract!vars) BY <1>1, <1>4, FailedTells DEF new, r
<1> QED BY <1>4, <1>5 DEF Good

LEMMA LookClosedStep == ASSUME IInv, NEW t \in Tasks, LookClosed(t) PROVE Good
BY GivesUp, Zenon DEF LookClosed

LEMMA WaitExpiresStep == ASSUME IInv, NEW t \in Tasks, WaitExpires(t) PROVE Good
BY GivesUp, Zenon DEF WaitExpires

LEMMA BeginStep == ASSUME IInv, NEW t \in Tasks, NEW size \in Sizes, Begin(t, size) PROVE Good
<1>0. /\ task[t] \in TaskType /\ task[t].ran = {} /\ task[t].at = "idle" /\ size \in Nat
      /\ task[t].chan = None /\ Stage(task[t]) /\ TypeOK /\ Queued
  BY WaitingShape, Http2Assumption DEF Begin, IInv
<1>1. CASE closed \/ ~Fits(size)
  <2> DEFINE r == [task[t] EXCEPT !.size = size]
             new == Failed(r, closed)
  <2>1. /\ r \in TaskType /\ r.attempt = task[t].attempt /\ r.uploads = task[t].uploads
        /\ r.ran = {} /\ r.avoid = task[t].avoid
    BY <1>0 DEF TaskType
  <2>2. task' = [task EXCEPT ![t] = new] /\ UNCHANGED <<waits, channels, activity, connecting,
                                                       closed, closer>>
    BY <1>1 DEF Begin
  <2> HIDE DEF r
  <2>3. new \in TaskType /\ new.at \in {"idle", "done"} /\ new.chan = None
        /\ new.uploads = task[t].uploads
    BY <2>1, FailedShape
  <2>4. Stage(new) BY <1>0, <2>1, FailedStage
  <2> HIDE DEF new
  <2>5. Alone(t, new) BY <2>2 DEF Alone
  <2>6. Becomes(t, new) BY <1>0, <2>3, <2>5, AloneBecomes
  <2>7. Queued' BY <1>0, <2>2, <2>3, <2>6, QueueKept DEF Acquiring
  <2>8. \A c \in Ids : LeasesOf(new, c) = LeasesOf(task[t], c) BY <1>0, <2>3, SameLeases
  <2>9. IInv' BY <1>0, <2>2, <2>3, <2>4, <2>5, <2>7, <2>8, Quietly DEF Asleep
  <2>10. [Contract!Next]_(Contract!vars) BY <1>0, <2>1, <2>6, FailedTells DEF new
  <2> QED BY <2>9, <2>10 DEF Good
<1>2. CASE ~(closed \/ ~Fits(size))
  <2> DEFINE new == [task[t] EXCEPT !.at = "look", !.size = size]
  <2>1. task' = [task EXCEPT ![t] = new] BY <1>0, <1>2, Zenon DEF Begin, TypeOK
  <2>2. /\ waitingRequests' = waitingRequests + 1 /\ waitingBytes' = waitingBytes + size
        /\ Fits(size) /\ UNCHANGED <<channels, activity, connecting, closed, closer>>
    BY <1>2 DEF Begin
  <2>3. "look" \in Stages /\ "look" \in Acquiring BY DEF Stages, Acquiring
  <2>4. new \in TaskType BY <1>0, <2>3, Zenon DEF TaskType
  <2>5. /\ new.at = "look" /\ new.size = size /\ new.attempt = task[t].attempt
        /\ new.chan = None /\ new.uploads = task[t].uploads /\ new.ran = {}
        /\ new.avoid = task[t].avoid
    BY <1>0 DEF TaskType
  <2> HIDE DEF new
  <2>6. Stage(new) BY <1>0, <2>5 DEF Stage, Holding
  <2>7. Alone(t, new) BY <2>1, <2>2 DEF Alone
  <2>8. Becomes(t, new) BY <1>0, <2>4, <2>7, AloneBecomes
  <2>9. Queued' BY <1>0, <2>2, <2>3, <2>5, <2>8, QueueJoined DEF Acquiring
  <2>10. \A c \in Ids : LeasesOf(new, c) = LeasesOf(task[t], c) BY <1>0, <2>5, SameLeases
  <2>11. IInv' BY <1>0, <2>2, <2>4, <2>5, <2>6, <2>7, <2>9, <2>10, Quietly DEF Asleep
  <2>12. UNCHANGED Contract!vars
    <3>1. /\ Phase(new) = Phase(task[t]) /\ Place(new) = Place(task[t])
          /\ Avoid(new) = Avoid(task[t]) /\ Told(new) = Told(task[t])
      BY <1>0, <2>5 DEF Phase, Place, Avoid, Told
    <3> QED BY <2>8, <3>1, LooksTheSame
  <2> QED BY <2>11, <2>12 DEF Good
<1> QED BY <1>1, <1>2

\* The invariant holds after a step of t if its parts do.
LEMMA Assembled ==
  ASSUME IInv, Carried, NEW t \in Tasks, NEW new, Becomes(t, new), Stage(new)', Held', Queued',
         Roomy', NoLostWakeup', Closing', closer' \in CloserType, connecting' \in BOOLEAN,
         closed' \in BOOLEAN
  PROVE  IInv'
<1>1. Staged' BY StagesKept DEF IInv
<1>2. TypeOK' BY DEF TypeOK, Becomes, Carried
<1> QED BY <1>1, <1>2 DEF IInv

\* Retiring connections changes nothing else of them.
LEMMA RetireFacts ==
  ASSUME TypeOK, NEW set, activity' = Retire(set), UNCHANGED channels
  PROVE  /\ Carried
         /\ \A c \in Ids : /\ activity'[c].active = activity[c].active
                           /\ activity'[c].maximum = activity[c].maximum
                           /\ activity'[c].stopped = activity[c].stopped
                           /\ activity'[c].retired <=> c \in set \/ activity[c].retired
<1>1. activity \in [Ids -> ActivityType] /\ Range(channels) \subseteq Ids
  BY ChannelsFinite DEF TypeOK
<1>2. ASSUME NEW c \in Ids
      PROVE  /\ activity'[c] \in ActivityType
             /\ activity'[c].active = activity[c].active
             /\ activity'[c].maximum = activity[c].maximum
             /\ activity'[c].stopped = activity[c].stopped
             /\ activity'[c].retired <=> c \in set \/ activity[c].retired
  <2>1. activity[c] \in ActivityType BY <1>1
  <2>2. CASE c \in set
    <3>1. activity'[c] = [activity[c] EXCEPT !.retired = TRUE] BY <2>2 DEF Retire
    <3> QED BY <2>1, <2>2, <3>1, Zenon DEF ActivityType
  <2>3. CASE c \notin set
    <3>1. activity'[c] = activity[c] BY <2>3 DEF Retire
    <3> QED BY <2>1, <2>3, <3>1
  <2> QED BY <2>2, <2>3
<1>3. DOMAIN activity' = Ids /\ activity' = [c \in Ids |-> activity'[c]] BY DEF Retire
<1>4. activity' \in [Ids -> ActivityType] BY <1>2, <1>3
<1>5. Carried BY <1>1, <1>2, <1>4 DEF Carried, TypeOK
<1> QED BY <1>2, <1>5

\* Once the eligible connections have been retired, the serving ones are the live ones.
LEMMA EligibleRetired ==
  ASSUME TypeOK, activity' = Retire(Eligible), UNCHANGED channels
  PROVE  Usable' = {} /\ Live' = Serving /\ Serving' = Serving
<1>1. \A c \in Ids : /\ activity'[c].active = activity[c].active
                     /\ activity'[c].maximum = activity[c].maximum
                     /\ activity'[c].retired <=> c \in Eligible \/ activity[c].retired
  BY RetireFacts
<1>2. Range(channels) \subseteq Ids BY ChannelsFinite DEF TypeOK
<1>3. Eligible' = {} BY <1>1, <1>2 DEF Eligible
<1>4. Live' = Serving BY <1>1, <1>2 DEF Live, Serving, Eligible
<1>5. Serving' = Live' BY <1>3 DEF Serving, Live
<1> QED BY <1>3, <1>4, <1>5 DEF Usable

\* A look at the pool that only moves the task.
LEMMA Looked ==
  ASSUME IInv, NEW t \in Tasks, task[t].at \in Acquiring, NEW new \in TaskType,
         new.at \in Acquiring, new.size = task[t].size, new.attempt = task[t].attempt,
         new.chan = task[t].chan, new.uploads = task[t].uploads, new.ran = task[t].ran,
         new.avoid = task[t].avoid, Becomes(t, new), Carried,
         \A c \in Ids : activity'[c].active = activity[c].active, UNCHANGED waits
  PROVE  Stage(new)' /\ Held' /\ Queued' /\ UNCHANGED Contract!vars
<1>1. /\ Stage(task[t]) /\ task[t].chan = None /\ task[t].ran = {}
      /\ Phase(task[t]) = "open" /\ Place(task[t]) = None /\ Told(task[t]) = "nothing"
      /\ Avoid(task[t]) = task[t].avoid
  BY WaitingShape
<1>2. Stage(new)' BY <1>1 DEF Stage, Carried, Acquiring, Holding
<1>3. \A c \in Ids : LeasesOf(new, c) = LeasesOf(task[t], c) BY <1>1, SameLeases
<1>4. Held' BY <1>3, HeldKept DEF IInv
<1>5. Queued' BY QueueKept DEF IInv
<1>6. /\ Phase(new) = "open" /\ Place(new) = None /\ Told(new) = "nothing"
      /\ Avoid(new) = task[t].avoid
  BY <1>1 DEF Phase, Place, Told, Avoid, Acquiring
<1>7. UNCHANGED Contract!vars BY <1>1, <1>6, LooksTheSame
<1> QED BY <1>2, <1>4, <1>5, <1>7

LEMMA LookWaitStep == ASSUME IInv, NEW t \in Tasks, LookWait(t) PROVE Good
<1> PICK new : new = [task[t] EXCEPT !.at = "parking"] BY Zenon
<1>0. TypeOK /\ Roomy /\ Closing /\ task[t] \in TaskType /\ task[t].at = "look"
  BY DEF IInv, TypeOK, LookWait
<1>1. /\ task' = [task EXCEPT ![t] = new] /\ activity' = Retire(Eligible) /\ ~MayConnect
      /\ UNCHANGED <<channels, connecting, closed, waits, closer>>
  BY <1>0 DEF LookWait, TypeOK, state
<1>2. "parking" \in Stages /\ "parking" \in Acquiring BY DEF Stages, Acquiring
<1>3. new \in TaskType BY <1>0, <1>2 DEF TaskType
<1>4. /\ new.at = "parking" /\ new.size = task[t].size /\ new.attempt = task[t].attempt
      /\ new.chan = task[t].chan /\ new.uploads = task[t].uploads /\ new.ran = task[t].ran
      /\ new.avoid = task[t].avoid
  BY <1>0 DEF TaskType
<1>5. Becomes(t, new) BY <1>0, <1>1, <1>3, AloneBecomes, Zenon DEF Alone
<1>6. Carried /\ \A c \in Ids : activity'[c].active = activity[c].active
  BY <1>0, <1>1, RetireFacts
<1>7. Stage(new)' /\ Held' /\ Queued' /\ UNCHANGED Contract!vars
  BY <1>0, <1>1, <1>2, <1>3, <1>4, <1>5, <1>6, Looked, Zenon DEF Acquiring
<1>8. Roomy' BY <1>0, <1>1, <1>4, <1>5, <1>6, RoomKept, Zenon
<1>9. NoLostWakeup'
  <2>1. Usable' = {} /\ Serving' = Serving BY <1>0, <1>1, EligibleRetired
  <2>2. ~MayConnect' BY <1>1, <2>1 DEF MayConnect
  <2> QED BY <2>1, <2>2 DEF NoLostWakeup
<1>10. Closing' BY <1>0, <1>1 DEF Closing, CloseIsQuiet
<1>11. closer' \in CloserType /\ connecting' \in BOOLEAN /\ closed' \in BOOLEAN
  BY <1>0, <1>1 DEF TypeOK
<1>12. IInv' BY <1>5, <1>6, <1>7, <1>8, <1>9, <1>10, <1>11, Assembled
<1> QED BY <1>7, <1>12 DEF Good

LEMMA AwaitStep == ASSUME IInv, NEW t \in Tasks, Await(t) PROVE Good
<1> PICK new : new = [task[t] EXCEPT !.at = IF task[t].woken THEN "look" ELSE "waiting",
                                     !.woken = FALSE]
  OBVIOUS
<1>0. /\ TypeOK /\ task[t] \in TaskType /\ task[t].at \in {"parking", "waiting"}
      /\ Stage(task[t]) /\ task[t].chan = None /\ task[t].ran = {}
  BY WaitingShape DEF IInv, TypeOK, Await, Acquiring
<1>1. /\ task' = [task EXCEPT ![t] = new]
      /\ UNCHANGED <<channels, activity, connecting, closed, waits, closer>>
  BY <1>0, Zenon DEF Await, TypeOK, state
<1>2. /\ {"look", "waiting"} \subseteq Stages
      /\ (IF task[t].woken THEN "look" ELSE "waiting") \in {"look", "waiting"}
  BY DEF Stages, Acquiring
<1>3. new \in TaskType BY <1>0, <1>2, Zenon DEF TaskType
<1>4. /\ new.at = IF task[t].woken THEN "look" ELSE "waiting"
      /\ new.size = task[t].size /\ new.attempt = task[t].attempt
      /\ new.chan = task[t].chan /\ new.uploads = task[t].uploads /\ new.ran = task[t].ran
      /\ new.avoid = task[t].avoid
  BY <1>0 DEF TaskType
<1>5. Alone(t, new) BY <1>1 DEF Alone
<1>6. Becomes(t, new) BY <1>0, <1>3, <1>5, AloneBecomes
<1>7. Carried BY <1>0, <1>1 DEF Carried, TypeOK
<1>8. task[t].at \in Acquiring /\ new.at \in Acquiring BY <1>0, <1>4 DEF Acquiring
<1>9. Stage(new)' /\ Held' /\ Queued' /\ UNCHANGED Contract!vars
  BY <1>1, <1>3, <1>4, <1>6, <1>7, <1>8, Looked, Zenon
<1>10. Stage(new) BY <1>1, <1>9 DEF Stage
<1>11. \A c \in Ids : LeasesOf(new, c) = LeasesOf(task[t], c)
  <2>1. task[t].chan = None /\ new.chan = None /\ new.uploads = task[t].uploads BY <1>0, <1>4
  <2> QED BY <2>1, SameLeases, Zenon
<1>12. Asleep(new) => Asleep(task[t]) BY <1>0, <1>4 DEF Asleep
<1>13. new.at \notin {"connect", "pushed"} /\ task[t].at \notin {"connect", "pushed"}
  BY <1>0, <1>4
<1>14. IInv' BY <1>1, <1>3, <1>5, <1>9, <1>10, <1>11, <1>12, <1>13, Quietly, Zenon
<1> QED BY <1>9, <1>14 DEF Good

LEMMA LookConnectStep == ASSUME IInv, NEW t \in Tasks, LookConnect(t) PROVE Good
<1> PICK new : new = [task[t] EXCEPT !.at = "connect", !.woken = FALSE] OBVIOUS
<1>0. /\ TypeOK /\ Roomy /\ Closing /\ task[t] \in TaskType /\ task[t].at = "look"
      /\ ~closed /\ MayConnect
  BY DEF IInv, TypeOK, LookConnect
<1>1. /\ task' = [task EXCEPT ![t] = new] /\ activity' = Retire(Eligible) /\ connecting' = TRUE
      /\ UNCHANGED <<channels, closed, waits, closer>>
  BY <1>0, Zenon DEF LookConnect, TypeOK, state
<1>2. "connect" \in Stages /\ "connect" \in Acquiring BY DEF Stages, Acquiring
<1>3. new \in TaskType BY <1>0, <1>2, Zenon DEF TaskType
<1>4. /\ new.at = "connect" /\ new.size = task[t].size /\ new.attempt = task[t].attempt
      /\ new.chan = task[t].chan /\ new.uploads = task[t].uploads /\ new.ran = task[t].ran
      /\ new.avoid = task[t].avoid
  BY <1>0 DEF TaskType
<1>5. Becomes(t, new) BY <1>0, <1>1, <1>3, AloneBecomes, Zenon DEF Alone
<1>6. Carried /\ \A c \in Ids : activity'[c].active = activity[c].active
  BY <1>0, <1>1, RetireFacts
<1>7. Stage(new)' /\ Held' /\ Queued' /\ UNCHANGED Contract!vars
  BY <1>0, <1>1, <1>2, <1>3, <1>4, <1>5, <1>6, Looked, Zenon DEF Acquiring
<1>8. Usable' = {} /\ Live' = Serving BY <1>0, <1>1, EligibleRetired
<1>9. Roomy'
  <2>1. \A u \in Tasks : ~Opens(u) BY <1>0 DEF Roomy, MayConnect
  <2>2. \A u \in Tasks : Opens(u)' <=> u = t
    BY <1>4, <1>5, <2>1 DEF Opens, Becomes, Alike
  <2>3. Opening' = 1 BY <1>4, <1>5 DEF Opening, Becomes, Alike
  <2>4. Cardinality(Live') < Connections BY <1>0, <1>8 DEF MayConnect
  <2>5. Cardinality(Live') \in Nat
    <3>1. Live' \subseteq Live BY <1>8 DEF Live, Serving
    <3> QED BY <1>0, <3>1, FewerLive DEF TypeOK
  <2>6. Cardinality(Live') + Opening' <= Connections
    BY <2>3, <2>4, <2>5, Http2Assumption
  <2>7. Len(channels') + Opening' <= Connections + 1
    BY <1>0, <1>1, <2>3, Http2Assumption DEF MayConnect, TypeOK
  <2> QED BY <1>1, <2>2, <2>6, <2>7 DEF Roomy
<1>10. NoLostWakeup' BY <1>1, <1>8 DEF NoLostWakeup, MayConnect
<1>11. Closing' BY <1>0, <1>1 DEF Closing, CloseIsQuiet, Closings
<1>12. closer' \in CloserType /\ connecting' \in BOOLEAN /\ closed' \in BOOLEAN
  BY <1>0, <1>1 DEF TypeOK
<1>13. IInv' BY <1>5, <1>6, <1>7, <1>9, <1>10, <1>11, <1>12, Assembled
<1> QED BY <1>7, <1>13 DEF Good

LEMMA LookPermitStep == ASSUME IInv, NEW t \in Tasks, LookPermit(t) PROVE Good
<1>0. /\ TypeOK /\ Held /\ Roomy /\ Closing /\ NoLostWakeup /\ task[t] \in TaskType
      /\ task[t].at = "look" /\ Stage(task[t]) /\ task[t].chan = None /\ task[t].ran = {}
  BY WaitingShape DEF IInv, TypeOK, LookPermit, Acquiring
<1>1. PICK c \in Usable :
        /\ activity' = [Retire({d \in Eligible \ Usable : Sooner(d, c)}) EXCEPT ![c].active = @ + 1]
        /\ task' = [task EXCEPT ![t].at = "prepare", ![t].chan = c, ![t].woken = FALSE]
  BY Zenon DEF LookPermit
<1>2. EndWait(t) /\ UNCHANGED <<channels, connecting, closed, closer>> BY DEF LookPermit
<1> PICK new : new = [task[t] EXCEPT !.at = "prepare", !.chan = c, !.woken = FALSE] OBVIOUS
<1>3. /\ c \in Range(channels) /\ c \in Ids /\ ~activity[c].retired
      /\ activity[c].active < activity[c].maximum /\ Range(channels) \subseteq Ids
  BY <1>0, <1>1, ChannelsFinite, Zenon DEF Usable, Eligible, TypeOK
<1>4. "prepare" \in Stages /\ c \in Slots BY <1>3 DEF Stages, Slots
<1>5. new \in TaskType BY <1>0, <1>4, Zenon DEF TaskType
<1>6. /\ new.at = "prepare" /\ new.attempt = task[t].attempt /\ new.chan = c
      /\ new.uploads = task[t].uploads /\ new.ran = {} /\ new.avoid = task[t].avoid
  BY <1>0 DEF TaskType
<1>7. task' = [task EXCEPT ![t] = new] BY <1>0, <1>1, Zenon DEF TypeOK
<1>8. Becomes(t, new) BY <1>0, <1>2, <1>5, <1>7, AloneBecomes, Zenon DEF Alone
<1>9. /\ Carried /\ activity'[c].active = activity[c].active + 1
      /\ \A d \in Ids \ {c} : activity'[d].active = activity[d].active
      /\ \A d \in Ids : activity'[d].maximum = activity[d].maximum
      /\ \A d \in Ids : activity[d].stopped => activity'[d].stopped
  <2> DEFINE mid == Retire({d \in Eligible \ Usable : Sooner(d, c)})
  <2>1. ASSUME NEW d \in Ids
        PROVE  /\ mid[d] \in ActivityType /\ mid[d].active = activity[d].active
               /\ mid[d].maximum = activity[d].maximum /\ mid[d].stopped = activity[d].stopped
               /\ activity[d].retired => mid[d].retired
    <3>1. activity[d] \in ActivityType BY <1>0 DEF TypeOK
    <3>2. mid[d] = IF d \in {e \in Eligible \ Usable : Sooner(e, c)}
                   THEN [activity[d] EXCEPT !.retired = TRUE] ELSE activity[d]
      BY DEF Retire
    <3> HIDE DEF mid
    <3> QED BY <3>1, <3>2, Zenon DEF ActivityType
  <2>2. mid = [d \in Ids |-> mid[d]] /\ DOMAIN mid = Ids BY DEF Retire
  <2>3. activity' = [mid EXCEPT ![c].active = @ + 1] BY <1>1
  <2> HIDE DEF mid
  <2>4. activity'[c] = [mid[c] EXCEPT !.active = @ + 1] BY <1>3, <2>2, <2>3
  <2>5. \A d \in Ids \ {c} : activity'[d] = mid[d] BY <2>2, <2>3
  <2>6. /\ activity'[c] \in ActivityType /\ activity'[c].active = activity[c].active + 1
        /\ activity'[c].maximum = activity[c].maximum
        /\ activity'[c].stopped = activity[c].stopped
        /\ activity[c].retired => activity'[c].retired
    BY <1>3, <2>1, <2>4 DEF ActivityType
  <2>7. DOMAIN activity' = Ids /\ activity' = [d \in Ids |-> activity'[d]] BY <2>2, <2>3
  <2>8. activity' \in [Ids -> ActivityType] BY <2>1, <2>5, <2>6, <2>7
  <2>9. Carried BY <1>0, <1>2, <1>3, <2>1, <2>5, <2>6, <2>8 DEF Carried, TypeOK
  <2> QED BY <2>1, <2>5, <2>6, <2>9
<1>10. Held'
  <2> DEFINE a == task[t].attempt
  <2>1. a \in 1 .. 2 BY <1>0 DEF TaskType, Attempts
  <2>2. a \notin LeasesOf(task[t], c) BY <1>0, <1>3, Http2Assumption DEF LeasesOf, Stage
  <2>3. LeasesOf(new, c) = LeasesOf(task[t], c) \cup {a}
    BY <1>0, <1>3, <1>6, <2>1, Http2Assumption DEF LeasesOf
  <2>4. \A d \in Ids \ {c} : LeasesOf(new, d) = LeasesOf(task[t], d)
    BY <1>0, <1>6, Http2Assumption DEF LeasesOf
  <2> HIDE DEF a
  <2> QED BY <1>0, <1>3, <1>8, <1>9, <2>1, <2>2, <2>3, <2>4, HeldTaken
<1>11. Queued' BY <1>0, <1>2, <1>6, <1>8, QueueLeft, Zenon DEF IInv, Acquiring
<1>12. Roomy' BY <1>0, <1>2, <1>6, <1>8, <1>9, RoomKept, Zenon
<1>13. NoLostWakeup'
  <2>1. \A u \in Tasks : /\ task'[u].at = "pushed" <=> task[u].at = "pushed"
                         /\ Asleep(task'[u]) => Asleep(task[u])
    BY <1>0, <1>6, <1>7 DEF TypeOK, Asleep
  <2>2. Usable # {} BY <1>1
  <2> QED BY <1>2, <1>0, <2>1, <2>2 DEF NoLostWakeup, Asleep
<1>14. Closing' BY <1>0, <1>2 DEF Closing, CloseIsQuiet
<1>15. Stage(new)'
  <2>1. new.avoid # c BY <1>0, <1>3, <1>6, Http2Assumption DEF Stage
  <2>2. \A u \in new.uploads : u[1] # new.attempt BY <1>0, <1>6 DEF Stage
  <2> QED BY <1>0, <1>2, <1>3, <1>6, <1>9, <2>1, <2>2 DEF Stage, Carried, Holding
<1>16. closer' \in CloserType /\ connecting' \in BOOLEAN /\ closed' \in BOOLEAN
  BY <1>0, <1>2 DEF TypeOK
<1>17. IInv' BY <1>8, <1>9, <1>10, <1>11, <1>12, <1>13, <1>14, <1>15, <1>16, Assembled
<1>18. UNCHANGED Contract!vars
  <2>1. /\ Phase(new) = Phase(task[t]) /\ Place(new) = Place(task[t])
        /\ Avoid(new) = Avoid(task[t]) /\ Told(new) = Told(task[t])
    BY <1>0, <1>6 DEF Phase, Place, Avoid, Told
  <2> QED BY <1>8, <2>1, LooksTheSame
<1> QED BY <1>17, <1>18 DEF Good

\* Nothing holds a slot of a connection that is not open.
LEMMA UnusedIdle ==
  ASSUME IInv, NEW c \in Ids, c \notin Range(channels)
  PROVE  activity[c].active = 0
<1>1. ASSUME NEW u \in Tasks PROVE LeasesOf(task[u], c) = {}
  <2>1. Stage(task[u]) BY DEF IInv, Staged
  <2>2. task[u].chan # c BY <2>1, Http2Assumption DEF Stage
  <2>3. \A a \in 1 .. 2 : <<a, c>> \notin task[u].uploads BY <2>1 DEF Stage
  <2> QED BY <2>2, <2>3 DEF LeasesOf
<1>2. Shares(c) = {} BY <1>1, SharesBy
<1> QED BY <1>2, FS_EmptySet DEF IInv, Held

LEMMA ConnectedStep == ASSUME IInv, NEW t \in Tasks, Connected(t) PROVE Good
<1>0. /\ TypeOK /\ Held /\ Roomy /\ Closing /\ Staged /\ task[t] \in TaskType
      /\ task[t].at = "connect" /\ ~closed
  BY DEF IInv, TypeOK, Connected
<1>1. PICK c \in Free, m \in Streams \ {0} :
        /\ activity' = [activity EXCEPT ![c] = NewChannel(m)] /\ channels' = Append(channels, c)
  BY Zenon DEF Connected
<1>2. UNCHANGED <<connecting, closed, waits, closer>> BY DEF Connected
<1> PICK new : new = [task[t] EXCEPT !.at = "pushed"] BY Zenon
<1>3. task' = [task EXCEPT ![t] = new] BY <1>0 DEF Connected, TypeOK
<1>4. c \in Ids /\ c \notin Range(channels) /\ Range(channels) \subseteq Ids
  BY <1>0, <1>1, ChannelsFinite DEF Free, TypeOK
<1>5. "pushed" \in Stages /\ "pushed" \in Acquiring BY DEF Stages, Acquiring
<1>6. new \in TaskType BY <1>0, <1>5 DEF TaskType
<1>7. /\ new.at = "pushed" /\ new.size = task[t].size /\ new.attempt = task[t].attempt
      /\ new.chan = task[t].chan /\ new.uploads = task[t].uploads /\ new.ran = task[t].ran
      /\ new.avoid = task[t].avoid
  BY <1>0 DEF TaskType
<1>8. Becomes(t, new) BY <1>0, <1>2, <1>3, <1>6, AloneBecomes, Zenon DEF Alone
<1>9. /\ Len(channels') = Len(channels) + 1 /\ channels' \in Seq(Ids)
      /\ Len(channels) \in Nat /\ channels'[Len(channels) + 1] = c
      /\ \A i \in 1 .. Len(channels) : channels'[i] = channels[i]
  BY <1>0, <1>1, <1>4 DEF TypeOK
<1>10. \A i \in 1 .. Len(channels) : channels[i] # c BY <1>0, <1>4 DEF Range, TypeOK
<1>11. Range(channels') = Range(channels) \cup {c}
  BY <1>0, <1>9 DEF Range, TypeOK
<1>12. /\ activity'[c] = NewChannel(m) /\ \A d \in Ids \ {c} : activity'[d] = activity[d]
       /\ activity' \in [Ids -> ActivityType]
  <2>1. NewChannel(m) \in ActivityType BY DEF NewChannel, ActivityType
  <2> QED BY <1>0, <1>1, <1>4, <2>1 DEF TypeOK
<1>13. Carried
  <2>1. \A i, j \in 1 .. Len(channels') : channels'[i] = channels'[j] => i = j
    BY <1>0, <1>9, <1>10 DEF TypeOK
  <2> QED BY <1>4, <1>9, <1>11, <1>12, <2>1 DEF Carried
<1>14. \A d \in Ids : activity'[d].active = activity[d].active
  BY <1>4, <1>12, UnusedIdle DEF NewChannel
<1>15. Stage(new)' /\ Held' /\ Queued' /\ UNCHANGED Contract!vars
  <2>1. task[t].at \in Acquiring BY <1>0 DEF Acquiring
  <2> QED BY <1>2, <1>5, <1>6, <1>7, <1>8, <1>13, <1>14, <2>1, Looked, Zenon
<1>16. Roomy'
  <2>1. \A u \in Tasks : Opens(u)' <=> Opens(u)
    BY <1>0, <1>7, <1>8 DEF Opens, Becomes, Alike
  <2>2. Opening = 1 BY <1>0 DEF Opening
  <2>3. \A u \in Tasks : task[u].at = "connect" => u = t BY <1>0 DEF Roomy, Opens
  <2>4. Opening' = 0 BY <1>7, <1>8, <2>3 DEF Opening, Becomes, Alike
  <2>5. Live' = Live \cup {c} /\ c \notin Live
    BY <1>4, <1>11, <1>12 DEF Live, NewChannel
  <2>6. IsFiniteSet(Live) /\ Cardinality(Live) \in Nat BY <1>0, ChannelsFinite DEF TypeOK
  <2>7. Cardinality(Live') = Cardinality(Live) + 1 BY <2>5, <2>6, FS_AddElement, Zenon
  <2>8. Cardinality(Live') + Opening' <= Connections
    BY <1>0, <2>2, <2>4, <2>6, <2>7, Http2Assumption DEF Roomy
  <2>9. Len(channels') + Opening' <= Connections + 1
    BY <1>0, <1>9, <2>2, <2>4, Http2Assumption DEF Roomy
  <2> QED BY <1>0, <1>2, <2>1, <2>8, <2>9 DEF Roomy
<1>17. NoLostWakeup' BY <1>7, <1>8 DEF NoLostWakeup, Becomes, Alike
<1>18. Closing' BY <1>0, <1>2 DEF Closing, CloseIsQuiet, Closings
<1>19. closer' \in CloserType /\ connecting' \in BOOLEAN /\ closed' \in BOOLEAN
  BY <1>0, <1>2 DEF TypeOK
<1>20. IInv' BY <1>8, <1>13, <1>15, <1>16, <1>17, <1>18, <1>19, Assembled
<1> QED BY <1>15, <1>20 DEF Good

\* The one task that opens a connection has ended: none is being opened.
LEMMA NoneOpens ==
  ASSUME TypeOK, Roomy, NEW t \in Tasks, Opens(t), NEW new, Becomes(t, new),
         new.at \notin {"connect", "pushed"}, connecting' = FALSE,
         UNCHANGED <<channels, activity>>
  PROVE  Roomy'
<1>1. \A u \in Tasks : ~Opens(u)' BY DEF Roomy, Opens, Becomes, Alike
<1>2. Opening' = 0 BY <1>1 DEF Opening, Opens
<1>3. Opening \in {0, 1} BY DEF Opening
<1>4. Live' = Live BY DEF Live
<1>5. Cardinality(Live) \in Nat /\ Len(channels) \in Nat BY ChannelsFinite DEF TypeOK
<1>6. Cardinality(Live) + 0 <= Connections /\ Len(channels) + 0 <= Connections + 1
  BY <1>3, <1>5, Http2Assumption DEF Roomy
<1> QED BY <1>1, <1>2, <1>4, <1>6 DEF Roomy

LEMMA EstablishedStep == ASSUME IInv, NEW t \in Tasks, Established(t) PROVE Good
<1> PICK new : new = [task[t] EXCEPT !.at = "look"] BY Zenon
<1>0. TypeOK /\ Roomy /\ Closing /\ task[t] \in TaskType /\ task[t].at = "pushed"
  BY DEF IInv, TypeOK, Established
<1>1. /\ Loud(t, new) /\ connecting' = FALSE
      /\ UNCHANGED <<channels, activity, closed, waits>>
  <2>1. [task EXCEPT ![t].at = "look"] = [task EXCEPT ![t] = new] BY <1>0 DEF TypeOK
  <2> QED BY <2>1 DEF Established, Loud
<1>2. "look" \in Stages /\ "look" \in Acquiring BY DEF Stages, Acquiring
<1>3. new \in TaskType BY <1>0, <1>2 DEF TaskType
<1>4. /\ new.at = "look" /\ new.size = task[t].size /\ new.attempt = task[t].attempt
      /\ new.chan = task[t].chan /\ new.uploads = task[t].uploads /\ new.ran = task[t].ran
      /\ new.avoid = task[t].avoid
  BY <1>0 DEF TaskType
<1>5. Becomes(t, new) /\ \A u \in Tasks : ~Asleep(task'[u])
  BY <1>0, <1>1, <1>3, <1>4, LoudBecomes, Zenon
<1>6. Carried BY <1>0, <1>1 DEF Carried, TypeOK
<1>7. Stage(new)' /\ Held' /\ Queued' /\ UNCHANGED Contract!vars
  <2>1. task[t].at \in Acquiring BY <1>0 DEF Acquiring
  <2> QED BY <1>1, <1>2, <1>3, <1>4, <1>5, <1>6, <2>1, Looked, Zenon
<1>8. Roomy' BY <1>0, <1>1, <1>4, <1>5, NoneOpens, Zenon DEF Opens
<1>9. NoLostWakeup' BY <1>5, NobodySleeps
<1>10. Closing' /\ closer' \in CloserType
  <2>1. closer' = [closer EXCEPT !.woken = @ \/ closer.at = "waiting"] BY <1>1 DEF Loud, Notify
  <2>2. closer.at = "closed" => ~connecting' /\ channels' = <<>>
    BY <1>0, <1>1 DEF Closing, CloseIsQuiet
  <2> QED BY <1>0, <1>1, <2>1, <2>2, CloserNotified
<1>11. connecting' \in BOOLEAN /\ closed' \in BOOLEAN BY <1>0, <1>1, Zenon DEF TypeOK
<1>12. IInv' BY <1>5, <1>6, <1>7, <1>8, <1>9, <1>10, <1>11, Assembled
<1> QED BY <1>7, <1>12 DEF Good

\* The task that opens a connection leaves acquire() without it.
LEMMA OpeningEnds ==
  ASSUME IInv, NEW t \in Tasks, task[t].at = "connect", NEW new \in TaskType,
         new.at \in {"idle", "done"}, new.chan = None, new.uploads = task[t].uploads, Stage(new),
         Loud(t, new), connecting' = FALSE, EndWait(t), UNCHANGED <<channels, activity, closed>>
  PROVE  IInv' /\ Becomes(t, new)
<1>0. TypeOK /\ Held /\ Queued /\ Roomy /\ Closing BY DEF IInv
<1>1. task[t].chan = None BY WaitingShape DEF Acquiring
<1>2. Becomes(t, new) /\ \A u \in Tasks : ~Asleep(task'[u]) BY <1>0, LoudBecomes
<1>3. Carried BY <1>0 DEF Carried, TypeOK
<1>4. Stage(new)' BY DEF Stage
<1>5. \A c \in Ids : LeasesOf(new, c) = LeasesOf(task[t], c) BY <1>1, SameLeases
<1>6. Held' BY <1>0, <1>2, <1>5, HeldKept
<1>7. Queued' BY <1>0, <1>2, QueueLeft DEF Acquiring
<1>8. Roomy' BY <1>0, <1>2, NoneOpens, Zenon DEF Opens
<1>9. NoLostWakeup' BY <1>2, NobodySleeps
<1>10. Closing' /\ closer' \in CloserType
  <2>1. closer' = [closer EXCEPT !.woken = @ \/ closer.at = "waiting"] BY DEF Loud, Notify
  <2>2. closer.at = "closed" => ~connecting' /\ channels' = <<>>
    BY <1>0 DEF Closing, CloseIsQuiet
  <2> QED BY <1>0, <2>1, <2>2, CloserNotified
<1>11. connecting' \in BOOLEAN /\ closed' \in BOOLEAN BY <1>0, Zenon DEF TypeOK
<1>12. IInv' BY <1>2, <1>3, <1>4, <1>6, <1>7, <1>8, <1>9, <1>10, <1>11, Assembled
<1> QED BY <1>2, <1>12

LEMMA ConnectFailsStep ==
  ASSUME IInv, NEW t \in Tasks, NEW resend \in BOOLEAN, ConnectFails(t, resend) PROVE Good
<1> PICK r : r = task[t] OBVIOUS
<1> PICK new : new = Failed(r, resend) OBVIOUS
<1>1. r \in TaskType /\ r.ran = {} /\ task[t].at = "connect"
  BY WaitingShape DEF Acquiring, ConnectFails
<1>2. /\ Loud(t, new) /\ connecting' = FALSE /\ EndWait(t)
      /\ UNCHANGED <<channels, activity, closed>>
  BY DEF ConnectFails, Loud, IInv, TypeOK
<1>3. Stage(new) BY <1>1, FailedStage
<1>4. new \in TaskType /\ new.at \in {"idle", "done"} /\ new.chan = None
      /\ new.uploads = r.uploads
  BY <1>1, FailedShape
<1>5. IInv' /\ Becomes(t, new) BY <1>1, <1>2, <1>3, <1>4, OpeningEnds, Zenon
<1>6. [Contract!Next]_(Contract!vars) BY <1>1, <1>5, FailedTells
<1> QED BY <1>5, <1>6 DEF Good
=============================================================================
