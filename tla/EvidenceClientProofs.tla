------------------------ MODULE EvidenceClientProofs ------------------------
(***************************************************************************)
(* Proofs about EvidenceClient: for any number of requests and refreshes,  *)
(* any bundles, any keys and approvals, and any number of installations.   *)
(***************************************************************************)
EXTENDS EvidenceClient, TLAPS

USE ZenonT(5), SMTT(30)

Snap == [generation : Nat, id : Nat]
JobType == [owner : Tasks \cup {None}, bundle : Bundle, phase : {"observed", "installed"},
            snapshot : Snap \cup {None}]
TaskType == [pc : Stages, snapshot : Snap \cup {None}, origin : Origins,
             bundle : Bundle \cup {None}, since : Nat, barred : BOOLEAN]

TypeOK ==
    /\ learned \in Nat /\ revoked \in BOOLEAN
    /\ installed \in Snap /\ current \in Snap /\ retained \in Snap
    /\ jobs \subseteq JobType
    /\ representations \in [Origins -> Bundle \cup {None}]
    /\ tasks \in [Tasks -> TaskType]

\* The stages at which prepare holds the channel's lock, and those of them at
\* which it works with a snapshot.
InChannel == Stages \ {"idle", "channel", "returned"}
WithSnapshot == InChannel \ {"acquire", "download", "refresh", "running"}

\* A task by its stage: what the verifier knew when it started is known still
\* (l and v are learned and revoked), a check that passed did so under a root
\* decision not older than the start, and its snapshot lies between the one
\* that the channel retains (ret) and the current one (cur).
TaskOK(r, l, v, ret, cur) ==
    /\ r.since <= l
    /\ r.barred => v
    /\ r.pc \in {"collateral", "lastCollateral", "returned"} =>
         \E g \in r.since .. l : AdmittedBy(r.snapshot, g)
    /\ r.pc = "returned" => ~ r.barred
    /\ r.pc = "refresh" => r.bundle \in Bundle
    /\ r.pc \in WithSnapshot =>
         r.snapshot \in Snap /\ ret.id <= r.snapshot.id /\ r.snapshot.id <= cur.id

TasksOK == \A t \in Tasks : TaskOK(tasks[t], learned, revoked, retained, current)

\* A preparer holds the channel from its first look to its return; a caller of
\* refresh never looks at it.
ChannelOK ==
    /\ \A t \in Preparers : tasks[t].pc \in InChannel => channel = t
    /\ \A t \in Refreshers :
         tasks[t].pc \in {"idle", "acquire", "download", "refresh", "running"}

\* There is one job at a time; what it has installed is the verifier's
\* snapshot, and while it has installed nothing, requests see that snapshot.
JobsOK ==
    /\ \A j, k \in jobs : j = k
    /\ \A j \in jobs : j.phase = "installed" => j.snapshot = installed
    /\ (\A j \in jobs : j.phase = "observed") => current = installed

\* The task that a job belongs to waits for it.
OwnersOK == \A j \in jobs : j.owner # None => tasks[j.owner].pc = "running"

InOrder == retained.id <= current.id /\ current.id <= installed.id

IInv == TypeOK /\ TasksOK /\ ChannelOK /\ JobsOK /\ OwnersOK /\ InOrder

-----------------------------------------------------------------------------
(* The steps in general.                                                   *)

\* The larger of two numbers.
LEMMA MaxOfTwo ==
  ASSUME NEW a \in Nat, NEW b \in Nat
  PROVE  Max({a, b}) \in Nat /\ a <= Max({a, b}) /\ b <= Max({a, b})
<1>1. \E x \in {a, b} : \A y \in {a, b} : x >= y
  <2>1. CASE a <= b BY <2>1
  <2>2. CASE b <= a BY <2>2
  <2> QED BY <2>1, <2>2
<1>2. Max({a, b}) \in {a, b} /\ \A y \in {a, b} : Max({a, b}) >= y
  BY <1>1 DEF Max
<1> QED BY <1>2

LEMMA BundleFacts ==
  /\ \A b \in Bundles : b \in Bundle
  /\ \A b \in Bundle : b.generation \in Nat /\ b.revokes \in BOOLEAN /\ b.complete \in BOOLEAN
<1>1. Generations \subseteq Nat BY DEF Generations
<1> QED BY <1>1, EvidenceClientAssumption DEF Bundle

\* What a task knows stays true while the client learns.
LEMMA TaskLater ==
  ASSUME NEW r \in TaskType, NEW l \in Nat, NEW m \in Nat, l <= m,
         NEW v \in BOOLEAN, NEW w \in BOOLEAN, v => w,
         NEW ret \in Snap, NEW ret2 \in Snap, NEW cur \in Snap, NEW cur2 \in Snap,
         cur.id <= cur2.id, ret2 = ret \/ r.pc \notin WithSnapshot,
         TaskOK(r, l, v, ret, cur)
  PROVE  TaskOK(r, m, w, ret2, cur2)
<1>1. r.since \in Nat /\ cur.id \in Nat /\ cur2.id \in Nat /\ ret.id \in Nat
  BY DEF TaskType, Snap
<1>2. r.since <= m BY <1>1 DEF TaskOK
<1>3. r.pc \in {"collateral", "lastCollateral", "returned"} =>
        \E g \in r.since .. m : AdmittedBy(r.snapshot, g)
  <2> SUFFICES ASSUME r.pc \in {"collateral", "lastCollateral", "returned"}
               PROVE  \E g \in r.since .. m : AdmittedBy(r.snapshot, g)
    OBVIOUS
  <2>1. PICK g \in r.since .. l : AdmittedBy(r.snapshot, g) BY DEF TaskOK
  <2>2. g \in r.since .. m BY <1>1, <2>1
  <2> QED BY <2>1, <2>2
<1>4. r.pc \in WithSnapshot =>
        r.snapshot \in Snap /\ ret2.id <= r.snapshot.id /\ r.snapshot.id <= cur2.id
  <2> SUFFICES ASSUME r.pc \in WithSnapshot
               PROVE  r.snapshot \in Snap /\ ret2.id <= r.snapshot.id
                      /\ r.snapshot.id <= cur2.id
    OBVIOUS
  <2>1. r.snapshot \in Snap /\ ret.id <= r.snapshot.id /\ r.snapshot.id <= cur.id
    BY DEF TaskOK
  <2>2. r.snapshot.id \in Nat BY <2>1 DEF Snap
  <2> QED BY <1>1, <2>1, <2>2
<1> QED BY <1>2, <1>3, <1>4 DEF TaskOK

\* What the verifier and its jobs may do beside a task.
Forward ==
    /\ learned' \in Nat /\ learned <= learned'
    /\ revoked' \in BOOLEAN /\ (revoked => revoked')
    /\ installed' \in Snap /\ current' \in Snap /\ retained' \in Snap
    /\ current.id <= current'.id /\ InOrder'
    /\ representations' \in [Origins -> Bundle \cup {None}]
    /\ jobs' \subseteq JobType /\ JobsOK'

\* What the task t may become.
Becomes(t, r) ==
    /\ tasks' = [tasks EXCEPT ![t] = r]
    /\ TaskOK(r, learned', revoked', retained', current')
    /\ t \in Preparers /\ r.pc \in InChannel => channel' = t
    /\ t \in Refreshers => r.pc \in {"idle", "acquire", "download", "refresh", "running"}
    /\ \A j \in jobs' : j.owner = t => r.pc = "running"

\* What it leaves to the others.
Spares(t) ==
    /\ retained' = retained \/ channel = t
    /\ \A u \in Tasks : u # t /\ channel = u => channel' = u
    /\ \A j \in jobs' : j.owner # t /\ j.owner # None => \E k \in jobs : k.owner = j.owner

LEMMA TaskStep ==
  ASSUME IInv, NEW t \in Tasks, NEW r \in TaskType, Forward, Becomes(t, r), Spares(t)
  PROVE  IInv'
<1>1. /\ tasks \in [Tasks -> TaskType] /\ learned \in Nat /\ revoked \in BOOLEAN
      /\ current \in Snap /\ retained \in Snap
  BY DEF IInv, TypeOK
<1>2. tasks' \in [Tasks -> TaskType]
      /\ \A u \in Tasks : tasks'[u] = IF u = t THEN r ELSE tasks[u]
  BY <1>1 DEF Becomes
<1>3. TypeOK' BY <1>2 DEF Forward, TypeOK
<1>4. TasksOK'
  <2> SUFFICES ASSUME NEW u \in Tasks
               PROVE  TaskOK(tasks'[u], learned', revoked', retained', current')
    BY DEF TasksOK
  <2>1. CASE u = t BY <1>2, <2>1 DEF Becomes
  <2>2. CASE u # t
    <3> DEFINE q == tasks[u]
    <3>1. q \in TaskType /\ TaskOK(q, learned, revoked, retained, current) /\ tasks'[u] = q
      BY <1>1, <1>2, <2>2 DEF IInv, TasksOK
    <3>2. q.pc \in WithSnapshot => channel = u
      BY DEF IInv, ChannelOK, WithSnapshot, Tasks, InChannel
    <3>3. retained' = retained \/ q.pc \notin WithSnapshot
      BY <2>2, <3>2 DEF Spares
    <3>4. /\ learned' \in Nat /\ learned <= learned' /\ revoked' \in BOOLEAN
          /\ (revoked => revoked') /\ current' \in Snap /\ retained' \in Snap
          /\ current.id <= current'.id
      BY DEF Forward
    <3> HIDE DEF q
    <3> QED BY <1>1, <3>1, <3>3, <3>4, TaskLater
  <2> QED BY <2>1, <2>2
<1>5. ChannelOK'
  <2>1. ASSUME NEW u \in Preparers, tasks'[u].pc \in InChannel PROVE channel' = u
    <3>1. u \in Tasks BY DEF Tasks
    <3>2. CASE u = t BY <1>2, <2>1, <3>1, <3>2 DEF Becomes
    <3>3. CASE u # t BY <1>2, <2>1, <3>1, <3>3 DEF Spares, IInv, ChannelOK
    <3> QED BY <3>2, <3>3
  <2>2. ASSUME NEW u \in Refreshers
        PROVE  tasks'[u].pc \in {"idle", "acquire", "download", "refresh", "running"}
    <3>1. u \in Tasks BY DEF Tasks
    <3> QED BY <1>2, <3>1 DEF Becomes, IInv, ChannelOK
  <2> QED BY <2>1, <2>2 DEF ChannelOK
<1>6. OwnersOK'
  <2> SUFFICES ASSUME NEW j \in jobs', j.owner # None PROVE tasks'[j.owner].pc = "running"
    BY DEF OwnersOK
  <2>1. j.owner \in Tasks BY DEF Forward, JobType
  <2>2. CASE j.owner = t BY <1>2, <2>1, <2>2 DEF Becomes
  <2>3. CASE j.owner # t BY <1>2, <2>1, <2>3 DEF Spares, IInv, OwnersOK
  <2> QED BY <2>2, <2>3
<1> QED BY <1>3, <1>4, <1>5, <1>6 DEF IInv, Forward

\* A step in which no task changes.
LEMMA JobOnlyStep ==
  ASSUME IInv, Forward, UNCHANGED <<tasks, channel, retained>>,
         \A j \in jobs' : j.owner # None => \E k \in jobs : k.owner = j.owner
  PROVE  IInv'
<1>1. /\ tasks \in [Tasks -> TaskType] /\ learned \in Nat /\ revoked \in BOOLEAN
      /\ current \in Snap /\ retained \in Snap
  BY DEF IInv, TypeOK
<1>2. TypeOK' BY <1>1 DEF Forward, TypeOK
<1>3. TasksOK'
  <2> SUFFICES ASSUME NEW u \in Tasks
               PROVE  TaskOK(tasks[u], learned', revoked', retained', current')
    BY DEF TasksOK
  <2> DEFINE q == tasks[u]
  <2>1. q \in TaskType /\ TaskOK(q, learned, revoked, retained, current)
    BY <1>1 DEF IInv, TasksOK
  <2>2. /\ learned' \in Nat /\ learned <= learned' /\ revoked' \in BOOLEAN
        /\ (revoked => revoked') /\ current' \in Snap /\ retained' \in Snap
        /\ current.id <= current'.id /\ retained' = retained
    BY DEF Forward
  <2> HIDE DEF q
  <2>3. TaskOK(q, learned', revoked', retained', current') BY <1>1, <2>1, <2>2, TaskLater
  <2> QED BY <2>3 DEF q
<1>4. ChannelOK' BY DEF IInv, ChannelOK
<1>5. OwnersOK' BY DEF IInv, OwnersOK
<1> QED BY <1>2, <1>3, <1>4, <1>5 DEF IInv, Forward

\* The verifier stands still.
LEMMA NothingLearned ==
  ASSUME IInv, UNCHANGED evidenceVars, retained' \in Snap, retained'.id <= current.id,
         representations' \in [Origins -> Bundle \cup {None}]
  PROVE  Forward
<1> USE DEF evidenceVars
<1>1. current.id \in Nat /\ installed.id \in Nat /\ current.id <= installed.id
  BY DEF IInv, TypeOK, Snap, InOrder
<1>2. JobsOK' BY DEF IInv, JobsOK
<1>3. InOrder' BY <1>1 DEF InOrder
<1> QED BY <1>1, <1>2, <1>3 DEF Forward, IInv, TypeOK

LEMMA TaskFacts ==
  ASSUME IInv, NEW t \in Tasks
  PROVE  /\ tasks[t] \in TaskType /\ learned \in Nat /\ revoked \in BOOLEAN
         /\ current \in Snap /\ retained \in Snap /\ current.id \in Nat /\ retained.id \in Nat
         /\ retained.id <= current.id /\ t # None
         /\ TaskOK(tasks[t], learned, revoked, retained, current)
         /\ (t \in Preparers /\ tasks[t].pc \in InChannel => channel = t)
         /\ (t \in Refreshers =>
              tasks[t].pc \in {"idle", "acquire", "download", "refresh", "running"})
         /\ (t \in Preparers \/ t \in Refreshers) /\ ~(t \in Preparers /\ t \in Refreshers)
<1>1. /\ tasks[t] \in TaskType /\ learned \in Nat /\ revoked \in BOOLEAN
      /\ current \in Snap /\ retained \in Snap
  BY DEF IInv, TypeOK
<1>2. current.id \in Nat /\ retained.id \in Nat BY <1>1 DEF Snap
<1>3. t # None /\ ~(t \in Preparers /\ t \in Refreshers) /\ (t \in Preparers \/ t \in Refreshers)
  BY EvidenceClientAssumption DEF Tasks
<1> QED BY <1>1, <1>2, <1>3 DEF IInv, InOrder, TasksOK, ChannelOK

\* A step of one task that neither the verifier nor a job sees.
LEMMA MoveStep ==
  ASSUME IInv, NEW t \in Tasks, NEW r \in TaskType, tasks' = [tasks EXCEPT ![t] = r],
         UNCHANGED <<evidenceVars, representations, retained>>, tasks[t].pc # "running",
         TaskOK(r, learned, revoked, retained, current),
         t \in Preparers /\ r.pc \in InChannel => channel' = t,
         t \in Refreshers => r.pc \in {"idle", "acquire", "download", "refresh", "running"},
         \A u \in Tasks : u # t /\ channel = u => channel' = u
  PROVE  IInv'
<1>1. Forward BY NothingLearned DEF IInv, TypeOK, InOrder
<1>2. \A j \in jobs : j.owner # t BY EvidenceClientAssumption DEF IInv, OwnersOK
<1>3. jobs' = jobs /\ learned' = learned /\ revoked' = revoked /\ current' = current
      /\ retained' = retained
  BY DEF evidenceVars
<1>4. Becomes(t, r) BY <1>2, <1>3 DEF Becomes
<1>5. Spares(t) BY <1>3 DEF Spares
<1> QED BY <1>1, <1>4, <1>5, TaskStep

LEMMA IdleOK ==
  /\ Idle \in TaskType /\ Idle.pc = "idle"
  /\ \A l \in Nat : \A v, ret, cur : TaskOK(Idle, l, v, ret, cur)
<1>1. Idle \in TaskType BY DEF Idle, TaskType, Stages, Origins
<1> QED BY <1>1 DEF TaskOK, Idle, WithSnapshot, InChannel

\* A task that returns an error, or nothing.
LEMMA FailStep ==
  ASSUME IInv, NEW t \in Tasks, tasks' = [tasks EXCEPT ![t] = Idle],
         channel' = channel \/ channel' = Released(channel, t),
         UNCHANGED <<evidenceVars, representations, retained>>, tasks[t].pc # "running"
  PROVE  IInv'
<1>1. \A u \in Tasks : u # t /\ channel = u => channel' = u BY DEF Released
<1>2. TaskOK(Idle, learned, revoked, retained, current) BY TaskFacts, IdleOK
<1>3. Idle.pc \notin InChannel BY IdleOK DEF InChannel
<1> DEFINE r == Idle
<1>4. /\ r \in TaskType /\ tasks' = [tasks EXCEPT ![t] = r]
      /\ TaskOK(r, learned, revoked, retained, current)
      /\ r.pc = "idle" /\ r.pc \notin InChannel
  BY <1>2, <1>3, IdleOK
<1> HIDE DEF r
<1> QED BY <1>1, <1>4, MoveStep

\* A task whose stage and snapshot change.
LEMMA GoStep ==
  ASSUME IInv, NEW t \in Tasks, NEW pc \in Stages, NEW s \in Snap \cup {None},
         tasks' = [tasks EXCEPT ![t].pc = pc, ![t].snapshot = s],
         UNCHANGED <<evidenceVars, representations, retained>>, tasks[t].pc # "running",
         pc \in {"collateral", "lastCollateral", "returned"} =>
           \E g \in tasks[t].since .. learned : AdmittedBy(s, g),
         pc = "returned" => ~ tasks[t].barred,
         pc # "refresh",
         pc \in WithSnapshot => s \in Snap /\ retained.id <= s.id /\ s.id <= current.id,
         t \in Preparers /\ pc \in InChannel => channel' = t,
         t \in Refreshers => pc \in {"idle", "acquire", "download", "running"},
         \A u \in Tasks : u # t /\ channel = u => channel' = u
  PROVE  IInv'
<1> DEFINE q == tasks[t]
           r == [q EXCEPT !.pc = pc, !.snapshot = s]
<1>1. q \in TaskType /\ TaskOK(q, learned, revoked, retained, current) BY TaskFacts
<1>2. r \in TaskType BY <1>1 DEF TaskType
<1>3. /\ r.pc = pc /\ r.snapshot = s /\ r.since = q.since /\ r.barred = q.barred
      /\ r.bundle = q.bundle
  BY <1>1 DEF TaskType
<1>4. tasks' = [tasks EXCEPT ![t] = r] BY <1>1 DEF IInv, TypeOK, TaskType
<1> HIDE DEF r
<1>5. TaskOK(r, learned, revoked, retained, current) BY <1>1, <1>3 DEF TaskOK
<1> QED BY <1>2, <1>3, <1>4, <1>5, MoveStep

-----------------------------------------------------------------------------
(* Channel::prepare.                                                       *)

LEMMA StartPrepareStep ==
  ASSUME IInv, NEW t \in Tasks, StartPrepare(t)
  PROVE  IInv'
<1> DEFINE q == tasks[t]
           r == [q EXCEPT !.pc = "channel", !.since = learned, !.barred = revoked]
<1>1. /\ t \in Preparers /\ q.pc = "idle" /\ q \in TaskType /\ learned \in Nat
      /\ revoked \in BOOLEAN
  BY TaskFacts DEF StartPrepare, At
<1>2. /\ UNCHANGED <<evidenceVars, representations, retained>> /\ channel' = channel
  BY DEF StartPrepare, OnlyTasks, lockVars
<1>3. tasks' = [tasks EXCEPT ![t] = r]
  BY <1>1 DEF StartPrepare, IInv, TypeOK, TaskType
<1>4. r \in TaskType BY <1>1 DEF TaskType, Stages
<1>5. r.pc = "channel" /\ r.since = learned /\ r.barred = revoked BY <1>1 DEF TaskType
<1> HIDE DEF r
<1>6. TaskOK(r, learned, revoked, retained, current)
  BY <1>1, <1>5 DEF TaskOK, WithSnapshot, InChannel
<1>7. r.pc \notin InChannel /\ t \notin Refreshers /\ q.pc # "running"
  BY <1>1, <1>5, EvidenceClientAssumption DEF InChannel
<1> QED BY <1>2, <1>3, <1>4, <1>6, <1>7, MoveStep

LEMMA LockChannelStep ==
  ASSUME IInv, NEW t \in Tasks, LockChannel(t)
  PROVE  IInv'
<1> DEFINE pc == IF current = retained THEN "keys" ELSE "appraise"
<1>1. /\ tasks[t].pc = "channel" /\ channel = None /\ channel' = t
      /\ tasks' = [tasks EXCEPT ![t].pc = pc, ![t].snapshot = current]
      /\ UNCHANGED <<evidenceVars, representations, retained>>
  BY DEF LockChannel, At, GoWith
<1>2. t \in Preparers /\ t \notin Refreshers BY <1>1, TaskFacts
<1>3. \A u \in Tasks : channel # u BY <1>1, EvidenceClientAssumption
<1>4. current \in Snap \cup {None} /\ current \in Snap /\ retained.id <= current.id
      /\ current.id <= current.id
  BY TaskFacts
<1>5. pc \in Stages /\ pc \notin {"collateral", "lastCollateral", "returned", "refresh"}
  BY DEF Stages
<1> HIDE DEF pc
<1> QED BY <1>1, <1>2, <1>3, <1>4, <1>5, GoStep

\* A task that goes on with the snapshot it has.
LEMMA KeepStep ==
  ASSUME IInv, NEW t \in Tasks, NEW pc \in Stages \ {"refresh"}, Go(t, pc),
         UNCHANGED <<evidenceVars, representations, retained>>,
         tasks[t].pc \in WithSnapshot, pc \in WithSnapshot \/ pc = "returned",
         pc \in {"collateral", "lastCollateral", "returned"} =>
           \E g \in tasks[t].since .. learned : AdmittedBy(tasks[t].snapshot, g),
         pc = "returned" => ~ tasks[t].barred,
         pc = "returned" \/ channel' = channel,
         \A u \in Tasks : u # t /\ channel = u => channel' = u
  PROVE  IInv'
<1> DEFINE s == tasks[t].snapshot
<1>1. /\ tasks[t] \in TaskType /\ TaskOK(tasks[t], learned, revoked, retained, current)
      /\ t \in Preparers /\ t \notin Refreshers /\ channel = t
  BY TaskFacts DEF WithSnapshot, InChannel
<1>2. s \in Snap /\ retained.id <= s.id /\ s.id <= current.id BY <1>1 DEF TaskOK
<1>3. tasks' = [tasks EXCEPT ![t].pc = pc, ![t].snapshot = s]
  BY <1>1 DEF Go, IInv, TypeOK, TaskType
<1>4. tasks[t].pc # "running" /\ pc \in Stages /\ pc # "refresh" /\ s \in Snap \cup {None}
  BY <1>2 DEF WithSnapshot
<1>5. pc \in InChannel => channel' = t BY <1>1 DEF InChannel
<1>6. pc \in {"collateral", "lastCollateral", "returned"} =>
        \E g \in tasks[t].since .. learned : AdmittedBy(s, g)
  OBVIOUS
<1> HIDE DEF s
<1> QED BY <1>1, <1>2, <1>3, <1>4, <1>5, <1>6, GoStep

LEMMA CheckKeysStep ==
  ASSUME IInv, NEW t \in Tasks, CheckKeys(t)
  PROVE  IInv'
<1> DEFINE admitted == AdmittedBy(tasks[t].snapshot, learned)
           pc == IF admitted THEN "collateral" ELSE "appraise"
<1>1. /\ tasks[t].pc = "keys" /\ Go(t, pc) /\ channel' = channel
      /\ UNCHANGED <<evidenceVars, representations, retained>>
  BY DEF CheckKeys, At, OnlyTasks, lockVars
<1>2. learned \in tasks[t].since .. learned
  BY TaskFacts DEF TaskOK, TaskType
<1>3. pc \in Stages \ {"refresh"} /\ pc \in WithSnapshot BY DEF Stages, WithSnapshot, InChannel
<1>4. pc \in {"collateral", "lastCollateral", "returned"} =>
        \E g \in tasks[t].since .. learned : AdmittedBy(tasks[t].snapshot, g)
  BY <1>2
<1>5. tasks[t].pc \in WithSnapshot BY <1>1 DEF WithSnapshot, InChannel, Stages
<1>6. pc # "returned" OBVIOUS
<1> HIDE DEF pc, admitted
<1> QED BY <1>1, <1>3, <1>4, <1>5, <1>6, KeepStep

LEMMA CheckCollateralStep ==
  ASSUME IInv, NEW t \in Tasks, CheckCollateral(t)
  PROVE  IInv'
<1>1. /\ tasks[t].pc = "collateral" /\ UNCHANGED <<evidenceVars, representations, retained>>
  BY DEF CheckCollateral, At
<1>2. /\ TaskOK(tasks[t], learned, revoked, retained, current)
      /\ tasks[t].pc \in WithSnapshot /\ channel = t
  BY <1>1, TaskFacts DEF WithSnapshot, InChannel, Stages
<1>3. \E g \in tasks[t].since .. learned : AdmittedBy(tasks[t].snapshot, g)
  BY <1>1, <1>2 DEF TaskOK
<1>4. CASE revoked
  <2>1. Go(t, "appraise") /\ channel' = channel BY <1>4 DEF CheckCollateral
  <2>2. "appraise" \in Stages \ {"refresh"} /\ "appraise" \in WithSnapshot
    BY DEF Stages, WithSnapshot, InChannel
  <2> QED BY <1>1, <1>2, <2>1, <2>2, KeepStep
<1>5. CASE ~revoked
  <2>1. Go(t, "returned") BY <1>5 DEF CheckCollateral
  <2>2. "returned" \in Stages \ {"refresh"} BY DEF Stages
  <2>3. ~tasks[t].barred BY <1>2, <1>5 DEF TaskOK
  <2>4. \A u \in Tasks : u # t /\ channel = u => channel' = u BY <1>2
  <2> QED BY <1>1, <1>2, <1>3, <2>1, <2>2, <2>3, <2>4, KeepStep
<1> QED BY <1>4, <1>5

\* The last check of an appraisal is still to come.
LEMMA ToLastKeys ==
  ASSUME IInv, NEW t \in Tasks, Go(t, "lastKeys"), tasks[t].pc \in WithSnapshot,
         UNCHANGED <<evidenceVars, representations, retained>>, channel' = channel
  PROVE  IInv'
<1>1. "lastKeys" \in Stages \ {"refresh"} /\ "lastKeys" \in WithSnapshot
  BY DEF Stages, WithSnapshot, InChannel
<1> QED BY <1>1, KeepStep

LEMMA AppraiseStep ==
  ASSUME IInv, NEW t \in Tasks, Appraise(t)
  PROVE  IInv'
<1>1. /\ tasks[t].pc = "appraise" /\ channel' = channel
      /\ UNCHANGED <<evidenceVars, representations, retained>>
  BY DEF Appraise, At, OnlyTasks, lockVars
<1>2. tasks[t].pc \in WithSnapshot /\ t \in Preparers /\ t \notin Refreshers /\ channel = t
  BY <1>1, TaskFacts DEF WithSnapshot, InChannel, Stages
<1>3. CASE Go(t, "lastKeys") BY <1>1, <1>2, <1>3, ToLastKeys
<1>4. CASE GoWith(t, "acquire", None)
  <2>1. tasks' = [tasks EXCEPT ![t].pc = "acquire", ![t].snapshot = None]
    BY <1>4 DEF GoWith
  <2>2. /\ "acquire" \in Stages /\ "acquire" \notin WithSnapshot /\ None \in Snap \cup {None}
    BY DEF Stages, WithSnapshot
  <2> QED BY <1>1, <1>2, <2>1, <2>2, GoStep
<1> QED BY <1>3, <1>4 DEF Appraise

LEMMA ReappraiseStep ==
  ASSUME IInv, NEW t \in Tasks, Reappraise(t)
  PROVE  IInv'
<1>1. /\ tasks[t].pc = "reappraise" /\ UNCHANGED <<evidenceVars, representations, retained>>
  BY DEF Reappraise, At
<1>2. tasks[t].pc \in WithSnapshot BY <1>1 DEF WithSnapshot, InChannel, Stages
<1>3. CASE Go(t, "lastKeys") /\ UNCHANGED lockVars
  BY <1>1, <1>2, <1>3, ToLastKeys DEF lockVars
<1>4. CASE Fail(t) BY <1>1, <1>4, FailStep DEF Fail
<1> QED BY <1>3, <1>4 DEF Reappraise

LEMMA LastKeysStep ==
  ASSUME IInv, NEW t \in Tasks, LastKeys(t)
  PROVE  IInv'
<1>1. /\ tasks[t].pc = "lastKeys" /\ UNCHANGED <<evidenceVars, representations, retained>>
  BY DEF LastKeys, At
<1>2. tasks[t].pc \in WithSnapshot BY <1>1 DEF WithSnapshot, InChannel, Stages
<1>3. CASE /\ AdmittedBy(tasks[t].snapshot, learned) /\ Go(t, "lastCollateral")
           /\ UNCHANGED lockVars
  <2>1. learned \in tasks[t].since .. learned BY TaskFacts DEF TaskOK, TaskType
  <2>2. "lastCollateral" \in Stages \ {"refresh"} /\ "lastCollateral" \in WithSnapshot
    BY DEF Stages, WithSnapshot, InChannel
  <2>3. \E g \in tasks[t].since .. learned : AdmittedBy(tasks[t].snapshot, g) BY <1>3, <2>1
  <2> QED BY <1>1, <1>2, <1>3, <2>2, <2>3, KeepStep DEF lockVars
<1>4. CASE Fail(t) BY <1>1, <1>4, FailStep DEF Fail
<1> QED BY <1>3, <1>4 DEF LastKeys

\* The channel keeps the snapshot that its holder has appraised.
LEMMA LastCollateralStep ==
  ASSUME IInv, NEW t \in Tasks, LastCollateral(t)
  PROVE  IInv'
<1> DEFINE q == tasks[t]
           r == [q EXCEPT !.pc = "returned"]
<1>1. /\ q.pc = "lastCollateral" /\ UNCHANGED <<evidenceVars, representations>>
  BY DEF LastCollateral, At
<1>2. /\ q \in TaskType /\ learned \in Nat /\ TaskOK(q, learned, revoked, retained, current)
      /\ q.pc \in WithSnapshot /\ channel = t /\ t \in Preparers /\ t \notin Refreshers
      /\ current.id \in Nat /\ current \in Snap
  BY <1>1, TaskFacts DEF WithSnapshot, InChannel, Stages
<1>3. CASE revoked
  <2>1. Fail(t) /\ UNCHANGED retained BY <1>3 DEF LastCollateral
  <2> QED BY <1>1, <2>1, FailStep DEF Fail
<1>4. CASE ~revoked
  <2>1. Go(t, "returned") /\ retained' = q.snapshot /\ channel' = None
    BY <1>4 DEF LastCollateral
  <2>2. q.snapshot \in Snap /\ q.snapshot.id <= current.id BY <1>2 DEF TaskOK
  <2>3. tasks' = [tasks EXCEPT ![t] = r] BY <2>1, <1>2 DEF Go, IInv, TypeOK, TaskType
  <2>4. r \in TaskType BY <1>2 DEF TaskType, Stages
  <2>5. /\ r.pc = "returned" /\ r.since = q.since /\ r.barred = q.barred
        /\ r.snapshot = q.snapshot
    BY <1>2 DEF TaskType
  <2>6. Forward BY <1>1, <2>1, <2>2, NothingLearned DEF IInv, TypeOK
  <2> HIDE DEF r
  <2>7. /\ jobs' = jobs /\ learned' = learned /\ revoked' = revoked /\ current' = current
    BY <1>1 DEF evidenceVars
  <2>8. TaskOK(r, learned, revoked, retained', current)
    BY <1>1, <1>2, <1>4, <2>5 DEF TaskOK, WithSnapshot, InChannel
  <2>9. \A j \in jobs : j.owner # t BY <1>1, EvidenceClientAssumption DEF IInv, OwnersOK
  <2>10. Becomes(t, r) BY <1>2, <2>3, <2>5, <2>7, <2>8, <2>9 DEF Becomes, InChannel
  <2>11. Spares(t) BY <1>2, <2>7 DEF Spares
  <2> QED BY <2>4, <2>6, <2>10, <2>11, TaskStep
<1> QED BY <1>3, <1>4

LEMMA ReturnStep ==
  ASSUME IInv, NEW t \in Tasks, Return(t)
  PROVE  IInv'
BY FailStep DEF Return, At, OnlyTasks, lockVars

-----------------------------------------------------------------------------
(* EvidenceClient::acquire_inner.                                          *)

LEMMA StartRefresherStep ==
  ASSUME IInv, NEW t \in Tasks, StartRefresher(t)
  PROVE  IInv'
<1> DEFINE s == tasks[t].snapshot
<1>1. /\ t \in Refreshers /\ t \notin Preparers /\ tasks[t].pc = "idle"
      /\ tasks[t] \in TaskType
      /\ channel' = channel /\ UNCHANGED <<evidenceVars, representations, retained>>
  BY TaskFacts DEF StartRefresher, At, OnlyTasks, lockVars
<1>2. tasks' = [tasks EXCEPT ![t].pc = "acquire", ![t].snapshot = s]
  BY <1>1 DEF StartRefresher, Go, IInv, TypeOK, TaskType
<1>3. /\ "acquire" \in Stages /\ "acquire" \notin WithSnapshot /\ s \in Snap \cup {None}
  BY <1>1 DEF Stages, WithSnapshot, TaskType
<1> HIDE DEF s
<1> QED BY <1>1, <1>2, <1>3, GoStep

\* The attempts begin, or the acquisition fails at once.
LEMMA AttemptStep ==
  ASSUME IInv, NEW t \in Tasks, Attempt(t), tasks[t].pc \in {"acquire", "precheck"},
         UNCHANGED <<evidenceVars, representations, retained>>
  PROVE  IInv'
<1>1. CASE Fail(t) BY <1>1, FailStep DEF Fail
<1>2. CASE GoWith(t, "download", None) /\ UNCHANGED channel
  <2>1. tasks' = [tasks EXCEPT ![t].pc = "download", ![t].snapshot = None]
    BY <1>2 DEF GoWith
  <2>2. /\ "download" \in Stages /\ "download" \notin WithSnapshot /\ None \in Snap \cup {None}
    BY DEF Stages, WithSnapshot
  <2>3. t \in Preparers => channel = t BY TaskFacts DEF InChannel, Stages
  <2> QED BY <1>2, <2>1, <2>2, <2>3, GoStep
<1> QED BY <1>1, <1>2 DEF Attempt

LEMMA LockAcquisitionStep ==
  ASSUME IInv, NEW t \in Tasks, LockAcquisition(t)
  PROVE  IInv'
<1>1. /\ tasks[t].pc = "acquire" /\ UNCHANGED <<evidenceVars, representations, retained>>
  BY DEF LockAcquisition, At
<1>2. CASE t \in Preparers
  <2>1. tasks' = [tasks EXCEPT ![t].pc = "precheck", ![t].snapshot = current]
        /\ channel' = channel
    BY <1>2 DEF LockAcquisition, GoWith
  <2>2. /\ channel = t /\ t \notin Refreshers /\ current \in Snap \cup {None}
        /\ current \in Snap /\ retained.id <= current.id /\ current.id <= current.id
    BY <1>1, <1>2, TaskFacts DEF InChannel, Stages
  <2>3. "precheck" \in Stages BY DEF Stages
  <2> QED BY <1>1, <2>1, <2>2, <2>3, GoStep
<1>3. CASE t \notin Preparers BY <1>1, <1>3, AttemptStep DEF LockAcquisition
<1> QED BY <1>2, <1>3

LEMMA PrecheckStep ==
  ASSUME IInv, NEW t \in Tasks, Precheck(t)
  PROVE  IInv'
<1>1. /\ tasks[t].pc = "precheck" /\ UNCHANGED <<evidenceVars, representations, retained>>
  BY DEF Precheck, At
<1>2. CASE Go(t, "reappraise") /\ UNCHANGED channel
  <2>1. "reappraise" \in Stages \ {"refresh"} /\ "reappraise" \in WithSnapshot
        /\ tasks[t].pc \in WithSnapshot
    BY <1>1 DEF Stages, WithSnapshot, InChannel
  <2> QED BY <1>1, <1>2, <2>1, KeepStep
<1>3. CASE Attempt(t) BY <1>1, <1>3, AttemptStep
<1> QED BY <1>2, <1>3 DEF Precheck

\* A bundle has arrived, new or cached.
LEMMA BytesStep ==
  ASSUME IInv, NEW t \in Tasks, tasks[t].pc = "download", NEW b \in Bundle,
         tasks' = [tasks EXCEPT ![t].pc = "refresh", ![t].bundle = b], OnlyTasks
  PROVE  IInv'
<1> DEFINE q == tasks[t]
           r == [q EXCEPT !.pc = "refresh", !.bundle = b]
<1>1. /\ q \in TaskType /\ TaskOK(q, learned, revoked, retained, current)
      /\ (t \in Preparers => channel = t)
  BY TaskFacts DEF InChannel, Stages
<1>2. /\ UNCHANGED <<evidenceVars, representations, retained>> /\ channel' = channel
  BY DEF OnlyTasks, lockVars
<1>3. tasks' = [tasks EXCEPT ![t] = r] BY <1>1 DEF IInv, TypeOK, TaskType
<1>4. r \in TaskType BY <1>1 DEF TaskType, Stages
<1>5. r.pc = "refresh" /\ r.bundle = b /\ r.since = q.since /\ r.barred = q.barred
  BY <1>1 DEF TaskType
<1> HIDE DEF r
<1>6. TaskOK(r, learned, revoked, retained, current)
  BY <1>1, <1>5 DEF TaskOK, WithSnapshot
<1> QED BY <1>1, <1>2, <1>3, <1>4, <1>5, <1>6, MoveStep

LEMMA DownloadStep ==
  ASSUME IInv, NEW t \in Tasks, Download(t) \/ NotModified(t)
  PROVE  IInv'
<1>1. CASE Download(t)
  <2>1. PICK b \in Bundles :
          tasks' = [tasks EXCEPT ![t].pc = "refresh", ![t].bundle = b]
    BY <1>1 DEF Download
  <2>2. b \in Bundle BY BundleFacts
  <2> QED BY <1>1, <2>1, <2>2, BytesStep DEF Download, At
<1>2. CASE NotModified(t)
  <2>1. tasks[t].origin \in Origins BY TaskFacts DEF TaskType
  <2>2. representations[tasks[t].origin] \in Bundle
    BY <1>2, <2>1 DEF NotModified, IInv, TypeOK
  <2> QED BY <1>2, <2>2, BytesStep DEF NotModified, At
<1> QED BY <1>1, <1>2

\* The jobs that a task's end or its next attempt leaves behind.
Abandoned(t) ==
    /\ \A j \in jobs' : j.owner # t
    /\ \A j \in jobs' : j.owner # None => \E k \in jobs : k.owner = j.owner

\* The task fails while jobs change.
LEMMA FailBesideJobs ==
  ASSUME IInv, NEW t \in Tasks, Fail(t), Forward, Abandoned(t), UNCHANGED retained
  PROVE  IInv'
<1> DEFINE r == Idle
<1>1. /\ r \in TaskType /\ r.pc = "idle" /\ TaskOK(r, learned', revoked', retained', current')
  BY IdleOK DEF Forward
<1>2. Becomes(t, r) BY <1>1 DEF Becomes, Fail, Abandoned, InChannel
<1>3. Spares(t) BY DEF Spares, Fail, Released, Abandoned
<1> HIDE DEF r
<1> QED BY <1>1, <1>2, <1>3, TaskStep

\* The other origin is tried, or the acquisition fails, while jobs change.
LEMMA NextOriginStep ==
  ASSUME IInv, NEW t \in Tasks, tasks[t].pc \in {"download", "refresh", "running", "postcheck"},
         NextOrigin(t), Forward, Abandoned(t), UNCHANGED retained
  PROVE  IInv'
<1>1. CASE Fail(t) BY <1>1, FailBesideJobs
<1>2. CASE /\ UNCHANGED lockVars
           /\ tasks' = [tasks EXCEPT ![t].pc = "download", ![t].origin = 2,
                                     ![t].bundle = None, ![t].snapshot = None]
  <2> DEFINE q == tasks[t]
             r == [q EXCEPT !.pc = "download", !.origin = 2, !.bundle = None,
                            !.snapshot = None]
  <2>1. /\ q \in TaskType /\ TaskOK(q, learned, revoked, retained, current)
        /\ (t \in Preparers => channel = t) /\ learned \in Nat /\ q.since \in Nat
    BY TaskFacts DEF InChannel, Stages, TaskType
  <2>2. tasks' = [tasks EXCEPT ![t] = r] BY <1>2, <2>1 DEF IInv, TypeOK, TaskType
  <2>3. r \in TaskType
    <3>1. 2 \in Origins BY DEF Origins
    <3> QED BY <2>1, <3>1 DEF TaskType, Stages
  <2>4. r.pc = "download" /\ r.since = q.since /\ r.barred = q.barred
    BY <2>1 DEF TaskType
  <2> HIDE DEF r
  <2>5. TaskOK(r, learned', revoked', retained', current')
    BY <2>1, <2>4 DEF TaskOK, WithSnapshot, Forward
  <2>6. Becomes(t, r) BY <1>2, <2>1, <2>2, <2>4, <2>5 DEF Becomes, Abandoned, lockVars
  <2>7. Spares(t) BY <1>2 DEF Spares, Abandoned, lockVars
  <2> QED BY <2>3, <2>6, <2>7, TaskStep
<1> QED BY <1>1, <1>2 DEF NextOrigin

LEMMA DownloadFailsStep ==
  ASSUME IInv, NEW t \in Tasks, DownloadFails(t)
  PROVE  IInv'
<1>1. /\ tasks[t].pc = "download" /\ NextOrigin(t)
      /\ UNCHANGED <<evidenceVars, representations, retained>>
  BY DEF DownloadFails, At
<1>2. Forward BY <1>1, NothingLearned DEF IInv, TypeOK, InOrder
<1>3. Abandoned(t)
  BY <1>1, EvidenceClientAssumption DEF Abandoned, evidenceVars, IInv, OwnersOK
<1> QED BY <1>1, <1>2, <1>3, NextOriginStep

\* What a bundle's signatures prove is learned whatever becomes of it.
LEMMA RefreshObservesStep ==
  ASSUME IInv, NEW t \in Tasks, RefreshObserves(t)
  PROVE  IInv'
<1> DEFINE q == tasks[t]
           b == q.bundle
           j == [owner |-> t, bundle |-> b, phase |-> "observed", snapshot |-> None]
           r == [q EXCEPT !.pc = "running", !.bundle = None]
<1>1. /\ q.pc = "refresh" /\ jobs = {} /\ jobs' = {j}
      /\ learned' = Max({learned, b.generation}) /\ revoked' = (revoked \/ b.revokes)
      /\ UNCHANGED <<installed, current, representations, cooldown, retained>>
      /\ channel' = channel
  BY DEF RefreshObserves, At, CpuFree, lockVars
<1>2. /\ q \in TaskType /\ TaskOK(q, learned, revoked, retained, current)
      /\ (t \in Preparers => channel = t) /\ learned \in Nat /\ q.since \in Nat
      /\ revoked \in BOOLEAN /\ q.barred \in BOOLEAN
  BY <1>1, TaskFacts DEF InChannel, Stages, TaskType
<1>3. b \in Bundle /\ b.generation \in Nat /\ b.revokes \in BOOLEAN
  BY <1>1, <1>2, BundleFacts DEF TaskOK
<1>4. learned' \in Nat /\ learned <= learned' BY <1>1, <1>2, <1>3, MaxOfTwo
<1>5. revoked' \in BOOLEAN /\ (revoked => revoked') BY <1>1, <1>2, <1>3
<1>6. j \in JobType BY <1>3 DEF JobType
<1>7. j.phase = "observed" /\ j.owner = t OBVIOUS
<1>8. tasks' = [tasks EXCEPT ![t] = r]
  BY <1>2 DEF RefreshObserves, IInv, TypeOK, TaskType
<1>9. r \in TaskType BY <1>2 DEF TaskType, Stages
<1>10. r.pc = "running" /\ r.since = q.since /\ r.barred = q.barred
  BY <1>2 DEF TaskType
<1> HIDE DEF j, r
<1>11. JobsOK'
  <2>1. current = installed BY <1>1 DEF IInv, JobsOK
  <2> QED BY <1>1, <1>7, <2>1 DEF JobsOK
<1>12. Forward
  <2>1. InOrder' BY <1>1 DEF IInv, InOrder
  <2>2. current.id <= current'.id BY <1>1 DEF IInv, TypeOK, Snap
  <2> QED BY <1>1, <1>4, <1>5, <1>6, <1>11, <2>1, <2>2 DEF Forward, IInv, TypeOK
<1>13. TaskOK(r, learned', revoked', retained', current')
  BY <1>2, <1>4, <1>5, <1>10 DEF TaskOK, WithSnapshot
<1>14. Becomes(t, r) BY <1>1, <1>2, <1>8, <1>10, <1>13 DEF Becomes
<1>15. Spares(t) BY <1>1, <1>7 DEF Spares
<1> QED BY <1>9, <1>12, <1>14, <1>15, TaskStep

LEMMA RefreshInstallsStep ==
  ASSUME IInv, NEW j \in jobs, RefreshInstalls(j)
  PROVE  IInv'
<1> DEFINE s == [generation |-> j.bundle.generation, id |-> installed.id + 1]
           k == [j EXCEPT !.phase = "installed", !.snapshot = s]
<1>1. /\ j.phase = "observed" /\ installed' = s /\ jobs' = (jobs \ {j}) \cup {k}
      /\ UNCHANGED <<learned, revoked, current, representations, cooldown, retained, tasks>>
      /\ channel' = channel
  BY DEF RefreshInstalls, lockVars
<1>2. /\ j \in JobType /\ installed.id \in Nat /\ current.id \in Nat /\ retained.id \in Nat
      /\ jobs = {j} /\ retained.id <= current.id /\ current.id <= installed.id
  BY DEF IInv, TypeOK, JobsOK, InOrder, Snap
<1>3. s \in Snap /\ s.id = installed.id + 1
  BY <1>2, BundleFacts DEF Snap, JobType
<1> HIDE DEF s
<1>4. k \in JobType /\ k.phase = "installed" /\ k.snapshot = s /\ k.owner = j.owner
  BY <1>2, <1>3 DEF JobType
<1> HIDE DEF k
<1>5. jobs' = {k} BY <1>1, <1>2
<1>6. JobsOK' BY <1>1, <1>4, <1>5 DEF JobsOK
<1>7. InOrder' BY <1>1, <1>2, <1>3 DEF InOrder
<1>8. current.id <= current'.id BY <1>1, <1>2
<1>9. Forward
  BY <1>1, <1>3, <1>4, <1>5, <1>6, <1>7, <1>8 DEF Forward, IInv, TypeOK
<1>10. \A i \in jobs' : i.owner # None => \E h \in jobs : h.owner = i.owner
  BY <1>4, <1>5
<1> QED BY <1>1, <1>9, <1>10, JobOnlyStep

\* The only job ends.
LEMMA LastJob ==
  ASSUME IInv, NEW j \in jobs, jobs' = jobs \ {j}
  PROVE  /\ jobs = {j} /\ jobs' = {} /\ j \in JobType
         /\ (j.owner # None => j.owner \in Tasks /\ tasks[j.owner].pc = "running")
<1>1. jobs = {j} /\ j \in JobType BY DEF IInv, JobsOK, TypeOK
<1> QED BY <1>1 DEF JobType, IInv, OwnersOK

LEMMA RefreshRejectsStep ==
  ASSUME IInv, NEW j \in jobs, RefreshRejects(j)
  PROVE  IInv'
<1>1. /\ j.phase = "observed" /\ jobs' = jobs \ {j}
      /\ UNCHANGED <<learned, revoked, installed, current, representations, retained>>
  BY DEF RefreshRejects
<1>2. /\ jobs = {j} /\ jobs' = {}
      /\ (j.owner # None => j.owner \in Tasks /\ tasks[j.owner].pc = "running")
  BY <1>1, LastJob
<1>3. JobsOK' BY <1>1, <1>2 DEF IInv, JobsOK
<1>4. Forward
  <2>1. InOrder' BY <1>1 DEF IInv, InOrder
  <2>2. current.id <= current'.id /\ learned <= learned' BY <1>1 DEF IInv, TypeOK, Snap
  <2> QED BY <1>1, <1>2, <1>3, <2>1, <2>2 DEF Forward, IInv, TypeOK
<1>5. CASE j.owner = None
  <2>1. UNCHANGED <<tasks, channel, retained>>
    BY <1>1, <1>5 DEF RefreshRejects, lockVars
  <2> QED BY <1>2, <1>4, <2>1, JobOnlyStep
<1>6. CASE j.owner # None
  <2> DEFINE t == j.owner
  <2>1. NextOrigin(t) /\ t \in Tasks /\ tasks[t].pc = "running"
    BY <1>2, <1>6 DEF RefreshRejects
  <2>2. Abandoned(t) BY <1>2 DEF Abandoned
  <2> HIDE DEF t
  <2> QED BY <1>1, <1>4, <2>1, <2>2, NextOriginStep
<1> QED BY <1>5, <1>6

\* What the job installed becomes what requests see.
LEMMA RefreshPublishesStep ==
  ASSUME IInv, NEW j \in jobs, RefreshPublishes(j)
  PROVE  IInv'
<1>1. /\ j.phase = "installed" /\ jobs' = jobs \ {j} /\ current' = j.snapshot
      /\ UNCHANGED <<learned, revoked, installed, retained>>
  BY DEF RefreshPublishes
<1>2. /\ jobs = {j} /\ jobs' = {} /\ j \in JobType
      /\ (j.owner # None => j.owner \in Tasks /\ tasks[j.owner].pc = "running")
  BY <1>1, LastJob
<1>3. /\ j.snapshot = installed /\ installed \in Snap /\ installed.id \in Nat
      /\ current.id \in Nat /\ retained.id \in Nat /\ retained.id <= current.id
      /\ current.id <= installed.id /\ current \in Snap
  BY <1>1 DEF IInv, JobsOK, TypeOK, Snap, InOrder
<1>4. JobsOK' BY <1>1, <1>2, <1>3 DEF JobsOK
<1>5. representations' \in [Origins -> Bundle \cup {None}]
  <2>1. CASE j.owner = None BY <2>1 DEF RefreshPublishes, IInv, TypeOK
  <2>2. CASE j.owner # None
    <3>1. /\ j.owner \in Tasks /\ tasks[j.owner] \in TaskType /\ j.bundle \in Bundle
      BY <1>2, <2>2 DEF IInv, TypeOK, JobType
    <3>2. representations' = [representations EXCEPT ![tasks[j.owner].origin] = j.bundle]
      BY <2>2 DEF RefreshPublishes
    <3> QED BY <3>1, <3>2 DEF IInv, TypeOK
  <2> QED BY <2>1, <2>2
<1>6. Forward
  <2>1. InOrder' BY <1>1, <1>3 DEF InOrder
  <2>2. current.id <= current'.id /\ learned <= learned' BY <1>1, <1>3 DEF IInv, TypeOK
  <2> QED BY <1>1, <1>2, <1>3, <1>4, <1>5, <2>1, <2>2 DEF Forward, IInv, TypeOK
<1>7. CASE j.owner = None
  <2>1. UNCHANGED <<tasks, channel, retained>>
    BY <1>1, <1>7 DEF RefreshPublishes, lockVars
  <2> QED BY <1>2, <1>6, <2>1, JobOnlyStep
<1>8. CASE j.owner # None
  <2> DEFINE t == j.owner
             q == tasks[t]
             r == [q EXCEPT !.pc = "postcheck", !.snapshot = j.snapshot]
  <2>1. /\ t \in Tasks /\ q.pc = "running" /\ q \in TaskType
        /\ TaskOK(q, learned, revoked, retained, current)
        /\ (t \in Preparers => channel = t) /\ (t \in Preparers <=> t \notin Refreshers)
    BY <1>2, <1>8, TaskFacts DEF InChannel, Stages
  <2>2. CASE t \in Preparers
    <3>1. /\ tasks' = [tasks EXCEPT ![t].pc = "postcheck", ![t].snapshot = j.snapshot]
          /\ channel' = channel
      BY <1>8, <2>2 DEF RefreshPublishes, GoWith, lockVars
    <3>2. tasks' = [tasks EXCEPT ![t] = r] BY <2>1, <3>1 DEF IInv, TypeOK, TaskType
    <3>3. r \in TaskType BY <1>3, <2>1 DEF TaskType, Stages
    <3>4. /\ r.pc = "postcheck" /\ r.snapshot = installed /\ r.since = q.since
          /\ r.barred = q.barred
      BY <1>3, <2>1 DEF TaskType
    <3> HIDE DEF r
    <3>5. TaskOK(r, learned', revoked', retained', current')
      BY <1>1, <1>3, <2>1, <3>4 DEF TaskOK
    <3>6. Becomes(t, r) BY <1>2, <2>1, <2>2, <3>1, <3>2, <3>4, <3>5 DEF Becomes
    <3>7. Spares(t) BY <1>1, <1>2, <3>1 DEF Spares
    <3> QED BY <1>6, <2>1, <3>3, <3>6, <3>7, TaskStep
  <2>3. CASE t \notin Preparers
    <3> DEFINE i == Idle
    <3>1. tasks' = [tasks EXCEPT ![t] = i] /\ channel' = channel
      BY <1>8, <2>3 DEF RefreshPublishes, Succeed
    <3>2. /\ i \in TaskType /\ i.pc = "idle"
          /\ TaskOK(i, learned', revoked', retained', current')
      BY <1>6, IdleOK DEF Forward
    <3>3. Becomes(t, i) BY <1>2, <3>1, <3>2 DEF Becomes, InChannel
    <3>4. Spares(t) BY <1>1, <1>2, <3>1 DEF Spares
    <3> HIDE DEF i
    <3> QED BY <1>6, <2>1, <3>2, <3>3, <3>4, TaskStep
  <2> QED BY <2>2, <2>3
<1> QED BY <1>7, <1>8

LEMMA PostcheckStep ==
  ASSUME IInv, NEW t \in Tasks, Postcheck(t)
  PROVE  IInv'
<1> DEFINE q == tasks[t]
           r == [q EXCEPT !.pc = "reappraise", !.snapshot = q.snapshot, !.origin = 1]
<1>1. q.pc = "postcheck" /\ UNCHANGED <<evidenceVars, representations, retained>>
  BY DEF Postcheck, At
<1>2. /\ q \in TaskType /\ TaskOK(q, learned, revoked, retained, current)
      /\ t \in Preparers /\ t \notin Refreshers /\ channel = t
  BY <1>1, TaskFacts DEF InChannel, Stages
<1>3. CASE Succeed(t, q.snapshot)
  <2>1. channel' = channel
        /\ tasks' = [tasks EXCEPT ![t].pc = "reappraise", ![t].snapshot = q.snapshot,
                                  ![t].origin = 1]
    BY <1>2, <1>3 DEF Succeed
  <2>2. tasks' = [tasks EXCEPT ![t] = r] BY <1>2, <2>1 DEF IInv, TypeOK, TaskType
  <2>3. r \in TaskType
    <3>1. 1 \in Origins BY DEF Origins
    <3> QED BY <1>2, <3>1 DEF TaskType, Stages
  <2>4. /\ r.pc = "reappraise" /\ r.snapshot = q.snapshot /\ r.since = q.since
        /\ r.barred = q.barred
    BY <1>2 DEF TaskType
  <2>5. q.pc \in WithSnapshot BY <1>1 DEF WithSnapshot, InChannel, Stages
  <2> HIDE DEF r
  <2>6. TaskOK(r, learned, revoked, retained, current)
    BY <1>2, <2>4, <2>5 DEF TaskOK
  <2> QED BY <1>1, <1>2, <2>1, <2>2, <2>3, <2>4, <2>6, MoveStep
<1>4. CASE NextOrigin(t)
  <2>1. Forward BY <1>1, NothingLearned DEF IInv, TypeOK, InOrder
  <2>2. Abandoned(t)
    BY <1>1, EvidenceClientAssumption DEF Abandoned, evidenceVars, IInv, OwnersOK
  <2> QED BY <1>1, <1>4, <2>1, <2>2, NextOriginStep
<1> QED BY <1>3, <1>4 DEF Postcheck

\* A job that nobody waits for is still the only one, and goes on as it was.
LEMMA DisownStep ==
  ASSUME IInv, NEW t \in Tasks, Disown(t),
         UNCHANGED <<learned, revoked, installed, current, representations, retained>>
  PROVE  Forward /\ Abandoned(t)
<1> DEFINE D(j) == IF j.owner = t THEN [j EXCEPT !.owner = None] ELSE j
<1>1. jobs' = {D(j) : j \in jobs} BY DEF Disown
<1>2. ASSUME NEW j \in jobs
      PROVE  /\ D(j) \in JobType /\ D(j).phase = j.phase /\ D(j).snapshot = j.snapshot
             /\ D(j).owner = IF j.owner = t THEN None ELSE j.owner
  BY DEF IInv, TypeOK, JobType
<1> HIDE DEF D
<1>3. JobsOK' BY <1>1, <1>2 DEF IInv, JobsOK
<1>4. Forward
  <2>1. InOrder' BY DEF IInv, InOrder
  <2>2. current.id <= current'.id /\ learned <= learned' BY DEF IInv, TypeOK, Snap
  <2>3. jobs' \subseteq JobType BY <1>1, <1>2
  <2> QED BY <1>3, <2>1, <2>2, <2>3 DEF Forward, IInv, TypeOK
<1>5. Abandoned(t) BY <1>1, <1>2, EvidenceClientAssumption DEF Abandoned
<1> QED BY <1>4, <1>5

-----------------------------------------------------------------------------
(* The specification.                                                      *)

LEMMA InitIInv == Init => IInv
<1> SUFFICES ASSUME Init PROVE IInv OBVIOUS
<1>1. /\ installed \in Snap /\ current = installed /\ retained = installed
      /\ installed.id \in Nat
  BY DEF Init, Snap
<1>2. \A t \in Tasks : tasks[t] = Idle BY DEF Init
<1>3. TypeOK BY <1>1, IdleOK DEF Init, TypeOK
<1>4. TasksOK BY <1>2, <1>3, IdleOK DEF TasksOK, TypeOK
<1>5. ChannelOK BY <1>2, IdleOK DEF ChannelOK, Tasks, InChannel
<1>6. JobsOK BY <1>1 DEF Init, JobsOK
<1>7. OwnersOK BY DEF Init, OwnersOK
<1>8. InOrder BY <1>1 DEF InOrder
<1> QED BY <1>3, <1>4, <1>5, <1>6, <1>7, <1>8 DEF IInv

LEMMA AdvanceStep ==
  ASSUME IInv, NEW t \in Tasks, Advance(t)
  PROVE  IInv'
BY LockChannelStep, CheckKeysStep, CheckCollateralStep, AppraiseStep, ReappraiseStep,
   LastKeysStep, LastCollateralStep, LockAcquisitionStep, PrecheckStep, DownloadStep,
   DownloadFailsStep, RefreshObservesStep, PostcheckStep DEF Advance

LEMMA NextIInv == IInv /\ [Next]_vars => IInv'
<1> SUFFICES ASSUME IInv, [Next]_vars PROVE IInv' OBVIOUS
<1>1. ASSUME UNCHANGED <<tasks, channel, retained, representations, evidenceVars>> PROVE IInv'
  <2>1. Forward BY <1>1, NothingLearned DEF IInv, TypeOK, InOrder
  <2>2. jobs' = jobs BY <1>1 DEF evidenceVars
  <2> QED BY <1>1, <2>1, <2>2, JobOnlyStep
<1>2. CASE UNCHANGED vars BY <1>1, <1>2 DEF vars, evidenceVars
<1>3. ASSUME NEW t \in Tasks, Advance(t) PROVE IInv' BY <1>3, AdvanceStep
<1>4. CASE JobStep
  BY <1>4, RefreshInstallsStep, RefreshPublishesStep, RefreshRejectsStep DEF JobStep
<1>5. ASSUME NEW t \in Tasks, StartPrepare(t) \/ Return(t) \/ StartRefresher(t) PROVE IInv'
  BY <1>5, StartPrepareStep, ReturnStep, StartRefresherStep
<1>6. ASSUME NEW t \in Tasks, AttemptTimeout(t) PROVE IInv'
  BY <1>6, DisownStep, NextOriginStep DEF AttemptTimeout
<1>7. ASSUME NEW t \in Tasks, Cancel(t) PROVE IInv'
  BY <1>7, DisownStep, FailBesideJobs DEF Cancel
<1>8. CASE CooldownEnds BY <1>1, <1>8 DEF CooldownEnds, lockVars
<1> QED BY <1>2, <1>3, <1>4, <1>5, <1>6, <1>7, <1>8 DEF Next, Progress

LEMMA Invariant == Spec => []IInv
BY InitIInv, NextIInv, PTL DEF Spec

\* For any number of requests, refreshes, deadlines and bundles: the context
\* that Channel::prepare hands to a request was admitted by a root decision no
\* older than the request, and no revocation known at its start was overlooked.
THEOREM RetirementIsHonoured == Spec => []RetirementHonoured
<1>1. IInv => RetirementHonoured
  BY DEF IInv, TasksOK, TaskOK, RetirementHonoured, At, Tasks
<1> QED BY <1>1, Invariant, PTL

\* While no job runs, EvidenceClient::current is what the verifier accepted
\* last, however many of the tasks that fetched it gave up.
THEOREM IdleIsPublished == Spec => []PublishedWhenIdle
<1>1. IInv => PublishedWhenIdle BY DEF IInv, JobsOK, PublishedWhenIdle
<1> QED BY <1>1, Invariant, PTL

\* The steps that change what requests see or what the channel retains.
LEMMA OnlyTwoSteps ==
  ASSUME Next, ~ UNCHANGED <<current, retained>>
  PROVE  \/ \E j \in jobs : RefreshPublishes(j)
         \/ \E t \in Tasks : LastCollateral(t)
<1> USE DEF evidenceVars
<1>1. ASSUME NEW t \in Tasks, Advance(t), ~LastCollateral(t) PROVE UNCHANGED <<current, retained>>
  BY <1>1 DEF Advance, LockChannel, CheckKeys, CheckCollateral, Appraise, Reappraise,
     LastKeys, LockAcquisition, Precheck, Download, NotModified, DownloadFails,
     RefreshObserves, Postcheck, OnlyTasks
<1>2. ASSUME JobStep, \A j \in jobs : ~RefreshPublishes(j) PROVE UNCHANGED <<current, retained>>
  BY <1>2 DEF JobStep, RefreshInstalls, RefreshRejects
<1>3. ASSUME NEW t \in Tasks, \/ StartPrepare(t) \/ Return(t) \/ StartRefresher(t)
                              \/ AttemptTimeout(t) \/ Cancel(t)
      PROVE  UNCHANGED <<current, retained>>
  BY <1>3 DEF StartPrepare, Return, StartRefresher, AttemptTimeout, Cancel, OnlyTasks
<1>4. CooldownEnds => UNCHANGED <<current, retained>> BY DEF CooldownEnds
<1> QED BY <1>1, <1>2, <1>3, <1>4 DEF Next, Progress

\* Neither EvidenceClient::current nor the channel's context ever goes back to
\* a snapshot that the verifier installed earlier, whichever job or request
\* comes last.
THEOREM SnapshotsStayInOrder == Spec => SnapshotsInOrder
<1> DEFINE Ahead == current'.id >= current.id /\ retained'.id >= retained.id
<1>1. IInv /\ [Next]_vars => [Ahead]_vars
  <2> SUFFICES ASSUME IInv, Next PROVE Ahead OBVIOUS
  <2>1. /\ current.id \in Nat /\ retained.id \in Nat /\ installed.id \in Nat
        /\ current.id <= installed.id
    BY DEF IInv, TypeOK, Snap, InOrder
  <2>2. CASE UNCHANGED <<current, retained>> BY <2>1, <2>2
  <2>3. ASSUME NEW j \in jobs, RefreshPublishes(j) PROVE Ahead
    <3>1. j.snapshot = installed /\ current' = j.snapshot /\ retained' = retained
      BY <2>3 DEF RefreshPublishes, IInv, JobsOK
    <3> QED BY <2>1, <3>1
  <2>4. ASSUME NEW t \in Tasks, LastCollateral(t) PROVE Ahead
    <3>1. /\ tasks[t].pc \in WithSnapshot /\ current' = current
          /\ retained' = retained \/ retained' = tasks[t].snapshot
      BY <2>4 DEF LastCollateral, At, WithSnapshot, InChannel, Stages, evidenceVars
    <3>2. tasks[t].snapshot \in Snap /\ retained.id <= tasks[t].snapshot.id
      BY <3>1, TaskFacts DEF TaskOK
    <3>3. tasks[t].snapshot.id \in Nat BY <3>2 DEF Snap
    <3> QED BY <2>1, <3>1, <3>2, <3>3
  <2> QED BY <2>2, <2>3, <2>4, OnlyTwoSteps
<1>2. [][Next]_vars /\ []IInv => [][Ahead]_vars BY <1>1, PTL
<1> QED BY <1>2, Invariant, PTL DEF Spec, SnapshotsInOrder
=============================================================================
