------------------------ MODULE EncryptedClientProofs ------------------------
(***************************************************************************)
(* The pool of encrypted sessions implements Delivery, for any number of   *)
(* sends, sessions and nodes.                                              *)
(*                                                                         *)
(* Delivery forbids one thing that several actors could bring about: the   *)
(* second submission of a request through the session that refused it.    *)
(* Refusal retires that session and select() takes no retired one, but the *)
(* argument must last from the refusal to the next submission.  It does    *)
(* because a leased session stays in the pool: its active counter is the   *)
(* number of its leases, and retain() removes a session only at zero.      *)
(***************************************************************************)
EXTENDS EncryptedClient, FiniteSetTheorems, TLAPS

USE ZenonT(5), SMTT(30)

Stages == {"Idle", "Selecting", "Parked", "Opening", "Pushed", "Preparing", "Exchanging",
           "Refused", "Reading", "Done"}
Leasing == {"Preparing", "Exchanging", "Refused", "Reading"}
Windows == {"Ok", "Pending", "Limit"}

TaskType ==
  [pc : Stages, woken : BOOLEAN, lease : Ids \cup {None}, acked : BOOLEAN,
   first : Ids \cup {None}, ran : {0, 1}, result : {"None", "NotSent", "Refusal", "Sent"}]
SessionType ==
  [node : Nodes, active : Nat, retired : BOOLEAN, forced : BOOLEAN, window : Windows]

\* The shape of the pool and of the tasks.
TypeOK ==
  /\ task \in [Tasks -> TaskType]
  /\ owners \subseteq Ids /\ session \in [owners -> SessionType]

\* A leased session is in the pool, and its counter is the number of its leases.
Leased ==
  /\ \A t \in Tasks : task[t].lease # None => task[t].lease \in owners
  /\ \A o \in owners : session[o].active = Cardinality(Leases(o))

\* Where a task is, and what it holds; the session that refused it is retired or gone.
Stage(r) ==
  /\ r.lease # None <=> r.pc \in Leasing
  /\ r.ran = 1 => r.pc \in {"Reading", "Done"}
  /\ r.result = "None" <=> r.pc # "Done"
  /\ r.pc = "Refused" => session[r.lease].retired
  /\ r.first \in owners => session[r.first].retired
  /\ r.lease # None => r.lease # r.first
Staged == \A t \in Tasks : Stage(task[t])

IInv == TypeOK /\ Leased /\ Staged

-----------------------------------------------------------------------------
(* Steps in general.                                                       *)

\* What a notification leaves of a task.
Alike(r, q) ==
  /\ q.pc = r.pc /\ q.lease = r.lease /\ q.first = r.first
  /\ q.ran = r.ran /\ q.result = r.result

\* Task t becomes new; the others are at most notified.
Becomes(t, new) ==
  /\ task' \in [Tasks -> TaskType]
  /\ task'[t] = new
  /\ \A u \in Tasks \ {t} : Alike(task[u], task'[u])

\* What every step keeps of the sessions.
Carried ==
  /\ owners' \subseteq Ids /\ session' \in [owners' -> SessionType]
  /\ \A o \in owners \cap owners' : session[o].retired => session'[o].retired
  /\ \A o \in owners \ owners' : session[o].active = 0
  /\ \A o \in owners' \ owners : session'[o].active = 0 /\ \A u \in Tasks : task[u].first # o

\* The leases of a session are finitely many.
LEMMA LeasesFinite == \A s : IsFiniteSet(Leases(s)) /\ Cardinality(Leases(s)) \in Nat
<1> SUFFICES ASSUME NEW s PROVE IsFiniteSet(Leases(s)) /\ Cardinality(Leases(s)) \in Nat
  OBVIOUS
<1>1. Leases(s) \subseteq Tasks BY DEF Leases
<1>2. IsFiniteSet(Leases(s)) BY <1>1, FS_Subset, PoolAssumption
<1> QED BY <1>2, FS_CardinalityType

\* A session outside the pool, or one without active leases, is leased by no task.
LEMMA NotLeased ==
  ASSUME IInv, NEW o, o \notin owners \/ session[o].active = 0, o # None
  PROVE  Leases(o) = {}
<1>1. CASE o \notin owners BY <1>1 DEF IInv, Leased, Leases
<1>2. CASE o \in owners /\ session[o].active = 0
  <2>1. Cardinality(Leases(o)) = 0 BY <1>2 DEF IInv, Leased
  <2> QED BY <2>1, LeasesFinite, FS_EmptySet
<1> QED BY <1>1, <1>2

\* Leased survives a step that leaves leases and counters alone.
LEMMA LeasesKept ==
  ASSUME IInv, Carried,
         \A u \in Tasks : task'[u].lease = task[u].lease,
         \A o \in owners \cap owners' : session'[o].active = session[o].active
  PROVE  Leased'
<1>1. \A o : Leases(o)' = Leases(o) BY DEF Leases
<1>2. ASSUME NEW t \in Tasks, task'[t].lease # None
      PROVE  task'[t].lease \in owners'
  <2> DEFINE s == task[t].lease
  <2>1. s \in owners /\ t \in Leases(s) BY <1>2 DEF IInv, Leased, Leases
  <2>2. session[s].active # 0 BY <1>2, <2>1, NotLeased
  <2> QED BY <2>1, <2>2 DEF Carried
<1>3. ASSUME NEW o \in owners' PROVE session'[o].active = Cardinality(Leases(o)')
  <2>1. CASE o \in owners BY <1>1, <2>1 DEF IInv, Leased
  <2>2. CASE o \notin owners
    <3>1. o # None BY PoolAssumption DEF Carried
    <3>2. Leases(o)' = {} BY <2>2, <3>1, NotLeased, <1>1
    <3> QED BY <2>2, <3>2, FS_EmptySet DEF Carried
  <2> QED BY <2>1, <2>2
<1> QED BY <1>2, <1>3 DEF Leased

\* A task that starts over is a task.
LEMMA Retried ==
  ASSUME NEW r \in {0, 1}, NEW s \in Ids
  PROVE  [NewTask EXCEPT !.pc = "Selecting", !.ran = r, !.first = s] \in TaskType
<1>1. NewTask \in TaskType BY DEF NewTask, TaskType, Stages
<1>2. "Selecting" \in Stages BY DEF Stages
<1>3. \A f \in TaskType : [f EXCEPT !.pc = "Selecting", !.ran = r, !.first = s] \in TaskType
  BY <1>2, ZenonT(60) DEF TaskType
<1> QED BY <1>1, <1>3

\* Leased survives a step in which t takes a lease on s.
LEMMA LeaseTaken ==
  ASSUME IInv, Carried, NEW t \in Tasks, NEW s \in owners \cap owners',
         task[t].lease = None, task'[t].lease = s,
         \A u \in Tasks \ {t} : task'[u].lease = task[u].lease,
         \A o \in owners \cap owners' :
           session'[o].active = IF o = s THEN session[o].active + 1 ELSE session[o].active
  PROVE  Leased'
<1>0. s # None BY PoolAssumption DEF IInv, TypeOK
<1>1. Leases(s)' = Leases(s) \cup {t} /\ t \notin Leases(s) BY <1>0 DEF Leases
<1>2. \A o \in Ids \ {s} : Leases(o)' = Leases(o) BY PoolAssumption DEF Leases
<1>3. ASSUME NEW u \in Tasks, task'[u].lease # None
      PROVE  task'[u].lease \in owners'
  <2>1. CASE u = t BY <2>1
  <2>2. CASE u # t
    <3> DEFINE o == task[u].lease
    <3>1. o \in owners /\ u \in Leases(o) /\ o # None
      BY <1>3, <2>2 DEF IInv, Leased, Leases
    <3>2. session[o].active # 0 BY <3>1, NotLeased
    <3> QED BY <2>2, <3>1, <3>2 DEF Carried
  <2> QED BY <2>1, <2>2
<1>4. ASSUME NEW o \in owners' PROVE session'[o].active = Cardinality(Leases(o)')
  <2>0. o \in Ids BY DEF Carried
  <2>1. CASE o = s
    <3>0. IsFiniteSet(Leases(s)) BY LeasesFinite
    <3>1. PICK L : L = Leases(s) OBVIOUS
    <3>2. IsFiniteSet(L) /\ t \notin L /\ Leases(s)' = L \cup {t} BY <1>1, <3>0, <3>1
    <3>3. Cardinality(L \cup {t}) = Cardinality(L) + 1 BY <3>2, FS_AddElement
    <3>4. session[s].active = Cardinality(L) BY <3>1 DEF IInv, Leased
    <3> QED BY <2>1, <3>2, <3>3, <3>4
  <2>2. CASE o # s /\ o \in owners BY <1>2, <2>0, <2>2 DEF IInv, Leased
  <2>3. CASE o \notin owners
    <3>1. Leases(o)' = {} BY <1>2, <2>0, <2>3, NotLeased, PoolAssumption
    <3> QED BY <2>3, <3>1, FS_EmptySet DEF Carried
  <2> QED BY <2>1, <2>2, <2>3
<1> QED BY <1>3, <1>4 DEF Leased

\* Leased survives a step in which t drops its lease, and the counter stays a number.
LEMMA LeaseDropped ==
  ASSUME IInv, Carried, NEW t \in Tasks, NEW s, task[t].lease = s, s # None,
         task'[t].lease = None,
         \A u \in Tasks \ {t} : task'[u].lease = task[u].lease,
         \A o \in owners \cap owners' :
           session'[o].active = IF o = s THEN session[o].active - 1 ELSE session[o].active
  PROVE  Leased'
<1>1. Leases(s)' = Leases(s) \ {t} /\ t \in Leases(s) BY DEF Leases
<1>2. \A o \in Ids \ {s} : Leases(o)' = Leases(o) BY PoolAssumption DEF Leases
<1>3. ASSUME NEW u \in Tasks, task'[u].lease # None
      PROVE  task'[u].lease \in owners'
  <2> DEFINE o == task[u].lease
  <2>1. o \in owners /\ u \in Leases(o) /\ o # None /\ u # t
    BY <1>3 DEF IInv, Leased, Leases
  <2>2. session[o].active # 0 BY <2>1, NotLeased
  <2> QED BY <2>1, <2>2 DEF Carried
<1>4. ASSUME NEW o \in owners' PROVE session'[o].active = Cardinality(Leases(o)')
  <2>0. o \in Ids BY DEF Carried
  <2>1. CASE o = s /\ o \in owners
    <3>1. Cardinality(Leases(s)') = Cardinality(Leases(s)) - 1
      <4> DEFINE L == Leases(s)
      <4>1. IsFiniteSet(L) /\ t \in L BY <1>1, LeasesFinite
      <4> HIDE DEF L
      <4>2. Cardinality(L \ {t}) = Cardinality(L) - 1 BY <4>1, FS_RemoveElement
      <4> QED BY <1>1, <4>2 DEF L
    <3> QED BY <2>1, <3>1 DEF IInv, Leased
  <2>2. CASE o # s /\ o \in owners BY <1>2, <2>0, <2>2 DEF IInv, Leased
  <2>3. CASE o \notin owners
    <3>1. o # s BY <2>3 DEF IInv, Leased
    <3>2. Leases(o)' = {} BY <1>2, <2>0, <2>3, <3>1, NotLeased, PoolAssumption
    <3> QED BY <2>3, <3>2, FS_EmptySet DEF Carried
  <2> QED BY <2>1, <2>2, <2>3
<1> QED BY <1>3, <1>4 DEF Leased

\* A lease that is held counts.
LEMMA HeldCounts ==
  ASSUME IInv, NEW t \in Tasks, task[t].lease # None
  PROVE  /\ task[t].lease \in owners /\ session[task[t].lease].active \in Nat \ {0}
         /\ session[task[t].lease].active - 1 \in Nat
<1>1. task[t].lease \in owners /\ t \in Leases(task[t].lease)
  BY DEF IInv, Leased, Leases
<1>2. session[task[t].lease].active # 0 BY <1>1, NotLeased
<1>3. session[task[t].lease].active \in Nat BY <1>1 DEF IInv, TypeOK, SessionType
<1> QED BY <1>1, <1>2, <1>3

\* The stages of the tasks that are at most notified last.
LEMMA StagesKept ==
  ASSUME IInv, Carried, Leased', NEW t \in Tasks, NEW new, Becomes(t, new), Stage(new)'
  PROVE  Staged'
<1> SUFFICES ASSUME NEW u \in Tasks \ {t} PROVE Stage(task[u])'
  BY DEF Staged, Becomes
<1>1. Alike(task[u], task'[u]) /\ Stage(task[u]) BY DEF Becomes, IInv, Staged
<1>2. task[u].lease # None => task[u].lease \in owners /\ task[u].lease \in owners'
  BY <1>1 DEF Alike, IInv, Leased
<1>3. task[u].pc = "Refused" => session'[task[u].lease].retired
  BY <1>1, <1>2 DEF Stage, Carried, Leasing
<1>4. task[u].first \in owners' => session'[task[u].first].retired
  BY <1>1 DEF Stage, Carried
<1> QED BY <1>1, <1>3, <1>4 DEF Stage, Alike

\* notify_waiters() and a plain assignment both make t what the step says.
LEMMA NotifyBecomes ==
  ASSUME TypeOK, NEW t \in Tasks, NEW new \in TaskType, Notify(t, new)
  PROVE  Becomes(t, new)
<1>1. task' = [u \in Tasks |-> IF u = t THEN new
                               ELSE IF Enabled(u) THEN [task[u] EXCEPT !.woken = TRUE]
                               ELSE task[u]]
  BY DEF Notify
<1>2. ASSUME NEW u \in Tasks \ {t} PROVE task'[u] \in TaskType /\ Alike(task[u], task'[u])
  BY <1>1 DEF TypeOK, TaskType, Alike
<1> QED BY <1>1, <1>2 DEF Becomes

\* An assignment to one task notifies nobody.
LEMMA AloneBecomes ==
  ASSUME TypeOK, NEW t \in Tasks, NEW new \in TaskType, task' = [task EXCEPT ![t] = new]
  PROVE  Becomes(t, new)
BY DEF TypeOK, Becomes, Alike

-----------------------------------------------------------------------------
(* Steps of the contract.                                                  *)

\* A notified task looks the same to its caller.
LEMMA AlikeLooks ==
  ASSUME NEW r, NEW q, Alike(r, q)
  PROVE  Phase(q) = Phase(r) /\ Place(q) = Place(r) /\ Avoid(q) = Avoid(r) /\ Told(q) = Told(r)
BY DEF Alike, Phase, Place, Avoid, Told

\* The others look as before.
LEMMA OthersLook ==
  ASSUME NEW t \in Tasks, NEW new, Becomes(t, new)
  PROVE  \A u \in Tasks \ {t} :
           /\ Phase(task'[u]) = Phase(task[u]) /\ Place(task'[u]) = Place(task[u])
           /\ Avoid(task'[u]) = Avoid(task[u]) /\ Told(task'[u]) = Told(task[u])
BY AlikeLooks DEF Becomes

\* A step that leaves the looks of t alone is none of the contract.
LEMMA LooksTheSame ==
  ASSUME NEW t \in Tasks, NEW new, Becomes(t, new),
         Phase(new) = Phase(task[t]), Place(new) = Place(task[t]),
         Avoid(new) = Avoid(task[t]), Told(new) = Told(task[t])
  PROVE  UNCHANGED Contract!vars
<1>1. \A u \in Tasks :
         /\ Phase(task'[u]) = Phase(task[u]) /\ Place(task'[u]) = Place(task[u])
         /\ Avoid(task'[u]) = Avoid(task[u]) /\ Told(task'[u]) = Told(task[u])
  BY OthersLook DEF Becomes
<1> QED BY <1>1 DEF Contract!vars

\* A step that hands t over to a session it does not avoid.
LEMMA Submits ==
  ASSUME NEW t \in Tasks, NEW new, Becomes(t, new),
         Phase(task[t]) = "open", Phase(new) = "sent", Told(task[t]) = "nothing",
         Place(new) \in Ids \ {Avoid(task[t])},
         Avoid(new) = Avoid(task[t]), Told(new) = Told(task[t])
  PROVE  Contract!Next
<1>1. Contract!Submit(t)
  BY OthersLook DEF Becomes, Contract!Submit
<1> QED BY <1>1 DEF Contract!Next

\* A step in which the gateway runs the request of t.
LEMMA Processes ==
  ASSUME NEW t \in Tasks, NEW new, Becomes(t, new),
         Phase(task[t]) = "sent", Phase(new) = "ran", Place(new) = None,
         Avoid(new) = Avoid(task[t]), Told(new) = Told(task[t])
  PROVE  Contract!Next
<1>1. Contract!Process(t)
  BY OthersLook DEF Becomes, Contract!Process
<1> QED BY <1>1 DEF Contract!Next

\* A step in which the gateway gives the request of t back.
LEMMA ComesBack ==
  ASSUME NEW t \in Tasks, NEW new, Becomes(t, new),
         Phase(task[t]) = "sent", Phase(new) = "open", Place(new) = None,
         Avoid(new) \in {Avoid(task[t]), Place(task[t])}, Told(new) = Told(task[t])
  PROVE  Contract!Next
<1>1. Contract!ComeBack(t)
  BY OthersLook DEF Becomes, Contract!ComeBack
<1> QED BY <1>1 DEF Contract!Next

\* A step in which the caller of t learns an outcome that is true.
LEMMA Tells ==
  ASSUME NEW t \in Tasks, NEW new, Becomes(t, new),
         Told(task[t]) = "nothing", Told(new) \in Contract!Outcomes,
         Phase(new) = Phase(task[t]) \/ (Phase(task[t]) = "sent" /\ Phase(new) \in {"open", "ran"}),
         Told(new) = "unprocessed" => Phase(new) = "open", Told(new) # "response",
         Place(new) = None, Avoid(new) = None
  PROVE  Contract!Next
<1>1. Contract!Tell(t, Told(new))
  BY OthersLook DEF Becomes, Contract!Tell
<1> QED BY <1>1 DEF Contract!Next

-----------------------------------------------------------------------------
(* acquire() and select().                                                 *)

Good == IInv' /\ [Contract!Next]_(Contract!vars)

\* A step that leaves the pool alone carries every session over.
LEMMA SessionsSame ==
  ASSUME IInv, UNCHANGED session
  PROVE  Carried /\ \A o \in owners \cap owners' : session'[o].active = session[o].active
<1>1. owners' = owners BY DEF owners
<1> QED BY <1>1 DEF IInv, TypeOK, Carried

\* The invariant holds after the step if it does for t and for the leases.
LEMMA Preserved ==
  ASSUME IInv, Carried, Leased', NEW t \in Tasks, NEW new, Becomes(t, new), Stage(new)'
  PROVE  IInv'
BY StagesKept DEF IInv, TypeOK, Becomes, Carried

\* A task without a lease goes on without one.
LEMMA Waits ==
  ASSUME IInv, Carried, NEW t \in Tasks, NEW new \in TaskType, Becomes(t, new),
         \A o \in owners \cap owners' : session'[o].active = session[o].active,
         task[t].pc \notin Leasing, task[t].pc # "Done",
         new.pc \notin Leasing, new.pc # "Done", new.lease = task[t].lease,
         new.first = task[t].first, new.ran = task[t].ran, new.result = task[t].result
  PROVE  Good
<1>1. Stage(task[t]) BY DEF IInv, Staged
<1>2. Leased' BY LeasesKept DEF Becomes, Alike
<1>3. Stage(new)' BY <1>1 DEF Stage, Carried, Leasing
<1>4. IInv' BY <1>2, <1>3, Preserved
<1>5. UNCHANGED Contract!vars
  <2>1. Phase(new) = Phase(task[t]) /\ Told(new) = Told(task[t])
    BY DEF Phase, Told, Leasing
  <2>2. Place(new) = Place(task[t]) /\ Avoid(new) = Avoid(task[t])
    BY <2>1 DEF Place, Avoid, Leasing
  <2> QED BY <2>1, <2>2, LooksTheSame
<1> QED BY <1>4, <1>5 DEF Good

\* A task without a lease ends: the caller learns that nothing was processed.
LEMMA GivesUp ==
  ASSUME IInv, UNCHANGED session, NEW t \in Tasks, NEW result \in NotSent(t),
         task[t].pc \notin Leasing, task[t].pc # "Done",
         NEW new, new = Ended(t, result), Becomes(t, new)
  PROVE  Good
<1>1. Stage(task[t]) /\ task[t] \in TaskType BY DEF IInv, Staged, TypeOK
<1>2. result \in {"NotSent", "Refusal"} BY DEF NotSent
<1>3. /\ new.pc = "Done" /\ new.lease = None /\ new.first = None /\ new.ran = 0
      /\ new.result = result
  BY <1>1 DEF Ended, NewTask, Stage, TaskType, Leasing
<1>4. task[t].lease = None BY <1>1 DEF Stage
<1>6. Carried /\ \A o \in owners \cap owners' : session'[o].active = session[o].active
  BY SessionsSame
<1>7. Leased' BY <1>3, <1>4, <1>6, LeasesKept DEF Becomes, Alike
<1>8. Stage(new)' BY <1>2, <1>3, <1>6, PoolAssumption DEF Stage, Leasing, Carried
<1>9. IInv' BY <1>6, <1>7, <1>8, Preserved
<1>10. Phase(task[t]) = "open" /\ Told(task[t]) = "nothing"
  BY <1>1 DEF Phase, Told, Stage, Leasing, TaskType
<1>11. /\ Phase(new) = "open" /\ Told(new) = "unprocessed"
       /\ Place(new) = None /\ Avoid(new) = None
  BY <1>2, <1>3 DEF Phase, Told, Place, Avoid
<1>12. Contract!Next BY <1>10, <1>11, Tells DEF Contract!Outcomes
<1> QED BY <1>9, <1>12 DEF Good

\* A send begins, or wakes up.
LEMMA WaitSteps ==
  ASSUME IInv, NEW t \in Tasks, Begin(t) \/ Wake(t)
  PROVE  Good
<1>1. TypeOK /\ task[t] \in TaskType BY DEF IInv, TypeOK
<1>2. ASSUME Begin(t) PROVE Good
  <2> DEFINE new == [task[t] EXCEPT !.pc = "Selecting"]
  <2>1. new \in TaskType BY <1>1 DEF TaskType, Stages
  <2>2. task' = [task EXCEPT ![t] = new] BY <1>2 DEF Begin
  <2>3. Becomes(t, new) BY <1>1, <2>1, <2>2, AloneBecomes
  <2>4. UNCHANGED session /\ task[t].pc = "Idle" BY <1>2 DEF Begin
  <2>5. /\ new.pc = "Selecting" /\ new.lease = task[t].lease /\ new.first = task[t].first
        /\ new.ran = task[t].ran /\ new.result = task[t].result
    BY <1>1 DEF TaskType
  <2> HIDE DEF new
  <2> QED BY <2>1, <2>3, <2>4, <2>5, SessionsSame, Waits DEF Leasing
<1>3. ASSUME Wake(t) PROVE Good
  <2> DEFINE new == [task[t] EXCEPT !.pc = "Selecting", !.woken = FALSE]
  <2>1. new \in TaskType BY <1>1 DEF TaskType, Stages
  <2>2. task' = [task EXCEPT ![t] = new] BY <1>3 DEF Wake
  <2>3. Becomes(t, new) BY <1>1, <2>1, <2>2, AloneBecomes
  <2>4. UNCHANGED session /\ task[t].pc = "Parked" BY <1>3 DEF Wake
  <2>5. /\ new.pc = "Selecting" /\ new.lease = task[t].lease /\ new.first = task[t].first
        /\ new.ran = task[t].ran /\ new.result = task[t].result
    BY <1>1 DEF TaskType
  <2> HIDE DEF new
  <2> QED BY <2>1, <2>3, <2>4, <2>5, SessionsSame, Waits DEF Leasing
<1> QED BY <1>2, <1>3

\* A send ends before it has a lease: closed, failed setup, deadline or cancellation.
LEMMA GiveUpSteps ==
  ASSUME IInv, NEW t \in Tasks, SelectClosed(t) \/ OpeningFails(t) \/ GiveUpWaiting(t)
  PROVE  Good
<1>1. TypeOK /\ task[t] \in TaskType BY DEF IInv, TypeOK
<1>2. ASSUME NEW result \in NotSent(t) PROVE Ended(t, result) \in TaskType
  BY <1>1 DEF NotSent, Ended, NewTask, TaskType, Stages
<1>3. task[t].pc \notin Leasing /\ task[t].pc # "Done" /\ UNCHANGED session
  BY DEF SelectClosed, OpeningFails, GiveUpWaiting, Leasing
<1>4. \E result \in NotSent(t) :
         task' = [task EXCEPT ![t] = Ended(t, result)] \/ Notify(t, Ended(t, result))
  BY DEF SelectClosed, OpeningFails, GiveUpWaiting
<1>5. PICK result \in NotSent(t) : Becomes(t, Ended(t, result))
  BY <1>1, <1>2, <1>4, AloneBecomes, NotifyBecomes
<1>6. \E new : new = Ended(t, result) /\ Becomes(t, new) BY <1>5
<1> QED BY <1>3, <1>6, GivesUp

\* retain() drops idle retired sessions only, and select() may retire more.
LEMMA SelectCarries ==
  ASSUME IInv, NEW expired, NEW more,
         owners' = Kept(expired),
         \A o \in Kept(expired) :
           /\ session'[o].retired = Retired(o, more) /\ session'[o] \in SessionType,
         session' \in [owners' -> SessionType]
  PROVE  Carried
<1>1. Kept(expired) \subseteq owners BY DEF Kept
<1>2. \A o \in owners \ Kept(expired) : session[o].active = 0 BY DEF Kept
<1>3. \A o \in Kept(expired) : session[o].retired => session'[o].retired BY DEF Retired
<1> QED BY <1>1, <1>2, <1>3 DEF Carried, IInv, TypeOK

\* select() that finds no session keeps every lease.
LEMMA NoneReadyCarries ==
  ASSUME IInv, NEW t \in Tasks, NEW expired, NoneReady(t, expired)
  PROVE  Carried /\ \A o \in owners \cap owners' : session'[o].active = session[o].active
<1> DEFINE more == expired \cup Answering(expired, "Limit")
<1>1. session' = [o \in Kept(expired) |-> [session[o] EXCEPT !.retired = Retired(o, more)]]
  BY DEF NoneReady
<1>2. owners' = Kept(expired) BY <1>1 DEF owners
<1>3. ASSUME NEW o \in Kept(expired)
      PROVE  /\ session'[o].retired = Retired(o, more) /\ session'[o] \in SessionType
             /\ session'[o].active = session[o].active
  <2>1. session[o] \in SessionType BY DEF Kept, IInv, TypeOK
  <2>2. Retired(o, more) \in BOOLEAN BY <2>1 DEF Retired, SessionType
  <2> QED BY <1>1, <2>1, <2>2 DEF SessionType
<1>4. session' \in [owners' -> SessionType] BY <1>1, <1>2, <1>3
<1> HIDE DEF more
<1>5. Carried BY <1>2, <1>3, <1>4, SelectCarries
<1> QED BY <1>2, <1>3, <1>5

\* select() opens a setup or lets the send sleep.
LEMMA SelectWaits ==
  ASSUME IInv, NEW t \in Tasks, NEW expired,
         SelectOpening(t, expired) \/ SelectWait(t, expired)
  PROVE  Good
<1>1. TypeOK /\ task[t] \in TaskType BY DEF IInv, TypeOK
<1>2. NoneReady(t, expired) /\ task[t].pc = "Selecting"
  BY DEF SelectOpening, SelectWait, NoneReady
<1>3. Carried /\ \A o \in owners \cap owners' : session'[o].active = session[o].active
  BY <1>2, NoneReadyCarries
<1>4. PICK new \in TaskType :
         /\ task' = [task EXCEPT ![t] = new]
         /\ new.pc \in {"Opening", "Parked"} /\ new.lease = task[t].lease
         /\ new.first = task[t].first /\ new.ran = task[t].ran /\ new.result = task[t].result
  <2>1. CASE SelectOpening(t, expired)
    <3> DEFINE new == [task[t] EXCEPT !.pc = "Opening", !.woken = FALSE]
    <3>1. new \in TaskType BY <1>1 DEF TaskType, Stages
    <3>2. task' = [task EXCEPT ![t] = new] BY <2>1 DEF SelectOpening
    <3> QED BY <1>1, <3>1, <3>2 DEF TaskType
  <2>2. CASE SelectWait(t, expired)
    <3> DEFINE new == [task[t] EXCEPT !.pc = "Parked"]
    <3>1. new \in TaskType BY <1>1 DEF TaskType, Stages
    <3>2. task' = [task EXCEPT ![t] = new] BY <2>2 DEF SelectWait
    <3> QED BY <1>1, <3>1, <3>2 DEF TaskType
  <2> QED BY <2>1, <2>2
<1>5. Becomes(t, new) BY <1>1, <1>4, AloneBecomes
<1> QED BY <1>2, <1>3, <1>4, <1>5, Waits DEF Leasing

\* connect() answers with a session whose name nobody has in mind.
LEMMA ConnectedWaits ==
  ASSUME IInv, NEW t \in Tasks, Connected(t)
  PROVE  Good
<1>1. TypeOK /\ task[t] \in TaskType BY DEF IInv, TypeOK
<1>2. PICK s \in Ids \ owners, node \in Nodes :
         /\ \A u \in Tasks : task[u].first # s
         /\ session' = [o \in owners \cup {s} |-> IF o = s THEN NewSession(node)
                                                  ELSE session[o]]
  <2> DEFINE s == CHOOSE i \in Ids \ owners : \A u \in Tasks : task[u].first # i
  <2>1. \E i \in Ids \ owners : \A u \in Tasks : task[u].first # i
    BY DEF Connected
  <2>2. s \in Ids \ owners /\ \A u \in Tasks : task[u].first # s BY <2>1
  <2>3. \E node \in Nodes : session' = [o \in owners \cup {s} |->
           IF o = s THEN NewSession(node) ELSE session[o]]
    BY DEF Connected
  <2> HIDE DEF s
  <2> QED BY <2>2, <2>3
<1>3. owners' = owners \cup {s} BY <1>2 DEF owners
<1>4. NewSession(node) \in SessionType /\ NewSession(node).active = 0
  BY DEF NewSession, SessionType, Windows
<1>5. session' \in [owners' -> SessionType] BY <1>1, <1>2, <1>3, <1>4 DEF TypeOK
<1>6. \A o \in owners : session'[o] = session[o] BY <1>2
<1>7. session'[s].active = 0 BY <1>2, <1>4
<1>8. Carried BY <1>1, <1>2, <1>3, <1>5, <1>6, <1>7 DEF Carried, TypeOK
<1> DEFINE new == [task[t] EXCEPT !.pc = "Pushed"]
<1>9. new \in TaskType BY <1>1 DEF TaskType, Stages
<1>10. Becomes(t, new) BY <1>1, <1>9, AloneBecomes DEF Connected
<1>11. /\ new.pc = "Pushed" /\ new.lease = task[t].lease /\ new.first = task[t].first
       /\ new.ran = task[t].ran /\ new.result = task[t].result
  BY <1>1 DEF TaskType
<1>12. task[t].pc = "Opening" BY DEF Connected
<1> HIDE DEF new
<1> QED BY <1>6, <1>8, <1>9, <1>10, <1>11, <1>12, Waits DEF Leasing

\* The guard of a setup is dropped and the send goes round the loop.
LEMMA OpeningDoneWaits ==
  ASSUME IInv, NEW t \in Tasks, OpeningDone(t)
  PROVE  Good
<1>1. TypeOK /\ task[t] \in TaskType BY DEF IInv, TypeOK
<1> DEFINE new == [task[t] EXCEPT !.pc = "Selecting"]
<1>2. new \in TaskType BY <1>1 DEF TaskType, Stages
<1>3. Becomes(t, new) BY <1>1, <1>2, NotifyBecomes DEF OpeningDone
<1>4. /\ new.pc = "Selecting" /\ new.lease = task[t].lease /\ new.first = task[t].first
      /\ new.ran = task[t].ran /\ new.result = task[t].result
  BY <1>1 DEF TaskType
<1>5. task[t].pc = "Pushed" /\ UNCHANGED session BY DEF OpeningDone
<1> HIDE DEF new
<1> QED BY <1>2, <1>3, <1>4, <1>5, SessionsSame, Waits DEF Leasing

\* select() takes a session that is not retired, hence not the one that refused t.
LEMMA SelectReadyTakes ==
  ASSUME IInv, NEW t \in Tasks, NEW expired, SelectReady(t, expired)
  PROVE  Good
<1>1. TypeOK /\ task[t] \in TaskType /\ Stage(task[t]) /\ task[t].pc = "Selecting"
  BY DEF IInv, TypeOK, Staged, SelectReady
<1> DEFINE Opened(s, more, w) ==
      [o \in Kept(expired) |-> [session[o] EXCEPT !.retired = Retired(o, more),
                                 !.active = IF o = s THEN @ + 1 ELSE @,
                                 !.window = IF o = s THEN w ELSE @]]
<1>0. PICK s \in Answering(expired, "Ok") :
         /\ \E passed \in SUBSET Answering(expired, "Limit"), w \in Windows :
              session' = Opened(s, expired \cup passed, w)
         /\ task' = [task EXCEPT ![t].pc = "Preparing", ![t].lease = s, ![t].woken = FALSE]
  <2> HIDE DEF Opened
  <2>1. PICK s \in Answering(expired, "Ok") :
           /\ \E passed \in SUBSET Answering(expired, "Limit"),
                 w \in {"Ok", "Pending", "Limit"} :
                /\ \A o \in Answering(expired, "Limit") :
                     /\ session[o].active < session[s].active => o \in passed
                     /\ o \in passed => session[o].active <= session[s].active
                /\ session' = Opened(s, expired \cup passed, w)
           /\ task' = [task EXCEPT ![t].pc = "Preparing", ![t].lease = s, ![t].woken = FALSE]
    BY DEF SelectReady, Opened
  <2> QED BY <2>1 DEF Windows
<1>2. PICK more : \E w \in Windows : session' = Opened(s, more, w) BY <1>0
<1>2a. PICK w \in Windows : session' = Opened(s, more, w) BY <1>2
<1>3. s \in Kept(expired) /\ s \in owners /\ s \in Ids /\ ~session[s].retired
  BY <1>1 DEF Answering, Live, Kept, Retired, TypeOK
<1>4. owners' = Kept(expired) BY <1>2a DEF owners
<1>5. ASSUME NEW o \in Kept(expired)
      PROVE  /\ session'[o].retired = Retired(o, more) /\ session'[o] \in SessionType
             /\ session'[o].active = IF o = s THEN session[o].active + 1
                                     ELSE session[o].active
  <2>1. session[o] \in SessionType BY <1>1 DEF Kept, TypeOK
  <2>2. Retired(o, more) \in BOOLEAN BY <2>1 DEF Retired, SessionType
  <2>3. session'[o] = [session[o] EXCEPT !.retired = Retired(o, more),
                                         !.active = IF o = s THEN @ + 1 ELSE @,
                                         !.window = IF o = s THEN w ELSE @]
    BY <1>2a
  <2>4. session[o].active + 1 \in Nat BY <2>1 DEF SessionType
  <2> QED BY <2>1, <2>2, <2>3, <2>4 DEF SessionType
<1>6. session' \in [owners' -> SessionType] BY <1>2a, <1>4, <1>5
<1> HIDE DEF Opened
<1>7. Carried BY <1>4, <1>5, <1>6, SelectCarries
<1>8. PICK new \in TaskType :
         /\ task' = [task EXCEPT ![t] = new] /\ new.pc = "Preparing" /\ new.lease = s
         /\ new.first = task[t].first /\ new.ran = task[t].ran /\ new.result = task[t].result
  <2> DEFINE new == [task[t] EXCEPT !.pc = "Preparing", !.lease = s, !.woken = FALSE]
  <2>1. new \in TaskType BY <1>1, <1>3 DEF TaskType, Stages
  <2>2. task' = [task EXCEPT ![t] = new] BY <1>0
  <2> QED BY <1>1, <2>1, <2>2 DEF TaskType
<1>9. Becomes(t, new) BY <1>1, <1>8, AloneBecomes
<1>10. task[t].lease = None BY <1>1 DEF Stage, Leasing
<1>11. Leased'
  <2>1. \A u \in Tasks \ {t} : task'[u].lease = task[u].lease BY <1>9 DEF Becomes, Alike
  <2>2. task'[t].lease = s BY <1>8, <1>9 DEF Becomes
  <2>3. s \in owners \cap owners' BY <1>3, <1>4
  <2>4. \A o \in owners \cap owners' :
           session'[o].active = IF o = s THEN session[o].active + 1 ELSE session[o].active
    BY <1>4, <1>5
  <2> QED BY <1>7, <1>10, <2>1, <2>2, <2>3, <2>4, LeaseTaken
<1>12. Stage(new)'
  <2>1. s # None /\ s # new.first
    BY <1>1, <1>3, <1>8, PoolAssumption DEF Stage
  <2>2. new.first \in owners' => session'[new.first].retired
    BY <1>1, <1>7, <1>8 DEF Stage, Carried
  <2> QED BY <1>1, <1>8, <2>1, <2>2 DEF Stage, Leasing
<1>13. IInv' BY <1>7, <1>9, <1>11, <1>12, Preserved
<1>14. UNCHANGED Contract!vars
  <2>1. Phase(new) = Phase(task[t]) /\ Told(new) = Told(task[t])
    BY <1>1, <1>8 DEF Phase, Told
  <2>2. Phase(new) # "sent" BY <1>8 DEF Phase
  <2>3. Place(new) = Place(task[t]) /\ Avoid(new) = Avoid(task[t])
    BY <1>1, <1>8, <2>1, <2>2 DEF Place, Avoid
  <2> QED BY <1>9, <2>1, <2>3, LooksTheSame
<1> QED BY <1>13, <1>14 DEF Good

-----------------------------------------------------------------------------
(* exchange(), and the end of a lease.                                     *)

\* The windows a step may leave are windows.
LEMMA WindowTypes ==
  ASSUME IInv, NEW t \in Tasks, task[t].lease \in owners
  PROVE  WindowsAfter(task[t].lease, t) \subseteq Windows
BY DEF WindowsAfter, Windows, IInv, TypeOK, SessionType

\* A task with a lease ends.
LEMMA Ends ==
  ASSUME IInv, NEW t \in Tasks, NEW set, NEW result \in {"NotSent", "Refusal", "Sent"},
         NEW ran \in {0, 1}, task[t].pc \in Leasing, End(t, set, result, ran),
         ran = task[t].ran \/ task[t].pc = "Exchanging",
         result # "Sent" => ran = 0
  PROVE  Good
<1>1. TypeOK /\ task[t] \in TaskType /\ Stage(task[t]) BY DEF IInv, TypeOK, Staged
<1>2. PICK s : s = task[t].lease OBVIOUS
<1>3. s # None /\ s \in owners /\ session[s].active - 1 \in Nat
  BY <1>1, <1>2, HeldCounts DEF Stage
<1> DEFINE Left(lease, w) ==
      [o \in owners |-> [session[o] EXCEPT !.retired = Retired(o, set),
                          !.active = IF o = lease THEN @ - 1 ELSE @,
                          !.window = IF o = lease THEN w ELSE @]]
<1>4. PICK w \in WindowsAfter(s, t) : session' = Left(s, w)
  <2> HIDE DEF Left
  <2>1. \E w \in WindowsAfter(task[t].lease, t) : session' = Left(task[t].lease, w)
    BY DEF End, Left
  <2> QED BY <1>2, <2>1
<1>5. w \in Windows BY <1>2, <1>3, WindowTypes
<1>6. owners' = owners BY <1>4 DEF owners
<1>7. ASSUME NEW o \in owners
      PROVE  /\ session[o].retired => session'[o].retired
             /\ session'[o] \in SessionType
             /\ session'[o].active = IF o = s THEN session[o].active - 1
                                     ELSE session[o].active
  <2>1. session[o] \in SessionType BY <1>1 DEF TypeOK
  <2>2. session'[o] = [session[o] EXCEPT !.retired = Retired(o, set),
                                         !.active = IF o = s THEN @ - 1 ELSE @,
                                         !.window = IF o = s THEN w ELSE @]
    BY <1>4
  <2>3. Retired(o, set) \in BOOLEAN /\ (session[o].retired => Retired(o, set))
    BY <2>1 DEF Retired, SessionType
  <2>4. CASE o = s BY <1>3, <1>5, <2>1, <2>2, <2>3, <2>4 DEF SessionType
  <2>5. CASE o # s BY <2>1, <2>2, <2>3, <2>5 DEF SessionType
  <2> QED BY <2>4, <2>5
<1>8. Carried
  <2>1. session' \in [owners' -> SessionType] BY <1>4, <1>6, <1>7
  <2> QED BY <1>1, <1>6, <1>7, <2>1 DEF Carried, TypeOK
<1>9. PICK new \in TaskType :
         /\ Becomes(t, new) /\ new.pc = "Done" /\ new.lease = None /\ new.first = None
         /\ new.ran = ran /\ new.result = result
  <2> DEFINE new == [NewTask EXCEPT !.pc = "Done", !.ran = ran, !.result = result]
  <2>1. new \in TaskType BY DEF NewTask, TaskType, Stages
  <2>2. Becomes(t, new) BY <1>1, <2>1, NotifyBecomes DEF End
  <2>3. /\ new.pc = "Done" /\ new.lease = None /\ new.first = None
        /\ new.ran = ran /\ new.result = result
    BY DEF NewTask
  <2> HIDE DEF new
  <2> QED BY <2>1, <2>2, <2>3
<1>10. Leased'
  <2>1. \A u \in Tasks \ {t} : task'[u].lease = task[u].lease BY <1>9 DEF Becomes, Alike
  <2>2. task'[t].lease = None BY <1>9 DEF Becomes
  <2> QED BY <1>2, <1>3, <1>6, <1>7, <1>8, <2>1, <2>2, LeaseDropped
<1>11. Stage(new)'
  BY <1>1, <1>6, <1>9, PoolAssumption DEF Stage, Leasing, TypeOK
<1>12. IInv' BY <1>8, <1>9, <1>10, <1>11, Preserved
<1>13. Told(task[t]) = "nothing" BY <1>1 DEF Told, Stage, Leasing
<1>14. Place(new) = None /\ Avoid(new) = None BY <1>9 DEF Place, Phase, Avoid
<1>15. Told(new) = IF result = "Sent" THEN "unknown" ELSE "unprocessed"
  BY <1>9 DEF Told
<1>16. Phase(new) = IF ran = 1 THEN "ran" ELSE "open" BY <1>9 DEF Phase
<1>17. \/ Phase(new) = Phase(task[t])
       \/ Phase(task[t]) = "sent" /\ Phase(new) \in {"open", "ran"}
  BY <1>1, <1>16 DEF Phase, Stage, TaskType
<1>18. Contract!Next
  BY <1>9, <1>13, <1>14, <1>15, <1>16, <1>17, Tells DEF Contract!Outcomes
<1> QED BY <1>12, <1>18 DEF Good

\* A send with a lease ends: prepare() or the exchange fails, the body ends, or the caller leaves.
LEMMA EndSteps ==
  ASSUME IInv, NEW t \in Tasks,
         PrepareFails(t) \/ ExchangeFails(t) \/ BodyEnds(t) \/ Cancel(t)
  PROVE  Good
<1>1. task[t] \in TaskType /\ Stage(task[t]) BY DEF IInv, TypeOK, Staged
<1>2. task[t].ran \in {0, 1} /\ (task[t].ran = 1 => task[t].pc \in {"Reading", "Done"})
  BY <1>1 DEF TaskType, Stage
<1>3. CASE PrepareFails(t)
  <2>1. PICK set \in {{task[t].lease}, {}}, result \in NotSent(t) :
           End(t, set, result, task[t].ran)
    BY <1>3 DEF PrepareFails
  <2>2. task[t].pc = "Preparing" /\ result \in {"NotSent", "Refusal"}
    BY <1>3 DEF PrepareFails, NotSent
  <2> QED BY <1>2, <2>1, <2>2, Ends DEF Leasing
<1>4. CASE ExchangeFails(t)
  <2>1. task[t].pc = "Exchanging" /\ task[t].ran = 0 BY <1>2, <1>4 DEF ExchangeFails
  <2>2. PICK result \in {"NotSent", "Sent"}, ran \in {0, 1} :
           /\ End(t, {task[t].lease}, result, ran)
           /\ result # "Sent" => ran = 0
    BY <1>4, <2>1 DEF ExchangeFails
  <2> QED BY <2>1, <2>2, Ends DEF Leasing
<1>5. CASE BodyEnds(t)
  <2>1. PICK set \in {{task[t].lease}, {}} : End(t, set, "Sent", task[t].ran)
    BY <1>5 DEF BodyEnds
  <2>2. task[t].pc = "Reading" BY <1>5 DEF BodyEnds
  <2> QED BY <1>2, <2>1, <2>2, Ends DEF Leasing
<1>6. CASE Cancel(t)
  <2>1. End(t, {}, "Sent", task[t].ran) /\ task[t].pc \in Leasing
    BY <1>6 DEF Cancel, Leasing
  <2> QED BY <1>2, <2>1, Ends
<1> QED BY <1>3, <1>4, <1>5, <1>6

\* A task keeps its lease and goes to another stage.
LEMMA Holds ==
  ASSUME IInv, Carried, NEW t \in Tasks, NEW new \in TaskType, Becomes(t, new),
         \A o \in owners \cap owners' : session'[o].active = session[o].active,
         task[t].pc \in Leasing, new.pc \in Leasing, new.lease = task[t].lease,
         new.first = task[t].first, new.result = task[t].result,
         new.ran = 1 => new.pc = "Reading",
         new.pc = "Refused" => session'[new.lease].retired
  PROVE  IInv'
<1>1. Stage(task[t]) BY DEF IInv, Staged
<1>2. Leased' BY LeasesKept DEF Becomes, Alike
<1>3. new.first \in owners' => session'[new.first].retired
  BY <1>1 DEF Stage, Carried
<1>4. Stage(new)' BY <1>1, <1>3 DEF Stage, Leasing
<1> QED BY <1>2, <1>4, Preserved

\* The request is handed over, unless the pool was closed meanwhile.
LEMMA PreparedSubmits ==
  ASSUME IInv, NEW t \in Tasks, Prepared(t)
  PROVE  Good
<1>1. /\ TypeOK /\ task[t] \in TaskType /\ Stage(task[t])
      /\ task[t].pc = "Preparing" /\ task[t].ran = 0
  BY DEF IInv, TypeOK, Staged, Prepared, Stage, TaskType
<1>2. CASE closed
  <2>1. PICK result \in NotSent(t) : End(t, {}, result, task[t].ran)
    BY <1>2 DEF Prepared
  <2>2. result \in {"NotSent", "Refusal"} BY DEF NotSent
  <2> QED BY <1>1, <2>1, <2>2, Ends DEF Leasing
<1>3. CASE ~closed
  <2>1. PICK new \in TaskType :
           /\ task' = [task EXCEPT ![t] = new] /\ new.pc = "Exchanging"
           /\ new.lease = task[t].lease /\ new.first = task[t].first
           /\ new.ran = 0 /\ new.result = task[t].result
    <3> DEFINE new == [task[t] EXCEPT !.pc = "Exchanging"]
    <3>1. new \in TaskType BY <1>1 DEF TaskType, Stages
    <3>2. task' = [task EXCEPT ![t] = new] BY <1>3 DEF Prepared
    <3> QED BY <1>1, <3>1, <3>2 DEF TaskType
  <2>2. UNCHANGED session BY <1>3 DEF Prepared
  <2>3. Becomes(t, new) BY <1>1, <2>1, AloneBecomes
  <2>4. IInv' BY <1>1, <2>1, <2>2, <2>3, SessionsSame, Holds DEF Leasing
  <2>5. /\ Phase(task[t]) = "open" /\ Told(task[t]) = "nothing" /\ Phase(new) = "sent"
        /\ Told(new) = Told(task[t])
    BY <1>1, <2>1 DEF Phase, Told, Stage
  <2>6. Place(new) \in Ids \ {Avoid(task[t])} /\ Avoid(new) = Avoid(task[t])
    BY <1>1, <2>1, <2>5, PoolAssumption DEF Place, Avoid, Stage, TaskType, Leasing
  <2>7. Contract!Next BY <2>3, <2>5, <2>6, Submits
  <2> QED BY <2>4, <2>7 DEF Good
<1> QED BY <1>2, <1>3

\* The first record of the response, which says nothing yet.
LEMMA AcknowledgeHolds ==
  ASSUME IInv, NEW t \in Tasks, Acknowledge(t)
  PROVE  Good
<1>1. /\ TypeOK /\ task[t] \in TaskType /\ Stage(task[t]) /\ task[t].pc = "Exchanging"
  BY DEF IInv, TypeOK, Staged, Acknowledge
<1>2. PICK s : s = task[t].lease OBVIOUS
<1>3. s \in owners /\ s # None BY <1>1, <1>2, HeldCounts DEF Stage, Leasing
<1>4. PICK w \in WindowsAfter(s, t) : session' = [session EXCEPT ![s].window = w]
  BY <1>2 DEF Acknowledge
<1>5. w \in Windows BY <1>2, <1>3, WindowTypes
<1>6. owners' = owners BY <1>4 DEF owners
<1>7. ASSUME NEW o \in owners
      PROVE  /\ session'[o].retired = session[o].retired /\ session'[o] \in SessionType
             /\ session'[o].active = session[o].active
  <2>1. session[o] \in SessionType BY <1>1 DEF TypeOK
  <2>2. session'[o] = IF o = s THEN [session[o] EXCEPT !.window = w] ELSE session[o]
    BY <1>1, <1>4 DEF TypeOK
  <2> QED BY <1>5, <2>1, <2>2 DEF SessionType
<1>8. Carried
  <2>1. session' \in [owners' -> SessionType] BY <1>1, <1>4, <1>6, <1>7 DEF TypeOK
  <2> QED BY <1>1, <1>6, <1>7, <2>1 DEF Carried, TypeOK
<1>9. PICK new \in TaskType :
         /\ Becomes(t, new) /\ new.pc = "Exchanging" /\ new.lease = task[t].lease
         /\ new.first = task[t].first /\ new.ran = task[t].ran /\ new.result = task[t].result
  <2> DEFINE new == [task[t] EXCEPT !.acked = TRUE]
  <2>1. new \in TaskType BY <1>1 DEF TaskType
  <2>2. Becomes(t, new) BY <1>1, <2>1, NotifyBecomes DEF Acknowledge
  <2>3. /\ new.pc = "Exchanging" /\ new.lease = task[t].lease
        /\ new.first = task[t].first /\ new.ran = task[t].ran /\ new.result = task[t].result
    BY <1>1 DEF TaskType
  <2> HIDE DEF new
  <2> QED BY <2>1, <2>2, <2>3
<1>10. IInv' BY <1>1, <1>6, <1>7, <1>8, <1>9, Holds DEF Leasing, Stage
<1>11. /\ Phase(new) = Phase(task[t]) /\ Told(new) = Told(task[t])
       /\ Place(new) = Place(task[t]) /\ Avoid(new) = Avoid(task[t])
  BY <1>1, <1>9, AlikeLooks DEF Alike
<1>12. UNCHANGED Contract!vars BY <1>9, <1>11, LooksTheSame
<1> QED BY <1>10, <1>12 DEF Good

\* Response metadata arrives: the request ran.
LEMMA RespondProcesses ==
  ASSUME IInv, NEW t \in Tasks, Respond(t)
  PROVE  Good
<1>1. /\ TypeOK /\ task[t] \in TaskType /\ Stage(task[t]) /\ task[t].pc = "Exchanging"
      /\ task[t].ran = 0
  BY DEF IInv, TypeOK, Staged, Respond, Stage, TaskType
<1>2. PICK new \in TaskType :
         /\ task' = [task EXCEPT ![t] = new] /\ new.pc = "Reading"
         /\ new.lease = task[t].lease /\ new.first = task[t].first
         /\ new.ran = 1 /\ new.result = task[t].result
  <2> DEFINE new == [task[t] EXCEPT !.pc = "Reading", !.ran = 1]
  <2>1. new \in TaskType BY <1>1 DEF TaskType, Stages
  <2>2. task' = [task EXCEPT ![t] = new]
    <3>1. task' = [task EXCEPT ![t].pc = "Reading", ![t].ran = task[t].ran + 1]
      BY DEF Respond
    <3>2. task[t].ran + 1 = 1 BY <1>1
    <3> QED BY <3>1, <3>2
  <2> QED BY <1>1, <2>1, <2>2 DEF TaskType
<1>3. UNCHANGED session BY DEF Respond
<1>4. Becomes(t, new) BY <1>1, <1>2, AloneBecomes
<1>5. IInv' BY <1>1, <1>2, <1>3, <1>4, SessionsSame, Holds DEF Leasing
<1>6. /\ Phase(task[t]) = "sent" /\ Phase(new) = "ran" /\ Place(new) = None
      /\ Avoid(new) = Avoid(task[t]) /\ Told(new) = Told(task[t])
  BY <1>1, <1>2 DEF Phase, Place, Avoid, Told
<1>7. Contract!Next BY <1>4, <1>6, Processes
<1> QED BY <1>5, <1>7 DEF Good

\* A refusal retires the session that gave it.
LEMMA RefuseComesBack ==
  ASSUME IInv, NEW t \in Tasks, Refuse(t)
  PROVE  Good
<1>1. /\ TypeOK /\ task[t] \in TaskType /\ Stage(task[t]) /\ task[t].pc = "Exchanging"
      /\ task[t].ran = 0
  BY DEF IInv, TypeOK, Staged, Refuse, Stage, TaskType
<1>2. task[t].lease \in owners BY <1>1, HeldCounts DEF Stage, Leasing
<1> DEFINE same == SameNode(t)
<1>3. session' = [o \in owners |-> [session[o] EXCEPT !.retired = Retired(o, same)]]
  BY DEF Refuse
<1>4. owners' = owners BY <1>3 DEF owners
<1>5. task[t].lease \in same BY <1>2 DEF SameNode
<1>6. ASSUME NEW o \in owners
      PROVE  /\ session[o].retired => session'[o].retired
             /\ o \in same => session'[o].retired
             /\ session'[o] \in SessionType /\ session'[o].active = session[o].active
  <2>1. session[o] \in SessionType BY <1>1 DEF TypeOK
  <2>2. session'[o] = [session[o] EXCEPT !.retired = Retired(o, same)] BY <1>3
  <2>3. /\ Retired(o, same) \in BOOLEAN /\ (session[o].retired => Retired(o, same))
        /\ o \in same => Retired(o, same)
    BY <2>1 DEF Retired, SessionType
  <2> HIDE DEF same
  <2> QED BY <2>1, <2>2, <2>3 DEF SessionType
<1>7. Carried
  <2>1. session' \in [owners' -> SessionType] BY <1>3, <1>4, <1>6
  <2> QED BY <1>1, <1>4, <1>6, <2>1 DEF Carried, TypeOK
<1>8. session'[task[t].lease].retired BY <1>2, <1>5, <1>6
<1> HIDE DEF same
<1>9. PICK new \in TaskType :
         /\ Becomes(t, new) /\ new.pc \in {"Refused", "Reading"}
         /\ new.lease = task[t].lease /\ new.first = task[t].first
         /\ new.ran = 0 /\ new.result = task[t].result
  <2> DEFINE next == IF task[t].first = None THEN "Refused" ELSE "Reading"
             new == [task[t] EXCEPT !.pc = next]
  <2>1. next \in {"Refused", "Reading"} OBVIOUS
  <2>2. Notify(t, new) BY DEF Refuse
  <2> HIDE DEF next
  <2>3. new \in TaskType BY <1>1, <2>1 DEF TaskType, Stages
  <2>4. /\ new.pc = next /\ new.lease = task[t].lease /\ new.first = task[t].first
        /\ new.ran = 0 /\ new.result = task[t].result
    BY <1>1 DEF TaskType
  <2> HIDE DEF new
  <2>5. Becomes(t, new) BY <1>1, <2>2, <2>3, NotifyBecomes
  <2> QED BY <2>1, <2>3, <2>4, <2>5
<1>10. IInv' BY <1>1, <1>4, <1>6, <1>7, <1>8, <1>9, Holds DEF Leasing
<1>11. /\ Phase(task[t]) = "sent" /\ Phase(new) = "open" /\ Told(new) = Told(task[t])
  BY <1>1, <1>9 DEF Phase, Told
<1>12. /\ Place(new) = None /\ Place(task[t]) = task[t].lease
       /\ Avoid(new) \in {Avoid(task[t]), Place(task[t])}
  BY <1>1, <1>9, <1>11 DEF Place, Avoid
<1>13. Contract!Next BY <1>9, <1>11, <1>12, ComesBack
<1> QED BY <1>10, <1>13 DEF Good

\* The refused task gives its lease up and remembers it.
LEMMA TryAgainDrops ==
  ASSUME IInv, NEW t \in Tasks, TryAgain(t)
  PROVE  Good
<1>1. /\ TypeOK /\ task[t] \in TaskType /\ Stage(task[t]) /\ task[t].pc = "Refused"
      /\ task[t].ran = 0
  BY DEF IInv, TypeOK, Staged, TryAgain, Stage, TaskType
<1>2. PICK s : s = task[t].lease OBVIOUS
<1>3. /\ s # None /\ s \in owners /\ s \in Ids /\ session[s].active - 1 \in Nat
      /\ session[s].retired
  BY <1>1, <1>2, HeldCounts DEF Stage, Leasing, TypeOK
<1>4. session' = [session EXCEPT ![s].active = session[s].active - 1]
  BY <1>2 DEF TryAgain
<1>5. owners' = owners BY <1>4 DEF owners
<1>6. ASSUME NEW o \in owners
      PROVE  /\ session'[o].retired = session[o].retired /\ session'[o] \in SessionType
             /\ session'[o].active = IF o = s THEN session[o].active - 1
                                     ELSE session[o].active
  <2>1. session[o] \in SessionType BY <1>1 DEF TypeOK
  <2>2. session'[o] = IF o = s THEN [session[o] EXCEPT !.active = session[s].active - 1]
                      ELSE session[o]
    BY <1>1, <1>4 DEF TypeOK
  <2>3. CASE o = s BY <1>3, <2>1, <2>2, <2>3 DEF SessionType
  <2>4. CASE o # s BY <2>1, <2>2, <2>4
  <2> QED BY <2>3, <2>4
<1>7. Carried
  <2>1. session' \in [owners' -> SessionType] BY <1>1, <1>4, <1>5, <1>6 DEF TypeOK
  <2> QED BY <1>1, <1>5, <1>6, <2>1 DEF Carried, TypeOK
<1>8. PICK new \in TaskType :
         /\ Becomes(t, new) /\ new.pc = "Selecting" /\ new.lease = None /\ new.first = s
         /\ new.ran = 0 /\ new.result = "None"
  <2> DEFINE new == [NewTask EXCEPT !.pc = "Selecting", !.ran = task[t].ran,
                                    !.first = task[t].lease]
  <2>1. new \in TaskType BY <1>1, <1>2, <1>3, Retried
  <2>2. Becomes(t, new) BY <1>1, <2>1, NotifyBecomes DEF TryAgain
  <2>3. /\ new.pc = "Selecting" /\ new.lease = None /\ new.first = s
        /\ new.ran = 0 /\ new.result = "None"
    BY <1>1, <1>2 DEF NewTask
  <2> HIDE DEF new
  <2> QED BY <2>1, <2>2, <2>3
<1>9. Leased'
  <2>1. \A u \in Tasks \ {t} : task'[u].lease = task[u].lease BY <1>8 DEF Becomes, Alike
  <2>2. task'[t].lease = None BY <1>8 DEF Becomes
  <2> QED BY <1>2, <1>3, <1>5, <1>6, <1>7, <2>1, <2>2, LeaseDropped
<1>10. Stage(new)' BY <1>3, <1>5, <1>6, <1>8 DEF Stage, Leasing
<1>11. IInv' BY <1>7, <1>8, <1>9, <1>10, Preserved
<1>12. Phase(new) = Phase(task[t]) /\ Told(new) = Told(task[t]) /\ Phase(new) = "open"
  BY <1>1, <1>8 DEF Phase, Told, Stage
<1>13. Place(new) = Place(task[t]) /\ Avoid(new) = Avoid(task[t])
  BY <1>1, <1>2, <1>8, <1>12 DEF Place, Avoid
<1>14. UNCHANGED Contract!vars BY <1>8, <1>12, <1>13, LooksTheSame
<1> QED BY <1>11, <1>14 DEF Good

-----------------------------------------------------------------------------
(* Client::close() and the drop of the client.                             *)

\* A step that at most notifies the tasks and keeps every counter.
LEMMA AllAlike ==
  ASSUME IInv, Carried, task' \in [Tasks -> TaskType],
         \A u \in Tasks : Alike(task[u], task'[u]),
         \A o \in owners \cap owners' : session'[o].active = session[o].active
  PROVE  Good
<1>1. Leased' BY LeasesKept DEF Alike
<1>2. Staged'
  <2> SUFFICES ASSUME NEW u \in Tasks PROVE Stage(task[u])'
    BY DEF Staged
  <2>1. Alike(task[u], task'[u]) /\ Stage(task[u]) BY DEF IInv, Staged
  <2>2. task[u].lease # None => task[u].lease \in owners /\ task[u].lease \in owners'
    BY <1>1, <2>1 DEF Alike, IInv, Leased
  <2>3. task[u].pc = "Refused" => session'[task[u].lease].retired
    BY <2>1, <2>2 DEF Stage, Carried, Leasing
  <2>4. task[u].first \in owners' => session'[task[u].first].retired
    BY <2>1 DEF Stage, Carried
  <2> QED BY <2>1, <2>3, <2>4 DEF Stage, Alike
<1>3. IInv' BY <1>1, <1>2 DEF IInv, TypeOK, Carried
<1>4. UNCHANGED Contract!vars
  <2>1. \A u \in Tasks :
           /\ Phase(task'[u]) = Phase(task[u]) /\ Place(task'[u]) = Place(task[u])
           /\ Avoid(task'[u]) = Avoid(task[u]) /\ Told(task'[u]) = Told(task[u])
    BY AlikeLooks
  <2> QED BY <2>1 DEF Contract!vars
<1> QED BY <1>3, <1>4 DEF Good

\* A step that leaves the tasks alone and keeps every counter.
LEMMA TasksSame ==
  ASSUME IInv, Carried, UNCHANGED task,
         \A o \in owners \cap owners' : session'[o].active = session[o].active
  PROVE  Good
<1>1. task' \in [Tasks -> TaskType] BY DEF IInv, TypeOK
<1>2. \A u \in Tasks : Alike(task[u], task'[u]) BY DEF Alike
<1> QED BY <1>1, <1>2, AllAlike

\* Forcing a session retires it and takes no lease from it.
LEMMA ForceCarries ==
  ASSUME IInv, ForceAll
  PROVE  Carried /\ \A o \in owners \cap owners' : session'[o].active = session[o].active
<1>1. session' = [o \in owners |-> [session[o] EXCEPT !.retired = TRUE, !.forced = TRUE]]
  BY DEF ForceAll
<1>2. owners' = owners BY <1>1 DEF owners
<1>3. ASSUME NEW o \in owners
      PROVE  /\ session'[o] \in SessionType /\ session'[o].retired
             /\ session'[o].active = session[o].active
  <2>1. session[o] \in SessionType BY DEF IInv, TypeOK
  <2>2. session'[o] = [session[o] EXCEPT !.retired = TRUE, !.forced = TRUE] BY <1>1
  <2> QED BY <2>1, <2>2 DEF SessionType
<1>4. session' \in [owners' -> SessionType] BY <1>1, <1>2, <1>3
<1> QED BY <1>2, <1>3, <1>4 DEF Carried, IInv, TypeOK

\* close() empties the pool only when no session is leased, and the deadline and the drop
\* only force what is left.
LEMMA CloseSteps ==
  ASSUME IInv, Close
  PROVE  Good
<1>1. CASE CloseBegins
  <2>1. task' = [t \in Tasks |-> IF Enabled(t) THEN [task[t] EXCEPT !.woken = TRUE]
                                 ELSE task[t]]
    BY <1>1 DEF CloseBegins
  <2>2. ASSUME NEW u \in Tasks PROVE task'[u] \in TaskType /\ Alike(task[u], task'[u])
    BY <2>1 DEF IInv, TypeOK, TaskType, Alike
  <2>3. task' \in [Tasks -> TaskType] BY <2>1, <2>2
  <2>4. UNCHANGED session BY <1>1 DEF CloseBegins
  <2> QED BY <2>2, <2>3, <2>4, SessionsSame, AllAlike
<1>2. CASE CloseChecks
  <2>1. UNCHANGED task BY <1>2 DEF CloseChecks
  <2>2. CASE UNCHANGED session BY <2>1, <2>2, SessionsSame, TasksSame
  <2>3. CASE session' = <<>> /\ \A o \in owners : session[o].active = 0
    <3>1. owners' = {} BY <2>3 DEF owners
    <3>2. Carried BY <2>3, <3>1 DEF Carried, owners
    <3> QED BY <2>1, <3>1, <3>2, TasksSame
  <2> QED BY <1>2, <2>2, <2>3 DEF CloseChecks
<1>3. CASE CloseWakes \/ CloseEnds
  <2>1. UNCHANGED <<session, task>> BY <1>3 DEF CloseWakes, CloseEnds
  <2> QED BY <2>1, SessionsSame, TasksSame
<1>4. CASE CloseTimesOut \/ DropClient
  <2>1. ForceAll /\ UNCHANGED task BY <1>4 DEF CloseTimesOut, DropClient
  <2> QED BY <2>1, ForceCarries, TasksSame
<1> QED BY <1>1, <1>2, <1>3, <1>4 DEF Close

-----------------------------------------------------------------------------
(* The pool implements the contract.                                       *)

\* Nothing is leased and nothing submitted at first.
LEMMA Starts ==
  ASSUME Init
  PROVE  IInv /\ Contract!Init
<1>1. owners = {} /\ session = <<>> BY DEF Init, owners
<1>2. task = [t \in Tasks |-> NewTask] BY DEF Init
<1>3. /\ NewTask.pc = "Idle" /\ NewTask.lease = None /\ NewTask.first = None
      /\ NewTask.ran = 0 /\ NewTask.result = "None" /\ NewTask \in TaskType
  BY DEF NewTask, TaskType, Stages
<1>4. TypeOK BY <1>1, <1>2, <1>3 DEF TypeOK, owners
<1>5. Leased BY <1>1, <1>2, <1>3 DEF Leased
<1>6. Staged BY <1>1, <1>2, <1>3 DEF Staged, Stage, Leasing
<1>7. /\ Phase(NewTask) = "open" /\ Place(NewTask) = None /\ Avoid(NewTask) = None
      /\ Told(NewTask) = "nothing"
  BY <1>3 DEF Phase, Place, Avoid, Told
<1>8. Contract!Init
  <2> HIDE DEF NewTask
  <2> QED BY <1>2, <1>7 DEF Contract!Init
<1> QED BY <1>4, <1>5, <1>6, <1>8 DEF IInv

\* Every step of the pool keeps the invariant and is a step of the contract or none.
LEMMA Steps ==
  ASSUME IInv, [Next]_vars
  PROVE  Good
<1>1. CASE UNCHANGED vars
  BY <1>1, SessionsSame, TasksSame DEF vars
<1>2. CASE Close BY <1>2, CloseSteps
<1>3. ASSUME NEW t \in Tasks, Acquire(t) PROVE Good
  <2>1. CASE Begin(t) \/ Wake(t) BY <2>1, WaitSteps
  <2>2. CASE SelectClosed(t) \/ OpeningFails(t) \/ GiveUpWaiting(t) BY <2>2, GiveUpSteps
  <2>3. ASSUME NEW expired \in SUBSET owners, SelectReady(t, expired) PROVE Good
    BY <2>3, SelectReadyTakes
  <2>4. ASSUME NEW expired \in SUBSET owners,
               SelectOpening(t, expired) \/ SelectWait(t, expired)
        PROVE  Good
    BY <2>4, SelectWaits
  <2>5. CASE Connected(t) BY <2>5, ConnectedWaits
  <2>6. CASE OpeningDone(t) BY <2>6, OpeningDoneWaits
  <2>7. CASE Prepared(t) BY <2>7, PreparedSubmits
  <2>8. CASE PrepareFails(t) BY <2>8, EndSteps
  <2> QED BY <1>3, <2>1, <2>2, <2>3, <2>4, <2>5, <2>6, <2>7, <2>8 DEF Acquire
<1>4. ASSUME NEW t \in Tasks, Exchange(t) PROVE Good
  <2>1. CASE Acknowledge(t) BY <2>1, AcknowledgeHolds
  <2>2. CASE Respond(t) BY <2>2, RespondProcesses
  <2>3. CASE Refuse(t) BY <2>3, RefuseComesBack
  <2>4. CASE TryAgain(t) BY <2>4, TryAgainDrops
  <2>5. CASE ExchangeFails(t) \/ BodyEnds(t) \/ Cancel(t) BY <2>5, EndSteps
  <2> QED BY <1>4, <2>1, <2>2, <2>3, <2>4, <2>5 DEF Exchange
<1> QED BY <1>1, <1>2, <1>3, <1>4 DEF Next

\* However sends, refusals, failures, cancellations and close() interleave, a request runs
\* at most once, is submitted again only through another session than the one that refused
\* it, and the caller is told the truth about it (Client::send, exchange()).
THEOREM Implements == Spec => Delivers
<1>1. Init => IInv /\ Contract!Init BY Starts
<1>2. IInv /\ [Next]_vars => IInv' /\ [Contract!Next]_(Contract!vars) BY Steps DEF Good
<1> QED BY <1>1, <1>2, PTL DEF Spec, Delivers, Contract!Spec

-----------------------------------------------------------------------------
(* close() leaves nothing behind.                                          *)

CloserType ==
  [pc : {"Idle", "Checking", "Parked", "Deleting", "Closed", "TimedOut", "Dropped"},
   woken : BOOLEAN, calls : Nat]

\* close() works on a closed pool, and empties it before it deletes the sessions.
Quiet ==
  /\ closer \in CloserType
  /\ closer.pc \in Running \cup {"Closed"} => closed
  /\ closer.pc \in {"Deleting", "Closed"} => owners = {} /\ ~opening

\* What a task's step does to the closer and, once the pool is closed, to the pool.
Hushed ==
  /\ closer' \in {closer, [closer EXCEPT !.woken = TRUE]} /\ UNCHANGED closed
  /\ closed => owners' \subseteq owners /\ (opening' => opening)

\* A hushed step keeps Quiet.
LEMMA HushedKeeps == ASSUME Quiet, Hushed PROVE Quiet'
<1>1. closer'.pc = closer.pc /\ closer' \in CloserType
  <2>1. closer \in CloserType BY DEF Quiet
  <2>2. CASE closer' = closer BY <2>1, <2>2
  <2>3. CASE closer' = [closer EXCEPT !.woken = TRUE]
    <3> DEFINE new == [closer EXCEPT !.woken = TRUE]
    <3>1. new \in CloserType BY <2>1 DEF CloserType
    <3>2. new.pc = closer.pc BY <2>1 DEF CloserType
    <3> QED BY <2>3, <3>1, <3>2
  <2> QED BY <2>2, <2>3 DEF Hushed
<1> QED BY <1>1 DEF Quiet, Hushed, Running

\* No task brings a session or a setup into a closed pool.
LEMMA TasksHushed ==
  ASSUME NEW t \in Tasks, Acquire(t) \/ Exchange(t)
  PROVE  Hushed
<1>1. ASSUME NEW new, Notify(t, new) PROVE closer' \in {closer, [closer EXCEPT !.woken = TRUE]}
  BY <1>1 DEF Notify
<1>2. ASSUME NEW set, NEW result, NEW ran, End(t, set, result, ran)
      PROVE  closer' \in {closer, [closer EXCEPT !.woken = TRUE]} /\ owners' = owners
  <2> DEFINE Left(w) ==
        [o \in owners |-> [session[o] EXCEPT !.retired = Retired(o, set),
                            !.active = IF o = task[t].lease THEN @ - 1 ELSE @,
                            !.window = IF o = task[t].lease THEN w ELSE @]]
             new == [NewTask EXCEPT !.pc = "Done", !.ran = ran, !.result = result]
  <2>1. \A w : DOMAIN Left(w) = owners OBVIOUS
  <2> HIDE DEF Left, new
  <2>2. \E w \in WindowsAfter(task[t].lease, t) : session' = Left(w)
    BY <1>2 DEF End, Left
  <2>3. Notify(t, new) BY <1>2 DEF End, new
  <2> QED BY <1>1, <2>1, <2>2, <2>3 DEF owners
<1>3. CASE Begin(t) \/ Wake(t) \/ SelectClosed(t) \/ GiveUpWaiting(t) \/ Respond(t)
  BY <1>3 DEF Begin, Wake, SelectClosed, GiveUpWaiting, Respond, Hushed, owners
<1>4. ASSUME NEW expired \in SUBSET owners,
             SelectReady(t, expired) \/ SelectOpening(t, expired) \/ SelectWait(t, expired)
      PROVE  Hushed
  <2>1. ~closed /\ UNCHANGED closed /\ UNCHANGED closer
    <3>1. CASE SelectReady(t, expired) BY <3>1, Zenon DEF SelectReady
    <3>2. CASE SelectOpening(t, expired)
      BY <3>2, Zenon DEF SelectOpening, NoneReady
    <3>3. CASE SelectWait(t, expired) BY <3>3, Zenon DEF SelectWait, NoneReady
    <3> QED BY <1>4, <3>1, <3>2, <3>3
  <2> QED BY <2>1 DEF Hushed
<1>5. CASE Connected(t) BY <1>5 DEF Connected, Hushed
<1>6. CASE OpeningDone(t) BY <1>1, <1>6 DEF OpeningDone, Hushed, owners
<1>7. CASE OpeningFails(t) BY <1>1, <1>7 DEF OpeningFails, Hushed, owners
<1>8. CASE Prepared(t)
  <2>1. CASE closed BY <1>2, <1>8, <2>1 DEF Prepared, Hushed
  <2>2. CASE ~closed BY <1>8, <2>2 DEF Prepared, Hushed
  <2> QED BY <2>1, <2>2
<1>9. CASE PrepareFails(t) BY <1>2, <1>9 DEF PrepareFails, Hushed
<1>10. CASE Acknowledge(t) BY <1>1, <1>10 DEF Acknowledge, Hushed, owners
<1>11. CASE Refuse(t) BY <1>1, <1>11 DEF Refuse, Hushed, owners
<1>12. CASE TryAgain(t) BY <1>1, <1>12 DEF TryAgain, Hushed, owners
<1>13. CASE ExchangeFails(t) BY <1>2, <1>13 DEF ExchangeFails, Hushed
<1>14. CASE BodyEnds(t) BY <1>2, <1>14 DEF BodyEnds, Hushed
<1>15. CASE Cancel(t) BY <1>2, <1>15 DEF Cancel, Hushed
<1> QED BY <1>3, <1>4, <1>5, <1>6, <1>7, <1>8, <1>9, <1>10, <1>11, <1>12, <1>13, <1>14,
           <1>15 DEF Acquire, Exchange

\* Every step keeps Quiet.
LEMMA QuietSteps == ASSUME Quiet, [Next]_vars PROVE Quiet'
<1>1. CASE UNCHANGED vars BY <1>1 DEF vars, Quiet, owners
<1>2. ASSUME NEW t \in Tasks, Acquire(t) \/ Exchange(t) PROVE Quiet'
  BY <1>2, TasksHushed, HushedKeeps
<1>3. CASE CloseBegins BY <1>3, PoolAssumption DEF CloseBegins, Quiet, CloserType, Running
<1>4. CASE CloseChecks
  <2>1. CASE ~opening /\ \A o \in owners : session[o].active = 0
    BY <1>4, <2>1 DEF CloseChecks, Quiet, CloserType, Running, owners
  <2>2. CASE ~(~opening /\ \A o \in owners : session[o].active = 0)
    BY <1>4, <2>2 DEF CloseChecks, Quiet, CloserType, Running
  <2> QED BY <2>1, <2>2
<1>5. ASSUME NEW pc \in {"Checking", "Closed", "TimedOut", "Dropped"},
             closer' = [closer EXCEPT !.pc = pc, !.woken = FALSE]
      PROVE  closer' \in CloserType /\ closer'.pc = pc
  <2> DEFINE new == [closer EXCEPT !.pc = pc, !.woken = FALSE]
  <2>1. closer \in CloserType BY DEF Quiet
  <2>2. new \in CloserType BY <2>1 DEF CloserType
  <2>3. new.pc = pc BY <2>1 DEF CloserType
  <2> QED BY <1>5, <2>2, <2>3
<1>6. CASE CloseWakes BY <1>5, <1>6 DEF CloseWakes, Quiet, Running
<1>7. CASE CloseEnds BY <1>5, <1>7 DEF CloseEnds, Quiet, Running, owners
<1>8. CASE CloseTimesOut BY <1>5, <1>8 DEF CloseTimesOut, Quiet, Running
<1>9. CASE DropClient BY <1>5, <1>9 DEF DropClient, Quiet, Running
<1> QED BY <1>1, <1>2, <1>3, <1>4, <1>6, <1>7, <1>8, <1>9 DEF Next, Close

\* When close() has returned, the pool holds no session, no setup runs and no send has a
\* lease, for every number of sends: setups that were under way and leases that were out
\* are waited for, and no task opens or leases anything in a closed pool.
THEOREM ClosePoolQuiet == Spec => []ClosedIsQuiet
<1>1. Init => Quiet BY DEF Init, Quiet, CloserType, Running
<1>2. Quiet /\ [Next]_vars => Quiet' BY QuietSteps
<1>3. Init => IInv BY Starts
<1>4. IInv /\ [Next]_vars => IInv' BY Steps DEF Good
<1>5. IInv /\ Quiet => ClosedIsQuiet BY DEF IInv, Leased, Quiet, ClosedIsQuiet
<1> QED BY <1>1, <1>2, <1>3, <1>4, <1>5, PTL DEF Spec

-----------------------------------------------------------------------------
(* The size of the pool.                                                   *)

Serving == {o \in owners : ~session[o].retired}
Opens(t) == task[t].pc \in {"Opening", "Pushed"}

\* A setup runs only while there is room for the session it brings.
Room ==
  /\ IsFiniteSet(owners)
  /\ Cardinality(Serving) <= Maximum /\ Cardinality(owners) <= Maximum + 1
  /\ opening <=> \E t \in Tasks : Opens(t)
  /\ \A t, u \in Tasks : Opens(t) /\ Opens(u) => t = u
  /\ \A t \in Tasks : task[t].pc = "Opening" =>
       Cardinality(Serving) < Maximum /\ Cardinality(owners) <= Maximum

\* No session joins the pool or serves again.
Narrows == owners' \subseteq owners /\ Serving' \subseteq Serving
\* No setup begins or ends.
Steady ==
  /\ opening' = opening
  /\ \A t \in Tasks : /\ task'[t].pc = "Opening" <=> task[t].pc = "Opening"
                      /\ Opens(t)' <=> Opens(t)

\* Fewer sessions are no more.
LEMMA Fewer ==
  ASSUME IsFiniteSet(owners), Narrows
  PROVE  /\ IsFiniteSet(owners')
         /\ Cardinality(owners') \in Nat /\ Cardinality(owners) \in Nat
         /\ Cardinality(owners') <= Cardinality(owners)
         /\ Cardinality(Serving') \in Nat /\ Cardinality(Serving) \in Nat
         /\ Cardinality(Serving') <= Cardinality(Serving)
<1> DEFINE A == owners  B == owners'  C == Serving  D == Serving'
<1>1. IsFiniteSet(A) /\ B \subseteq A /\ C \subseteq A /\ D \subseteq C
  BY DEF Narrows, Serving
<1> HIDE DEF A, B, C, D
<1>2. IsFiniteSet(B) /\ Cardinality(B) <= Cardinality(A) BY <1>1, FS_Subset
<1>3. IsFiniteSet(C) BY <1>1, FS_Subset
<1>4. IsFiniteSet(D) /\ Cardinality(D) <= Cardinality(C) BY <1>1, <1>3, FS_Subset
<1>5. /\ Cardinality(A) \in Nat /\ Cardinality(B) \in Nat
      /\ Cardinality(C) \in Nat /\ Cardinality(D) \in Nat
  BY <1>1, <1>2, <1>3, <1>4, FS_CardinalityType
<1> QED BY <1>2, <1>4, <1>5 DEF A, B, C, D

LEMMA RoomKept == ASSUME Room, Narrows, Steady PROVE Room'
<1>1. /\ IsFiniteSet(owners')
      /\ Cardinality(owners') \in Nat /\ Cardinality(owners) \in Nat
      /\ Cardinality(owners') <= Cardinality(owners)
      /\ Cardinality(Serving') \in Nat /\ Cardinality(Serving) \in Nat
      /\ Cardinality(Serving') <= Cardinality(Serving)
  BY Fewer DEF Room
<1>2. Cardinality(Serving') <= Maximum /\ Cardinality(owners') <= Maximum + 1
  BY <1>1, PoolAssumption DEF Room
<1>3. \A t \in Tasks : task'[t].pc = "Opening" =>
        Cardinality(Serving') < Maximum /\ Cardinality(owners') <= Maximum
  BY <1>1, PoolAssumption DEF Room, Steady
<1>4. /\ opening' <=> \E t \in Tasks : Opens(t)'
      /\ \A t, u \in Tasks : Opens(t)' /\ Opens(u)' => t = u
  BY DEF Room, Steady
<1> QED BY <1>1, <1>2, <1>3, <1>4 DEF Room

\* The setup of t ends; the pool stays as it is.
LEMMA RoomEnds ==
  ASSUME Room, UNCHANGED session, opening' = FALSE, NEW t \in Tasks, Opens(t), ~Opens(t)',
         \A u \in Tasks \ {t} : task'[u].pc = task[u].pc
  PROVE  Room'
<1>1. \A u \in Tasks : ~Opens(u)' /\ task'[u].pc # "Opening" BY DEF Room, Opens
<1>2. owners' = owners /\ Serving' = Serving BY DEF owners, Serving
<1> QED BY <1>1, <1>2 DEF Room

\* The tasks but t are at most notified.
Others(t) == \A u \in Tasks \ {t} : task'[u].pc = task[u].pc
LEMMA NotifyOthers ==
  ASSUME TypeOK, NEW t \in Tasks, NEW new, Notify(t, new) PROVE Others(t) /\ task'[t] = new
<1>1. task' = [u \in Tasks |-> IF u = t THEN new
                               ELSE IF Enabled(u) THEN [task[u] EXCEPT !.woken = TRUE]
                               ELSE task[u]]
  BY DEF Notify
<1>2. ASSUME NEW u \in Tasks \ {t} PROVE task'[u].pc = task[u].pc
  BY <1>1 DEF TypeOK, TaskType
<1> QED BY <1>1, <1>2 DEF Others

\* t neither begins nor ends a setup.
LEMMA SteadyBy ==
  ASSUME NEW t \in Tasks, Others(t), UNCHANGED opening, ~Opens(t), ~Opens(t)' PROVE Steady
BY DEF Steady, Others, Opens

LEMMA NarrowsBy ==
  ASSUME owners' \subseteq owners,
         \A o \in owners' : session[o].retired => session'[o].retired
  PROVE  Narrows
BY DEF Narrows, Serving

\* A send that ends leaves the pool no larger.
LEMMA EndRoom ==
  ASSUME IInv, Room, NEW t \in Tasks, NEW set, NEW result, NEW ran, End(t, set, result, ran),
         UNCHANGED opening, task[t].pc \in Leasing
  PROVE  Room'
<1> DEFINE s == task[t].lease
           new == [NewTask EXCEPT !.pc = "Done", !.ran = ran, !.result = result]
           Left(w) ==
             [o \in owners |-> [session[o] EXCEPT !.retired = Retired(o, set),
                                 !.active = IF o = s THEN @ - 1 ELSE @,
                                 !.window = IF o = s THEN w ELSE @]]
<1>1. session \in [owners -> SessionType] /\ TypeOK BY DEF IInv, TypeOK
<1>2. \A w : /\ DOMAIN Left(w) = owners
             /\ \A o \in owners : session[o].retired => Left(w)[o].retired
  BY <1>1 DEF SessionType, Retired
<1>3. new.pc = "Done" BY DEF NewTask
<1> HIDE DEF Left, new
<1>4. \E w \in WindowsAfter(s, t) : session' = Left(w) BY DEF End, Left
<1>5. Notify(t, new) BY DEF End, new
<1>6. Narrows BY <1>2, <1>4, NarrowsBy DEF owners
<1>7. Others(t) /\ task'[t].pc = "Done" BY <1>1, <1>3, <1>5, NotifyOthers
<1>8. Steady BY <1>7, SteadyBy DEF Opens, Leasing
<1> QED BY <1>6, <1>8, RoomKept

\* Steps of one send that touch no session.
LEMMA AloneRoom ==
  ASSUME IInv, Room, NEW t \in Tasks,
         Begin(t) \/ Wake(t) \/ SelectClosed(t) \/ GiveUpWaiting(t) \/ Respond(t)
  PROVE  Room'
<1>1. task \in [Tasks -> TaskType] BY DEF IInv, TypeOK
<1>2. \A result : Ended(t, result).pc = "Done" BY DEF Ended, NewTask
<1>3. Others(t) /\ UNCHANGED <<opening, session>>
  BY <1>1 DEF Begin, Wake, SelectClosed, GiveUpWaiting, Respond, Others, TaskType
<1>4. task[t].pc \in {"Idle", "Parked", "Selecting", "Exchanging"}
  BY DEF Begin, Wake, SelectClosed, GiveUpWaiting, Respond
<1>5. task'[t].pc \in {"Selecting", "Done", "Reading"}
  <2>1. task[t] \in TaskType BY <1>1
  <2>2. CASE Begin(t) BY <1>1, <2>1, <2>2 DEF Begin, TaskType
  <2>3. CASE Wake(t) BY <1>1, <2>1, <2>3 DEF Wake, TaskType
  <2>4. CASE SelectClosed(t) BY <1>1, <1>2, <2>4 DEF SelectClosed
  <2>5. CASE GiveUpWaiting(t) BY <1>1, <1>2, <2>5 DEF GiveUpWaiting
  <2>6. CASE Respond(t) BY <1>1, <2>1, <2>6 DEF Respond, TaskType
  <2> QED BY <2>2, <2>3, <2>4, <2>5, <2>6
<1>6. Steady BY <1>3, <1>4, <1>5, SteadyBy DEF Opens
<1>7. Narrows BY <1>3 DEF Narrows, Serving, owners
<1> QED BY <1>6, <1>7, RoomKept

\* select() makes no session serve again.
LEMMA SelectNarrows ==
  ASSUME IInv, NEW expired, NEW more, owners' = Kept(expired),
         \A o \in Kept(expired) : session'[o].retired = Retired(o, more)
  PROVE  Narrows
<1>1. Kept(expired) \subseteq owners BY DEF Kept
<1> QED BY <1>1, NarrowsBy DEF Retired

LEMMA NoneReadyNarrows ==
  ASSUME IInv, NEW t \in Tasks, NEW expired, NoneReady(t, expired)
  PROVE  /\ Narrows /\ owners' = Kept(expired)
         /\ Serving' = Answering(expired, "Pending")
<1> DEFINE more == expired \cup Answering(expired, "Limit")
<1>1. session' = [o \in Kept(expired) |-> [session[o] EXCEPT !.retired = Retired(o, more)]]
  BY DEF NoneReady
<1>2. owners' = Kept(expired) BY <1>1 DEF owners
<1>3. ASSUME NEW o \in Kept(expired)
      PROVE  session'[o].retired = Retired(o, more) /\ session[o].window \in Windows
  <2>1. session[o] \in SessionType BY DEF Kept, IInv, TypeOK
  <2> QED BY <1>1, <2>1 DEF SessionType
<1>4. Narrows BY <1>2, <1>3, SelectNarrows
<1>5. Serving' = {o \in Kept(expired) : ~Retired(o, more)} BY <1>2, <1>3 DEF Serving
<1>6. Answering(expired, "Ok") = {} BY DEF NoneReady
<1>7. ASSUME NEW o \in Kept(expired)
      PROVE  ~Retired(o, more) <=> o \in Answering(expired, "Pending")
  BY <1>3, <1>6, <1>7 DEF Answering, Live, Retired, Windows
<1>8. Answering(expired, "Pending") \subseteq Kept(expired) BY DEF Answering, Live
<1> QED BY <1>2, <1>4, <1>5, <1>7, <1>8

\* A setup begins only when serving and draining sessions leave room for one more.
LEMMA SelectOpeningRoom ==
  ASSUME IInv, Room, NEW t \in Tasks, NEW expired, SelectOpening(t, expired) PROVE Room'
<1>1. /\ NoneReady(t, expired) /\ MayOpen(expired) /\ opening' = TRUE
      /\ task' = [task EXCEPT ![t].pc = "Opening", ![t].woken = FALSE]
  BY DEF SelectOpening
<1>2. Narrows /\ owners' = Kept(expired) /\ Serving' = Answering(expired, "Pending")
  BY <1>1, NoneReadyNarrows
<1>3. /\ ~opening /\ Cardinality(Serving') < Maximum /\ Cardinality(owners') <= Maximum
  BY <1>1, <1>2 DEF MayOpen
<1>4. /\ IsFiniteSet(owners') /\ Cardinality(owners') \in Nat /\ Cardinality(Serving') \in Nat
  BY <1>2, Fewer DEF Room
<1>5. /\ task'[t].pc = "Opening" /\ \A u \in Tasks \ {t} : task'[u].pc = task[u].pc
  BY <1>1 DEF IInv, TypeOK, TaskType
<1>6. \A u \in Tasks : ~Opens(u) BY <1>3 DEF Room
<1>7. \A u \in Tasks : Opens(u)' <=> u = t BY <1>5, <1>6 DEF Opens
<1>8. Cardinality(Serving') <= Maximum /\ Cardinality(owners') <= Maximum + 1
  BY <1>3, <1>4, PoolAssumption
<1> QED BY <1>1, <1>3, <1>4, <1>7, <1>8 DEF Room

LEMMA SelectWaitRoom ==
  ASSUME IInv, Room, NEW t \in Tasks, NEW expired, SelectWait(t, expired) PROVE Room'
<1>1. /\ NoneReady(t, expired) /\ UNCHANGED opening /\ task[t].pc = "Selecting"
      /\ task' = [task EXCEPT ![t].pc = "Parked"]
  BY DEF SelectWait, NoneReady
<1>2. Narrows BY <1>1, NoneReadyNarrows
<1>3. task'[t].pc = "Parked" /\ Others(t) BY <1>1 DEF IInv, TypeOK, TaskType, Others
<1>4. Steady BY <1>1, <1>3, SteadyBy DEF Opens
<1> QED BY <1>2, <1>4, RoomKept

LEMMA SelectReadyRoom ==
  ASSUME IInv, Room, NEW t \in Tasks, NEW expired, SelectReady(t, expired) PROVE Room'
<1> DEFINE Opened(s, more, w) ==
      [o \in Kept(expired) |-> [session[o] EXCEPT !.retired = Retired(o, more),
                                 !.active = IF o = s THEN @ + 1 ELSE @,
                                 !.window = IF o = s THEN w ELSE @]]
<1>1. \A s, more, w : /\ DOMAIN Opened(s, more, w) = Kept(expired)
                      /\ \A o \in Kept(expired) :
                           Opened(s, more, w)[o].retired = Retired(o, more)
  <2>1. \A o \in Kept(expired) : session[o] \in SessionType BY DEF Kept, IInv, TypeOK
  <2> QED BY <2>1 DEF SessionType
<1> HIDE DEF Opened
<1>2. PICK s \in Answering(expired, "Ok") :
        /\ \E passed \in SUBSET Answering(expired, "Limit"),
              w \in {"Ok", "Pending", "Limit"} :
             /\ \A o \in Answering(expired, "Limit") :
                  /\ session[o].active < session[s].active => o \in passed
                  /\ o \in passed => session[o].active <= session[s].active
             /\ session' = Opened(s, expired \cup passed, w)
        /\ task' = [task EXCEPT ![t].pc = "Preparing", ![t].lease = s, ![t].woken = FALSE]
  BY DEF SelectReady, Opened
<1>3. PICK more : \E w : session' = Opened(s, more, w) BY <1>2
<1>4. owners' = Kept(expired) /\ \A o \in Kept(expired) : session'[o].retired = Retired(o, more)
  BY <1>1, <1>3 DEF owners
<1>5. Narrows BY <1>4, SelectNarrows
<1>6. task[t].pc = "Selecting" /\ UNCHANGED opening BY DEF SelectReady
<1>7. task'[t].pc = "Preparing" /\ Others(t) BY <1>2 DEF IInv, TypeOK, TaskType, Others
<1>8. Steady BY <1>6, <1>7, SteadyBy DEF Opens
<1> QED BY <1>5, <1>8, RoomKept

\* The session a setup brings finds the room that was kept for it.
LEMMA ConnectedRoom ==
  ASSUME IInv, Room, NEW t \in Tasks, Connected(t) PROVE Room'
<1>1. PICK s \in Ids \ owners :
        \E node \in Nodes :
          session' = [o \in owners \cup {s} |-> IF o = s THEN NewSession(node) ELSE session[o]]
  <2> DEFINE s == CHOOSE i \in Ids \ owners : \A u \in Tasks : task[u].first # i
  <2>1. \E i \in Ids \ owners : \A u \in Tasks : task[u].first # i BY DEF Connected
  <2>2. s \in Ids \ owners BY <2>1
  <2>3. \E node \in Nodes : session' = [o \in owners \cup {s} |->
           IF o = s THEN NewSession(node) ELSE session[o]]
    BY DEF Connected
  <2> HIDE DEF s
  <2> QED BY <2>2, <2>3
<1>2. /\ task[t].pc = "Opening" /\ UNCHANGED opening
      /\ task' = [task EXCEPT ![t].pc = "Pushed"]
  BY DEF Connected
<1>3. task'[t].pc = "Pushed" /\ \A u \in Tasks \ {t} : task'[u].pc = task[u].pc
  BY <1>2 DEF IInv, TypeOK, TaskType
<1>4. \A u \in Tasks : (Opens(u)' <=> Opens(u)) /\ task'[u].pc # "Opening"
  BY <1>2, <1>3 DEF Opens, Room
<1>5. owners' = owners \cup {s} /\ s \notin owners BY <1>1 DEF owners
<1>6. Serving' \subseteq Serving \cup {s} BY <1>1, <1>5 DEF Serving
<1>7. Cardinality(Serving) < Maximum /\ Cardinality(owners) <= Maximum BY <1>2 DEF Room
<1>8. /\ IsFiniteSet(owners') /\ Cardinality(owners') <= Maximum + 1
      /\ Cardinality(Serving') <= Maximum
  <2> DEFINE A == owners  B == owners'  C == Serving  D == Serving'
  <2>1. /\ IsFiniteSet(A) /\ C \subseteq A /\ B = A \cup {s} /\ D \subseteq C \cup {s}
        /\ s \notin A /\ s \notin C /\ Cardinality(C) < Maximum /\ Cardinality(A) <= Maximum
    BY <1>5, <1>6, <1>7 DEF Serving, Room
  <2> HIDE DEF A, B, C, D
  <2>2. IsFiniteSet(B) /\ Cardinality(B) = Cardinality(A) + 1 BY <2>1, FS_AddElement
  <2>3. IsFiniteSet(C) BY <2>1, FS_Subset
  <2>4. IsFiniteSet(C \cup {s}) /\ Cardinality(C \cup {s}) = Cardinality(C) + 1
    BY <2>1, <2>3, FS_AddElement
  <2>5. IsFiniteSet(D) /\ Cardinality(D) <= Cardinality(C \cup {s}) BY <2>1, <2>4, FS_Subset
  <2>6. Cardinality(A) \in Nat /\ Cardinality(C) \in Nat /\ Cardinality(D) \in Nat
    BY <2>1, <2>3, <2>5, FS_CardinalityType
  <2>7. Cardinality(B) <= Maximum + 1 /\ Cardinality(D) <= Maximum
    BY <2>1, <2>2, <2>4, <2>5, <2>6, PoolAssumption
  <2> QED BY <2>2, <2>7 DEF B, D
<1> QED BY <1>2, <1>4, <1>8 DEF Room

LEMMA OpeningRoom ==
  ASSUME IInv, Room, NEW t \in Tasks, OpeningDone(t) \/ OpeningFails(t) PROVE Room'
<1>1. TypeOK /\ task[t] \in TaskType BY DEF IInv, TypeOK
<1>2. \A result : Ended(t, result).pc = "Done" BY DEF Ended, NewTask
<1>3. [task[t] EXCEPT !.pc = "Selecting"].pc = "Selecting" BY <1>1 DEF TaskType
<1>4. opening' = FALSE /\ UNCHANGED session /\ Opens(t) BY DEF OpeningDone, OpeningFails, Opens
<1>5. PICK new : Notify(t, new) /\ new.pc \in {"Done", "Selecting"}
  BY <1>2, <1>3 DEF OpeningDone, OpeningFails
<1>6. Others(t) /\ task'[t] = new BY <1>1, <1>5, NotifyOthers
<1> QED BY <1>4, <1>5, <1>6, RoomEnds DEF Opens, Others

\* The exchange: sessions only retire, and nobody opens one.
LEMMA ExchangeRoom ==
  ASSUME IInv, Room, NEW t \in Tasks, Exchange(t) \/ Prepared(t) \/ PrepareFails(t) PROVE Room'
<1>1. TypeOK /\ task[t] \in TaskType /\ session \in [owners -> SessionType]
  BY DEF IInv, TypeOK
<1>2. CASE Respond(t) BY <1>2, AloneRoom
<1>3. CASE Prepared(t)
  <2>1. CASE closed BY <1>3, <2>1, EndRoom DEF Prepared, Leasing
  <2>2. CASE ~closed
    <3>1. /\ task' = [task EXCEPT ![t].pc = "Exchanging"] /\ UNCHANGED <<session, opening>>
          /\ task[t].pc = "Preparing"
      BY <1>3, <2>2 DEF Prepared
    <3>2. task'[t].pc = "Exchanging" /\ Others(t) BY <1>1, <3>1 DEF TypeOK, TaskType, Others
    <3>3. Steady BY <3>1, <3>2, SteadyBy DEF Opens
    <3>4. Narrows BY <3>1 DEF Narrows, Serving, owners
    <3> QED BY <3>3, <3>4, RoomKept
  <2> QED BY <2>1, <2>2
<1>4. CASE PrepareFails(t) BY <1>4, EndRoom DEF PrepareFails, Leasing
<1>5. ASSUME NEW new, Notify(t, new), new.pc \notin {"Opening", "Pushed"}, UNCHANGED opening,
             task[t].pc \in Leasing, owners' = owners,
             \A o \in owners : session[o].retired => session'[o].retired
      PROVE  Room'
  <2>1. Others(t) /\ task'[t] = new BY <1>1, <1>5, NotifyOthers
  <2>2. Steady BY <1>5, <2>1, SteadyBy DEF Opens, Leasing
  <2>3. Narrows BY <1>5, NarrowsBy
  <2> QED BY <2>2, <2>3, RoomKept
<1>6. CASE Acknowledge(t)
  <2> DEFINE new == [task[t] EXCEPT !.acked = TRUE]
  <2>1. new.pc = task[t].pc /\ task[t].pc = "Exchanging" /\ Notify(t, new) /\ UNCHANGED opening
    BY <1>1, <1>6 DEF Acknowledge, TaskType
  <2>2. owners' = owners /\ \A o \in owners : session[o].retired => session'[o].retired
    <3>1. PICK w : session' = [session EXCEPT ![task[t].lease].window = w]
      BY <1>6 DEF Acknowledge
    <3> QED BY <1>1, <3>1 DEF owners, SessionType
  <2> HIDE DEF new
  <2> QED BY <1>5, <2>1, <2>2 DEF Leasing
<1>7. CASE Refuse(t)
  <2> DEFINE new == [task[t] EXCEPT !.pc = IF task[t].first = None THEN "Refused" ELSE "Reading"]
  <2>1. /\ new.pc \in {"Refused", "Reading"} /\ task[t].pc = "Exchanging" /\ Notify(t, new)
        /\ UNCHANGED opening
    BY <1>1, <1>7 DEF Refuse, TaskType
  <2>2. owners' = owners /\ \A o \in owners : session[o].retired => session'[o].retired
    BY <1>1, <1>7 DEF Refuse, owners, SessionType, Retired
  <2> HIDE DEF new
  <2> QED BY <1>5, <2>1, <2>2 DEF Leasing
<1>8. CASE TryAgain(t)
  <2> DEFINE new == [NewTask EXCEPT !.pc = "Selecting", !.ran = task[t].ran,
                                    !.first = task[t].lease]
  <2>1. /\ new.pc = "Selecting" /\ task[t].pc = "Refused" /\ Notify(t, new) /\ UNCHANGED opening
    BY <1>8 DEF TryAgain, NewTask
  <2>2. owners' = owners /\ \A o \in owners : session[o].retired => session'[o].retired
    BY <1>1, <1>8 DEF TryAgain, owners, SessionType
  <2> HIDE DEF new
  <2> QED BY <1>5, <2>1, <2>2 DEF Leasing
<1>9. CASE ExchangeFails(t) BY <1>9, EndRoom DEF ExchangeFails, Leasing
<1>10. CASE BodyEnds(t) BY <1>10, EndRoom DEF BodyEnds, Leasing
<1>11. CASE Cancel(t) BY <1>11, EndRoom DEF Cancel, Leasing
<1> QED BY <1>2, <1>3, <1>4, <1>6, <1>7, <1>8, <1>9, <1>10, <1>11 DEF Exchange

\* close() opens nothing, and takes sessions out or retires them.
LEMMA CloseRoom == ASSUME IInv, Room, Close PROVE Room'
<1>1. task \in [Tasks -> TaskType] /\ session \in [owners -> SessionType] BY DEF IInv, TypeOK
<1>2. CASE CloseBegins
  <2>1. ASSUME NEW u \in Tasks PROVE task'[u].pc = task[u].pc
    BY <1>1, <1>2 DEF CloseBegins, TaskType
  <2>2. Steady BY <1>2, <2>1 DEF CloseBegins, Steady, Opens
  <2>3. Narrows BY <1>2 DEF CloseBegins, Narrows, Serving, owners
  <2> QED BY <2>2, <2>3, RoomKept
<1>3. CASE CloseChecks
  <2>1. Steady BY <1>3 DEF CloseChecks, Steady, Opens
  <2>2. session' = <<>> \/ UNCHANGED session BY <1>3 DEF CloseChecks
  <2>3. Narrows BY <2>2 DEF Narrows, Serving, owners
  <2> QED BY <2>1, <2>3, RoomKept
<1>4. CASE CloseWakes \/ CloseEnds
  <2>1. Steady BY <1>4 DEF CloseWakes, CloseEnds, Steady, Opens
  <2>2. Narrows BY <1>4 DEF CloseWakes, CloseEnds, Narrows, Serving, owners
  <2> QED BY <2>1, <2>2, RoomKept
<1>5. CASE CloseTimesOut \/ DropClient
  <2>1. Steady BY <1>5 DEF CloseTimesOut, DropClient, Steady, Opens
  <2>2. session' = [o \in owners |-> [session[o] EXCEPT !.retired = TRUE, !.forced = TRUE]]
    BY <1>5 DEF CloseTimesOut, DropClient, ForceAll
  <2>3. owners' = owners /\ \A o \in owners : session[o].retired => session'[o].retired
    BY <1>1, <2>2 DEF owners, SessionType
  <2>4. Narrows BY <2>3, NarrowsBy
  <2> QED BY <2>1, <2>4, RoomKept
<1> QED BY <1>2, <1>3, <1>4, <1>5 DEF Close

LEMMA RoomSteps == ASSUME IInv, Room, [Next]_vars PROVE Room'
<1>1. CASE UNCHANGED vars
  <2>1. Steady /\ Narrows BY <1>1 DEF vars, Steady, Narrows, Opens, Serving, owners
  <2> QED BY <2>1, RoomKept
<1>2. ASSUME NEW t \in Tasks, Acquire(t) PROVE Room'
  BY <1>2, AloneRoom, SelectReadyRoom, SelectOpeningRoom, SelectWaitRoom, ConnectedRoom,
     OpeningRoom, ExchangeRoom DEF Acquire
<1>3. ASSUME NEW t \in Tasks, Exchange(t) PROVE Room' BY <1>3, ExchangeRoom
<1> QED BY <1>1, <1>2, <1>3, CloseRoom DEF Next

\* For any number of sends and any Maximum: at most Maximum sessions serve and one more
\* drains, setups run one at a time, and the active counter of a session is the number of
\* its leases, however selection, failures, cancellation and close() interleave (select(),
\* Opening, Lease::drop).
THEOREM PoolStaysBounded == Spec => []PoolBounded
<1>1. Init => Room
  <2> SUFFICES ASSUME Init PROVE Room OBVIOUS
  <2>1. owners = {} /\ Serving = {} BY DEF Init, owners, Serving
  <2>2. \A t \in Tasks : ~Opens(t) /\ task[t].pc # "Opening" BY DEF Init, Opens, NewTask
  <2>3. IsFiniteSet(owners) /\ Cardinality(owners) = 0 /\ Cardinality(Serving) = 0
    BY <2>1, FS_EmptySet
  <2> QED BY <2>2, <2>3, PoolAssumption DEF Room, Init
<1>2. IInv /\ Room /\ [Next]_vars => Room' BY RoomSteps
<1>3. Init => IInv BY Starts
<1>4. IInv /\ [Next]_vars => IInv' BY Steps DEF Good
<1>5. IInv /\ Room => PoolBounded
  <2> SUFFICES ASSUME IInv, Room PROVE PoolBounded OBVIOUS
  <2>1. ASSUME NEW s \in Ids
        PROVE  Cardinality(Leases(s)) = IF s \in owners THEN session[s].active ELSE 0
    <3>1. CASE s \in owners BY <3>1 DEF IInv, Leased
    <3>2. CASE s \notin owners
      <4>1. Leases(s) = {} BY <3>2, NotLeased, PoolAssumption
      <4> QED BY <3>2, <4>1, FS_EmptySet
    <3> QED BY <3>1, <3>2
  <2>2. /\ opening <=> \E t \in Tasks : task[t].pc \in {"Opening", "Pushed"}
        /\ \A t, u \in Tasks : {task[t].pc, task[u].pc} \subseteq {"Opening", "Pushed"} => t = u
    BY DEF Room, Opens
  <2> QED BY <2>1, <2>2 DEF Room, Serving, PoolBounded
<1> QED BY <1>1, <1>2, <1>3, <1>4, <1>5, PTL DEF Spec
=============================================================================
