--------------------------- MODULE Http2PoolProofs ---------------------------
(***************************************************************************)
(* The HTTP/2 pool keeps exact counters, loses no wakeup, closes quietly   *)
(* and implements Delivery.  Http2PoolInvariant has the invariant and the  *)
(* steps of acquire(); here are the other steps and the theorems.          *)
(***************************************************************************)
EXTENDS Http2PoolInvariant

USE ZenonT(5), SMTT(30)

-----------------------------------------------------------------------------
(* Permit::send(), the response and the uploads.                           *)

\* What the invariant says of a single task.
LEMMA TaskFacts ==
  ASSUME IInv, NEW t \in Tasks
  PROVE  /\ TypeOK /\ Held /\ Queued /\ task[t] \in TaskType /\ Stage(task[t])
         /\ Range(channels) \subseteq Ids
BY ChannelsFinite DEF IInv, TypeOK, Staged

\* A task with a permit takes a step alone, and keeps its share of the slot.
LEMMA Proceeds ==
  ASSUME IInv, NEW t \in Tasks, NEW new \in TaskType, Alone(t, new),
         UNCHANGED <<channels, activity, connecting, closed, waits>>,
         task[t].at \in Holding, new.at \in Holding, Stage(new),
         \A c \in Ids : LeasesOf(new, c) = LeasesOf(task[t], c)
  PROVE  IInv' /\ Becomes(t, new)
<1>1. Becomes(t, new) BY TaskFacts, AloneBecomes
<1>2. new.at \notin Acquiring /\ task[t].at \notin Acquiring BY DEF Acquiring, Holding
<1>3. Queued' BY <1>1, <1>2, TaskFacts, QueueKept
<1> QED BY <1>2, <1>3, Quietly DEF Asleep, Acquiring

LEMMA PreparedStep == ASSUME IInv, NEW t \in Tasks, Prepared(t) PROVE Good
<1> PICK new : new = [task[t] EXCEPT !.at = "send"] BY Zenon
<1>0. TypeOK /\ task[t] \in TaskType /\ Stage(task[t]) /\ task[t].at = "prepare"
  BY TaskFacts DEF Prepared
<1>1. /\ Alone(t, new) /\ UNCHANGED <<channels, activity, connecting, closed, waits>>
  BY <1>0 DEF Prepared, Alone, state, TypeOK
<1>2. "send" \in Stages BY DEF Stages
<1>3. new \in TaskType BY <1>0, <1>2 DEF TaskType
<1>4. /\ new.at = "send" /\ new.attempt = task[t].attempt /\ new.chan = task[t].chan
      /\ new.uploads = task[t].uploads /\ new.ran = task[t].ran /\ new.avoid = task[t].avoid
  BY <1>0 DEF TaskType
<1>5. Stage(new) BY <1>0, <1>4 DEF Stage, Holding
<1>6. \A c \in Ids : LeasesOf(new, c) = LeasesOf(task[t], c) BY <1>4 DEF LeasesOf
<1>7. IInv' /\ Becomes(t, new)
  BY <1>0, <1>1, <1>3, <1>4, <1>5, <1>6, Proceeds, Zenon DEF Holding
<1>8. /\ Phase(new) = Phase(task[t]) /\ Place(new) = Place(task[t])
      /\ Avoid(new) = Avoid(task[t]) /\ Told(new) = Told(task[t])
  BY <1>0, <1>4 DEF Phase, Place, Avoid, Told
<1>9. UNCHANGED Contract!vars BY <1>7, <1>8, LooksTheSame
<1> QED BY <1>7, <1>9 DEF Good

LEMMA SubmitStep == ASSUME IInv, NEW t \in Tasks, Submit(t) PROVE Good
<1> PICK q : q = task[t] OBVIOUS
<1> PICK ups : ups = IF q.chan = None THEN q.uploads ELSE q.uploads \cup {<<q.attempt, q.chan>>}
  BY Zenon
<1> PICK new : new = [q EXCEPT !.at = "submitted", !.refusal = FALSE, !.uploads = ups] OBVIOUS
<1>0. TypeOK /\ q \in TaskType /\ Stage(q) /\ q.at = "send" /\ Range(channels) \subseteq Ids
  BY TaskFacts DEF Submit
<1>1. /\ Alone(t, new) /\ UNCHANGED <<channels, activity, connecting, closed, waits>>
  <2>1. task' = [task EXCEPT ![t].at = "submitted", ![t].refusal = FALSE, ![t].uploads = ups]
    BY <1>0 DEF Submit, TypeOK
  <2>2. task' = [task EXCEPT ![t] = new] BY <1>0, <2>1, Zenon DEF TypeOK
  <2> QED BY <2>2, Zenon DEF Submit, Alone, state
<1>2. "submitted" \in Stages BY DEF Stages
<1>3. ups \in Uploads
  <2>1. q.attempt \in Attempts /\ q.chan \in Slots /\ q.uploads \in Uploads
    BY <1>0 DEF TaskType
  <2> QED BY <2>1 DEF Slots, Uploads
<1>4. new \in TaskType BY <1>0, <1>2, <1>3, Zenon DEF TaskType
<1>5. /\ new.at = "submitted" /\ new.attempt = q.attempt /\ new.chan = q.chan
      /\ new.uploads = ups /\ new.ran = q.ran /\ new.avoid = q.avoid
  BY <1>0 DEF TaskType
<1>6. q.ran = {} BY <1>0 DEF Stage
<1>7. Stage(new)
  <2>1. ASSUME NEW u \in ups
        PROVE  /\ u[2] \in Range(channels) /\ new.attempt = 1 => u[1] = 1
               /\ u[1] = new.attempt /\ new.chan # None => u[2] = new.chan
    <3>1. CASE u \in q.uploads BY <1>0, <1>5, <3>1 DEF Stage
    <3>2. CASE u \notin q.uploads
      <4>1. q.chan # None /\ u = <<q.attempt, q.chan>> BY <3>2
      <4>2. q.chan \in Range(channels) BY <1>0, <4>1 DEF Stage
      <4> QED BY <1>5, <4>1, <4>2
    <3> QED BY <3>1, <3>2
  <2> QED BY <1>0, <1>5, <1>6, <2>1 DEF Stage, Holding
<1>8. ASSUME NEW c \in Ids PROVE LeasesOf(new, c) = LeasesOf(q, c)
  <2>1. \A a \in 1 .. 2 : <<a, c>> \in ups <=>
                            <<a, c>> \in q.uploads \/ (q.chan = c /\ q.attempt = a)
    BY Http2Assumption
  <2> QED BY <1>5, <2>1 DEF LeasesOf
<1>9. IInv' /\ Becomes(t, new)
  BY <1>0, <1>1, <1>4, <1>5, <1>7, <1>8, Proceeds, Zenon DEF Holding
<1>10. /\ Phase(q) = "open" /\ Phase(new) = "sent" /\ Told(q) = "nothing" /\ Told(new) = "nothing"
       /\ Avoid(new) = q.avoid /\ Avoid(q) = q.avoid
  BY <1>0, <1>5, <1>6 DEF Phase, Told, Avoid
<1>11. Place(new) = q.chan BY <1>5, <1>10 DEF Place
<1>12. q.chan \in {None} \cup (Ids \ {q.avoid}) BY <1>0 DEF Stage
<1>13. Contract!Next BY <1>9, <1>10, <1>11, <1>12, Submits
<1> QED BY <1>9, <1>13 DEF Good

LEMMA ExecuteStep == ASSUME IInv, NEW t \in Tasks, Execute(t) PROVE Good
<1> PICK q : q = task[t] OBVIOUS
<1> PICK new : new = [q EXCEPT !.ran = @ \cup {q.attempt}] BY Zenon
<1>0. /\ TypeOK /\ q \in TaskType /\ Stage(q) /\ q.at = "submitted" /\ q.attempt \notin q.ran
  BY TaskFacts DEF Execute
<1>1. /\ Alone(t, new) /\ UNCHANGED <<channels, activity, connecting, closed, waits>>
  BY <1>0 DEF Execute, Alone, state, TypeOK
<1>2. new \in TaskType BY <1>0 DEF TaskType
<1>3. /\ new.at = "submitted" /\ new.attempt = q.attempt /\ new.chan = q.chan
      /\ new.uploads = q.uploads /\ new.ran = q.ran \cup {q.attempt} /\ new.avoid = q.avoid
  BY <1>0 DEF TaskType
<1>4. q.ran = {} BY <1>0 DEF Stage
<1>5. Stage(new) BY <1>0, <1>3, <1>4 DEF Stage, Holding
<1>6. \A c \in Ids : LeasesOf(new, c) = LeasesOf(q, c) BY <1>3 DEF LeasesOf
<1>7. IInv' /\ Becomes(t, new)
  BY <1>0, <1>1, <1>2, <1>3, <1>5, <1>6, Proceeds, Zenon DEF Holding
<1>8. /\ Phase(q) = "sent" /\ Phase(new) = "ran" /\ Told(new) = Told(q) /\ Avoid(new) = Avoid(q)
  BY <1>0, <1>3, <1>4 DEF Phase, Told, Avoid
<1>9. Place(new) = None BY <1>8 DEF Place
<1>10. Contract!Next BY <1>7, <1>8, <1>9, Processes
<1> QED BY <1>7, <1>10 DEF Good

LEMMA RespondStep == ASSUME IInv, NEW t \in Tasks, Respond(t) PROVE Good
<1> PICK q : q = task[t] OBVIOUS
<1> PICK new : new = [q EXCEPT !.at = "body", !.result = "response"] OBVIOUS
<1>0. /\ TypeOK /\ q \in TaskType /\ Stage(q) /\ q.at = "submitted" /\ q.attempt \in q.ran
  BY TaskFacts DEF Respond
<1>1. /\ Alone(t, new) /\ UNCHANGED <<channels, activity, connecting, closed, waits>>
  BY <1>0, Zenon DEF Respond, Alone, state, TypeOK
<1>2. "body" \in Stages /\ "response" \in Results BY DEF Stages, Results
<1>3. new \in TaskType BY <1>0, <1>2, Zenon DEF TaskType
<1>4. /\ new.at = "body" /\ new.attempt = q.attempt /\ new.chan = q.chan
      /\ new.uploads = q.uploads /\ new.ran = q.ran /\ new.avoid = q.avoid
      /\ new.result = "response"
  BY <1>0 DEF TaskType
<1>5. Stage(new) BY <1>0, <1>4 DEF Stage, Holding
<1>6. \A c \in Ids : LeasesOf(new, c) = LeasesOf(q, c) BY <1>4 DEF LeasesOf
<1>7. IInv' /\ Becomes(t, new)
  BY <1>0, <1>1, <1>3, <1>4, <1>5, <1>6, Proceeds, Zenon DEF Holding
<1>8. q.ran # {} BY <1>0
<1>9. /\ Phase(q) = "ran" /\ Phase(new) = "ran" /\ Told(new) = Told(q) /\ Avoid(new) = Avoid(q)
  BY <1>0, <1>4, <1>8 DEF Phase, Told, Avoid
<1>10. Place(new) = None /\ Place(q) = None BY <1>9 DEF Place
<1>11. UNCHANGED Contract!vars BY <1>7, <1>9, <1>10, LooksTheSame
<1> QED BY <1>7, <1>11 DEF Good

\* An attempt with a permit fails: the slot is released and the request goes on or ends.
LEMMA GivesBack ==
  ASSUME IInv, NEW t \in Tasks, task[t].at \in {"prepare", "send", "submitted"}, task[t].ran = {},
         NEW r \in TaskType, r.attempt = task[t].attempt, r.uploads = task[t].uploads, r.ran = {},
         r.avoid = task[t].avoid, NEW resend \in BOOLEAN, Release(t, Failed(r, resend))
  PROVE  Good
<1> PICK new : new = Failed(r, resend) OBVIOUS
<1>1. new \in TaskType /\ new.at \in {"idle", "done"} /\ new.chan = None
      /\ new.uploads = task[t].uploads
  BY FailedShape
<1>2. Stage(new) BY FailedStage
<1>3. new.at \notin Acquiring /\ task[t].at \notin Acquiring BY <1>1 DEF Acquiring
<1>4. IInv' /\ Becomes(t, new) BY <1>1, <1>2, <1>3, Releases
<1>5. [Contract!Next]_(Contract!vars) BY <1>4, TaskFacts, FailedTells
<1> QED BY <1>4, <1>5 DEF Good

LEMMA PrepareFailsStep == ASSUME IInv, NEW t \in Tasks, PrepareFails(t) PROVE Good
<1> PICK r : r = task[t] OBVIOUS
<1>1. r \in TaskType /\ Stage(r) /\ r.at = "prepare" BY TaskFacts DEF PrepareFails
<1>2. r.ran = {} BY <1>1 DEF Stage
<1>3. Release(t, Failed(r, FALSE)) BY Zenon DEF PrepareFails
<1> QED BY <1>1, <1>2, <1>3, GivesBack, Zenon

LEMMA SendNothingStep ==
  ASSUME IInv, NEW t \in Tasks, NEW expired \in BOOLEAN, SendNothing(t, expired) PROVE Good
<1> PICK q : q = task[t] OBVIOUS
<1> PICK r : r = [q EXCEPT !.refusal = FALSE] BY Zenon
<1> PICK resend : resend = ~expired OBVIOUS
<1>1. q \in TaskType /\ Stage(q) /\ q.at = "send" BY TaskFacts DEF SendNothing
<1>2. q.ran = {} BY <1>1 DEF Stage
<1>3. /\ r \in TaskType /\ r.attempt = q.attempt /\ r.uploads = q.uploads /\ r.ran = q.ran
      /\ r.avoid = q.avoid
  BY <1>1, Zenon DEF TaskType
<1>4. Release(t, Failed(r, resend)) BY DEF SendNothing
<1>5. resend \in BOOLEAN OBVIOUS
<1> QED BY <1>1, <1>2, <1>3, <1>4, <1>5, GivesBack, Zenon

LEMMA NotSentStep == ASSUME IInv, NEW t \in Tasks, NotSent(t) PROVE Good
<1> PICK r : r = task[t] OBVIOUS
<1>1. r \in TaskType /\ Stage(r) /\ r.at = "submitted" /\ r.attempt \notin r.ran
  BY TaskFacts DEF NotSent
<1>2. r.ran = {} BY <1>1 DEF Stage
<1>3. Release(t, Failed(r, TRUE)) BY Zenon DEF NotSent
<1> QED BY <1>1, <1>2, <1>3, GivesBack, Zenon

\* The caller is told the end of a request, and what it is told is true.
LEMMA Concludes ==
  ASSUME NEW t \in Tasks, task[t] \in TaskType, task[t].at # "done",
         NEW result \in {"unknown", "response", "refusal"}, NEW new,
         new = Ended(task[t], result), Becomes(t, new),
         result = "response" => task[t].ran # {}, result = "refusal" => task[t].ran = {}
  PROVE  Contract!Next
<1> PICK q : q = task[t] OBVIOUS
<1>1. result \in Results BY DEF Results
<1>2. /\ new.at = "done" /\ new.chan = None /\ new.avoid = None /\ new.ran = q.ran
      /\ new.result = result
  BY <1>1, EndedShape
<1>3. Phase(new) = IF q.ran # {} THEN "ran" ELSE "open" BY <1>2 DEF Phase
<1>4. Phase(q) = IF q.ran # {} THEN "ran" ELSE IF q.at = "submitted" THEN "sent" ELSE "open"
  BY DEF Phase
<1>5. Place(new) = None /\ Avoid(new) = None /\ Told(q) = "nothing"
  BY <1>2 DEF Place, Avoid, Told
<1>6. Told(new) = IF result = "refusal" THEN "unprocessed" ELSE result BY <1>2 DEF Told
<1> QED BY <1>3, <1>4, <1>5, <1>6, Tells

\* A request with a permit ends: the slot is released.
LEMMA LetsGo ==
  ASSUME IInv, NEW t \in Tasks, task[t].at \in Holding,
         NEW result \in {"unknown", "response", "refusal"},
         Release(t, Ended(task[t], result)),
         result = "response" => task[t].ran # {}, result = "refusal" => task[t].ran = {}
  PROVE  Good
<1> PICK q : q = task[t] OBVIOUS
<1> PICK new : new = Ended(q, result) OBVIOUS
<1>0. q \in TaskType /\ Stage(q) /\ result \in Results BY TaskFacts DEF Results
<1>1. /\ new \in TaskType /\ new.at = "done" /\ new.chan = None /\ new.avoid = None
      /\ new.uploads = q.uploads /\ new.ran = q.ran
  BY <1>0, EndedShape
<1>2. Stage(new) BY <1>0, <1>1 DEF Stage, Holding
<1>3. new.at \notin Acquiring /\ q.at \notin Acquiring /\ q.at # "done"
  BY <1>1 DEF Acquiring, Holding
<1>4. IInv' /\ Becomes(t, new) BY <1>1, <1>2, <1>3, Releases
<1>5. Contract!Next BY <1>0, <1>3, <1>4, Concludes
<1> QED BY <1>4, <1>5 DEF Good

LEMMA FailsStep == ASSUME IInv, NEW t \in Tasks, Fails(t) PROVE Good
BY LetsGo DEF Fails, Holding

LEMMA BodyEndsStep == ASSUME IInv, NEW t \in Tasks, BodyEnds(t) PROVE Good
<1> PICK result : result = task[t].result OBVIOUS
<1>1. Stage(task[t]) /\ task[t].at = "body" BY TaskFacts DEF BodyEnds
<1>2. /\ result \in {"unknown", "response", "refusal"}
      /\ result = "response" => task[t].ran # {}
      /\ result = "refusal" => task[t].ran = {}
  BY <1>1 DEF Stage
<1>3. Release(t, Ended(task[t], result)) BY DEF BodyEnds
<1> QED BY <1>1, <1>2, <1>3, LetsGo DEF Holding

LEMMA CancelStep == ASSUME IInv, NEW t \in Tasks, Cancel(t) PROVE Good
<1> PICK q : q = task[t] OBVIOUS
<1> PICK new : new = Ended(q, "unknown") OBVIOUS
<1>0. q \in TaskType /\ Stage(q) /\ "unknown" \in Results BY TaskFacts DEF Results
<1>1. /\ new \in TaskType /\ new.at = "done" /\ new.chan = None /\ new.avoid = None
      /\ new.uploads = q.uploads /\ new.ran = q.ran
  BY <1>0, EndedShape
<1>2. Stage(new) BY <1>0, <1>1 DEF Stage, Holding
<1>3. CASE /\ q.at = "waiting" /\ task' = [task EXCEPT ![t] = new] /\ EndWait(t)
           /\ UNCHANGED <<channels, activity, connecting, closed, closer>>
  <2>1. IInv' /\ Becomes(t, new) BY <1>1, <1>2, <1>3, LeavesQueue, Zenon
  <2>2. Contract!Next BY <1>0, <1>3, <2>1, Concludes
  <2> QED BY <2>1, <2>2 DEF Good
<1>4. CASE /\ q.at = "connect" /\ connecting' = FALSE /\ EndWait(t) /\ Loud(t, new)
           /\ UNCHANGED <<channels, activity, closed>>
  <2>1. IInv' /\ Becomes(t, new) BY <1>1, <1>2, <1>4, OpeningEnds, Zenon
  <2>2. Contract!Next BY <1>0, <1>4, <2>1, Concludes
  <2> QED BY <2>1, <2>2 DEF Good
<1>5. CASE q.at \in {"prepare", "submitted", "refused"} /\ Release(t, new)
  BY <1>5, LetsGo DEF Holding
<1> QED BY <1>3, <1>4, <1>5, Zenon DEF Cancel, Loud

LEMMA ReadRefusalStep ==
  ASSUME IInv, NEW t \in Tasks, NEW whole \in BOOLEAN, ReadRefusal(t, whole) PROVE Good
<1> PICK q : q = task[t] OBVIOUS
<1> PICK new : new = [q EXCEPT !.at = "idle", !.attempt = 2, !.refusal = whole,
                               !.avoid = q.chan, !.chan = None]
  OBVIOUS
<1>0. q \in TaskType /\ Stage(q) /\ q.at = "refused" /\ Release(t, new)
  BY TaskFacts DEF ReadRefusal
<1>1. "idle" \in Stages /\ 2 \in Attempts /\ None \in Slots BY DEF Stages, Attempts, Slots
<1>2. new \in TaskType BY <1>0, <1>1, Zenon DEF TaskType
<1>3. /\ new.at = "idle" /\ new.attempt = 2 /\ new.chan = None /\ new.avoid = q.chan
      /\ new.uploads = q.uploads /\ new.ran = q.ran
  BY <1>0 DEF TaskType
<1>4. q.ran = {} /\ q.attempt = 1 BY <1>0 DEF Stage
<1>5. Stage(new) BY <1>0, <1>3, <1>4 DEF Stage, Holding
<1>6. new.at \notin Acquiring /\ q.at \notin Acquiring BY <1>0, <1>3 DEF Acquiring
<1>7. IInv' /\ Becomes(t, new) BY <1>0, <1>2, <1>3, <1>5, <1>6, Releases, Zenon
<1>8. /\ Phase(new) = Phase(q) /\ Place(new) = Place(q) /\ Avoid(new) = Avoid(q)
      /\ Told(new) = Told(q)
  BY <1>0, <1>3, <1>4 DEF Phase, Place, Avoid, Told
<1>9. UNCHANGED Contract!vars BY <1>7, <1>8, LooksTheSame
<1> QED BY <1>7, <1>9 DEF Good

LEMMA RefuseStep == ASSUME IInv, NEW t \in Tasks, Refuse(t) PROVE Good
<1> PICK q : q = task[t] OBVIOUS
<1> PICK new : new = Refused(q) OBVIOUS
<1>0. /\ TypeOK /\ Held /\ q \in TaskType /\ Stage(q) /\ q.at = "submitted" /\ q.attempt \notin q.ran
      /\ q.chan # None /\ Range(channels) \subseteq Ids
  BY TaskFacts DEF Refuse
<1>1. Loud(t, new) /\ UNCHANGED state /\ activity' = Retire({q.chan}) /\ UNCHANGED channels
  BY DEF Refuse, Loud, IInv, TypeOK, state
<1>2. /\ Carried
      /\ \A c \in Ids : /\ activity'[c].active = activity[c].active
                        /\ activity'[c].retired <=> c \in {q.chan} \/ activity[c].retired
  BY <1>0, <1>1, RetireFacts
<1>3. q.ran = {} /\ q.chan \in Range(channels) BY <1>0 DEF Stage
<1>4. /\ {"refused", "body"} \subseteq Stages /\ "refusal" \in Results BY DEF Stages, Results
<1>5. new \in TaskType
  <2>1. CASE q.attempt = 1
    <3>1. new = [q EXCEPT !.at = "refused"] BY <2>1 DEF Refused
    <3> QED BY <1>0, <1>4, <3>1 DEF TaskType
  <2>2. CASE q.attempt # 1
    <3>1. new = [q EXCEPT !.at = "body", !.result = "refusal"] BY <2>2 DEF Refused
    <3> QED BY <1>0, <1>4, <3>1, Zenon DEF TaskType
  <2> QED BY <2>1, <2>2
<1>6. /\ new.attempt = q.attempt /\ new.chan = q.chan /\ new.uploads = q.uploads
      /\ new.ran = {} /\ new.avoid = q.avoid
      /\ q.attempt = 1 => new.at = "refused"
      /\ q.attempt # 1 => new.at = "body" /\ new.result = "refusal"
  BY <1>0, <1>3 DEF Refused, TaskType
<1>7. activity'[q.chan].retired BY <1>0, <1>2, <1>3
<1>8. Stage(new)'
  <2>1. new.at \in {"refused", "body"} /\ (new.at = "refused" => new.attempt = 1)
        /\ (new.at = "body" => new.result = "refusal")
    BY <1>6
  <2>2. /\ q.chan # q.avoid
        /\ q.avoid # None => q.avoid \in Range(channels) /\ activity'[q.avoid].retired
        /\ \A u \in q.uploads : /\ u[2] \in Range(channels) /\ (q.attempt = 1 => u[1] = 1)
                                /\ u[1] = q.attempt => u[2] = q.chan
    BY <1>0, <1>2 DEF Stage, Carried
  <2> QED BY <1>1, <1>3, <1>6, <1>7, <2>1, <2>2 DEF Stage, Holding
<1>9. \A c \in Ids : LeasesOf(new, c) = LeasesOf(q, c) BY <1>6 DEF LeasesOf
<1>10. Becomes(t, new) => Held' BY <1>0, <1>2, <1>9, HeldKept
<1>11. new.at \notin Acquiring /\ q.at \notin Acquiring BY <1>0, <1>6 DEF Acquiring
<1>12. activity' \in [Ids -> ActivityType]
       /\ \A c \in Range(channels) : activity[c].retired => activity'[c].retired
  BY <1>2 DEF Carried
<1>13. IInv' /\ Becomes(t, new) BY <1>1, <1>5, <1>8, <1>10, <1>11, <1>12, Loudly
<1>14. /\ Phase(q) = "sent" /\ Phase(new) = "open" /\ Told(new) = Told(q) /\ Avoid(q) = q.avoid
       /\ Avoid(new) \in {q.avoid, q.chan}
  BY <1>0, <1>3, <1>6 DEF Phase, Told, Avoid
<1>15. Place(new) = None /\ Place(q) = q.chan BY <1>14 DEF Place
<1>16. Contract!Next BY <1>13, <1>14, <1>15, ComesBack
<1> QED BY <1>13, <1>16 DEF Good

LEMMA GoingAwayStep == ASSUME IInv, NEW t \in Tasks, GoingAway(t) PROVE Good
<1> PICK q : q = task[t] OBVIOUS
<1> PICK c : c = q.chan OBVIOUS
<1>r. PICK r : r = [q EXCEPT !.avoid = c] BY Zenon
<1>b. PICK again \in BOOLEAN : again = TRUE BY Zenon
<1>n. PICK new : new = Failed(r, again) OBVIOUS
<1> PICK a : a = q.attempt OBVIOUS
<1> DEFINE last == \A u \in q.uploads : u[1] # a
<1>0. /\ TypeOK /\ Held /\ q \in TaskType /\ Stage(q) /\ q.at = "submitted" /\ a \notin q.ran
      /\ c # None /\ Range(channels) \subseteq Ids
  BY TaskFacts DEF GoingAway
<1>1. /\ Loud(t, new) /\ UNCHANGED state
      /\ activity' = [activity EXCEPT ![c].retired = TRUE,
                                      ![c].active = IF last THEN @ - 1 ELSE @]
  BY <1>r, <1>b, <1>n DEF GoingAway, Loud
<1>2. /\ q.ran = {} /\ c \in Range(channels) /\ c \in Ids /\ a \in 1 .. 2
      /\ q.uploads \subseteq (1 .. 2) \X Ids
  BY <1>0 DEF Stage, TaskType, Attempts, Uploads
<1>3. /\ r \in TaskType /\ r.attempt = a /\ r.uploads = q.uploads /\ r.ran = {} /\ r.avoid = c
  <2>1. c \in Slots BY <1>2 DEF Slots
  <2> QED BY <1>r, <1>0, <1>2, <2>1 DEF TaskType
<1>4. /\ new \in TaskType /\ new.at \in {"idle", "done"} /\ new.chan = None
      /\ new.uploads = q.uploads /\ new.ran = {}
      /\ new.at = "idle" => new.attempt = 2 /\ a = 1 /\ new.avoid = c
      /\ new.at = "done" => new.avoid = None
  <2>1. /\ new \in TaskType /\ new.at \in {"idle", "done"} /\ new.chan = None
        /\ new.uploads = r.uploads /\ new.ran = r.ran
        /\ new.at = "idle" => new.attempt = 2 /\ r.attempt = 1 /\ new.avoid = r.avoid
        /\ new.at = "done" => new.avoid = None /\ new.result \in {"unsent", "refusal"}
    <3>1. r \in TaskType BY <1>3
    <3> QED BY <1>n, <3>1, FailedShape
  <2> QED BY <1>3, <2>1
<1>5. a \in LeasesOf(q, c) BY <1>2 DEF LeasesOf
<1>6. activity[c].active \in Nat \ {0} /\ activity[c].active - 1 \in Nat
  BY <1>0, <1>2, <1>5, HeldCounts
<1>7. /\ activity' \in [Ids -> ActivityType] /\ activity'[c].retired
      /\ activity'[c].active = IF last THEN activity[c].active - 1 ELSE activity[c].active
      /\ \A d \in Ids \ {c} : activity'[d] = activity[d]
  <2>1. activity \in [Ids -> ActivityType] BY <1>0 DEF TypeOK
  <2>2. activity'[c] = [activity[c] EXCEPT !.retired = TRUE, !.active = IF last THEN @ - 1 ELSE @]
    BY <1>1, <1>2, <2>1, Zenon
  <2>3. \A d \in Ids \ {c} : activity'[d] = activity[d] BY <1>1, <2>1
  <2>4. activity[c] \in ActivityType BY <1>2, <2>1
  <2>5. /\ activity'[c] \in ActivityType /\ activity'[c].retired
        /\ activity'[c].active = IF last THEN activity[c].active - 1 ELSE activity[c].active
    <3> HIDE DEF last
    <3>1. CASE last BY <1>6, <2>2, <2>4, <3>1, Zenon DEF ActivityType
    <3>2. CASE ~last BY <2>2, <2>4, <3>2, Zenon DEF ActivityType
    <3> QED BY <3>1, <3>2
  <2>6. DOMAIN activity' = Ids /\ activity' = [d \in Ids |-> activity'[d]] BY <1>1, <2>1, Zenon
  <2> QED BY <2>1, <2>3, <2>5, <2>6
<1>8. Stage(new)'
  <2>1. channels' = channels BY <1>1 DEF state
  <2>2. \A u \in q.uploads : u[2] \in Range(channels) /\ (a = 1 => u[1] = 1)
    BY <1>0 DEF Stage
  <2>3. activity'[c].retired BY <1>7
  <2>4. c \in Range(channels) /\ new.chan = None /\ new.uploads = q.uploads /\ new.ran = {}
    BY <1>2, <1>4
  <2>5. CASE new.at = "idle"
    <3>1. new.attempt = 2 /\ a = 1 /\ new.avoid = c BY <1>4, <2>5
    <3> QED BY <2>1, <2>2, <2>3, <2>4, <2>5, <3>1 DEF Stage, Holding
  <2>6. CASE new.at = "done"
    <3>1. new.avoid = None BY <1>4, <2>6
    <3> QED BY <2>1, <2>2, <2>4, <2>6, <3>1 DEF Stage, Holding
  <2> QED BY <1>4, <2>5, <2>6
<1>9. \A d \in Ids : LeasesOf(new, d) = {k \in 1 .. 2 : <<k, d>> \in q.uploads}
  BY <1>4, Http2Assumption DEF LeasesOf
<1>10. ASSUME Becomes(t, new) PROVE Held'
  <2> HIDE DEF last
  <2>1. CASE last
    <3>1. LeasesOf(new, c) = LeasesOf(q, c) \ {a} BY <1>2, <1>9, <2>1 DEF LeasesOf, last
    <3>2. \A d \in Ids \ {c} : LeasesOf(new, d) = LeasesOf(q, d) BY <1>9 DEF LeasesOf
    <3>3. Drops(t, new, c, a) BY <1>5, <1>7, <2>1, <3>1, <3>2 DEF Drops
    <3> QED BY <1>0, <1>2, <1>10, <3>3, HeldDropped
  <2>2. CASE ~last
    <3>1. PICK u \in q.uploads : u[1] = a BY <2>2 DEF last
    <3>2. u[2] = c /\ u = <<u[1], u[2]>> BY <1>0, <1>2, <3>1 DEF Stage
    <3>3. <<a, c>> \in q.uploads BY <3>1, <3>2
    <3>4. \A d \in Ids : LeasesOf(new, d) = LeasesOf(q, d) BY <1>9, <3>3 DEF LeasesOf
    <3>5. \A d \in Ids : /\ LeasesOf(new, d) = LeasesOf(task[t], d)
                         /\ activity'[d].active = activity[d].active
      BY <1>7, <2>2, <3>4
    <3> QED BY <1>0, <1>10, <3>5, HeldKept
  <2> QED BY <2>1, <2>2
<1>11. new.at \notin Acquiring /\ q.at \notin Acquiring BY <1>0, <1>4 DEF Acquiring
<1>12. \A d \in Range(channels) : activity[d].retired => activity'[d].retired
  BY <1>0, <1>7
<1>13. IInv' /\ Becomes(t, new)
  BY <1>1, <1>4, <1>7, <1>8, <1>10, <1>11, <1>12, Loudly, Zenon
<1>14. [Contract!Next]_(Contract!vars) BY <1>n, <1>0, <1>2, <1>3, <1>13, FailedTells
<1> QED BY <1>13, <1>14 DEF Good

LEMMA UploadEndsStep ==
  ASSUME IInv, NEW t \in Tasks, NEW a \in 1 .. 2, UploadEnds(t, a) PROVE Good
<1> PICK q : q = task[t] OBVIOUS
<1>1. PICK u \in q.uploads :
        /\ u[1] = a /\ UNCHANGED state
        /\ IF q.attempt = a /\ q.chan # None
           THEN task' = [task EXCEPT ![t].uploads = @ \ {u}] /\ UNCHANGED <<activity, closer>>
           ELSE EndLease(u[2], [task EXCEPT ![t].uploads = @ \ {u}])
  BY Zenon DEF UploadEnds
<1> PICK new : new = [q EXCEPT !.uploads = @ \ {u}] BY Zenon
<1> PICK d : d = u[2] OBVIOUS
<1>0. /\ TypeOK /\ Held /\ Queued /\ q \in TaskType /\ Stage(q) /\ Range(channels) \subseteq Ids
  BY TaskFacts
<1>2. /\ q.uploads \subseteq (1 .. 2) \X Ids /\ d \in Ids /\ u = <<a, d>> /\ q.attempt \in 1 .. 2
  BY <1>0, <1>1 DEF TaskType, Uploads, Attempts
<1>3. [task EXCEPT ![t].uploads = @ \ {u}] = [task EXCEPT ![t] = new] BY <1>0 DEF TypeOK
<1>4. new \in TaskType
  <2>1. q.uploads \ {u} \in Uploads BY <1>2 DEF Uploads, Attempts
  <2> QED BY <1>0, <2>1 DEF TaskType
<1>5. /\ new.at = q.at /\ new.attempt = q.attempt /\ new.size = q.size /\ new.chan = q.chan
      /\ new.uploads = q.uploads \ {u} /\ new.ran = q.ran /\ new.avoid = q.avoid
      /\ new.result = q.result /\ new.woken = q.woken
  BY <1>0 DEF TaskType
<1>6. Stage(new) BY <1>0, <1>5 DEF Stage
<1>7. IInv' /\ Becomes(t, new)
  <2>1. CASE q.attempt = a /\ q.chan # None
    <3>1. d = q.chan BY <1>0, <1>1, <2>1 DEF Stage
    <3>2. Alone(t, new) /\ UNCHANGED <<channels, activity, connecting, closed, waits>>
      BY <1>1, <1>3, <2>1 DEF Alone, state
    <3>3. \A c \in Ids : LeasesOf(new, c) = LeasesOf(q, c)
      BY <1>2, <1>5, <2>1, <3>1 DEF LeasesOf
    <3>4. Becomes(t, new) BY <1>0, <1>4, <3>2, AloneBecomes
    <3>5. Queued' BY <1>0, <1>5, <3>2, <3>4, QueueKept, Zenon
    <3>6. Asleep(new) => Asleep(q) BY <1>5 DEF Asleep
    <3> QED BY <1>4, <1>5, <1>6, <3>2, <3>3, <3>5, <3>6, Quietly, Zenon
  <2>2. CASE ~(q.attempt = a /\ q.chan # None)
    <3>1. /\ Loud(t, new) /\ UNCHANGED state
          /\ activity' = [activity EXCEPT ![d].active = @ - 1]
      BY <1>1, <1>3, <2>2 DEF EndLease, Loud
    <3>2. a \in LeasesOf(q, d) BY <1>1, <1>2 DEF LeasesOf
    <3>3. activity[d].active - 1 \in Nat BY <1>0, <1>2, <3>2, HeldCounts
    <3>4. /\ activity' \in [Ids -> ActivityType]
          /\ \A c \in Ids : activity'[c].retired = activity[c].retired
          /\ \A c \in Ids \ {d} : activity'[c].active = activity[c].active
          /\ activity'[d].active = activity[d].active - 1
      BY <1>0, <1>2, <3>1, <3>3, SlotFreed, Zenon
    <3>5. LeasesOf(new, d) = LeasesOf(q, d) \ {a}
      BY <1>2, <1>5, <2>2, Http2Assumption DEF LeasesOf
    <3>6. \A c \in Ids \ {d} : LeasesOf(new, c) = LeasesOf(q, c) BY <1>2, <1>5 DEF LeasesOf
    <3>7. Becomes(t, new) => Held'
      <4>1. Drops(t, new, d, a) BY <3>2, <3>4, <3>5, <3>6, Zenon DEF Drops
      <4> QED BY <1>0, <1>2, <4>1, HeldDropped
    <3>8. channels' = channels BY <3>1 DEF state
    <3>9. \A c \in Range(channels) : activity[c].retired => activity'[c].retired
      BY <1>0, <3>4
    <3>10. Stage(new)' BY <1>6, <3>8, <3>9, StageLasts
    <3> QED BY <1>4, <1>5, <3>1, <3>4, <3>7, <3>9, <3>10, Loudly, Zenon
  <2> QED BY <2>1, <2>2
<1>8. /\ Phase(new) = Phase(q) /\ Place(new) = Place(q) /\ Avoid(new) = Avoid(q)
      /\ Told(new) = Told(q)
  BY <1>5 DEF Phase, Place, Avoid, Told
<1>9. UNCHANGED Contract!vars BY <1>7, <1>8, LooksTheSame
<1> QED BY <1>7, <1>9 DEF Good

-----------------------------------------------------------------------------
(* The connections and close().                                            *)

\* No task takes a step; all are at most notified.
NobodyMoves == task' \in [Tasks -> TaskType] /\ \A u \in Tasks : Alike(task[u], task'[u])

\* A step that leaves the slots, the queue and the set of connections alone.
LEMMA PoolSteps ==
  ASSUME IInv, Carried, NobodyMoves, UNCHANGED <<channels, connecting, waits>>,
         \A c \in Ids : activity'[c].active = activity[c].active,
         NoLostWakeup', Closing', closer' \in CloserType, closed' \in BOOLEAN
  PROVE  Good
<1>0. TypeOK /\ Staged /\ Held /\ Queued /\ Roomy BY DEF IInv
<1>1. Staged'
  <2> SUFFICES ASSUME NEW u \in Tasks PROVE Stage(task[u])' BY DEF Staged
  <2>1. Alike(task[u], task'[u]) /\ Stage(task[u]) BY <1>0 DEF NobodyMoves, Staged
  <2> QED BY <2>1 DEF Stage, Alike, Carried
<1>2. Held'
  <2>1. \A u \in Tasks, c \in Ids : LeasesOf(task'[u], c) = LeasesOf(task[u], c)
    BY AlikeLeases DEF NobodyMoves
  <2>2. \A c \in Ids : Shares(c)' = Shares(c) BY <2>1, SharesBy, Zenon
  <2> QED BY <1>0, <2>2 DEF Held
<1>3. Queued'
  <2>1. Inside' = Inside BY DEF Inside, NobodyMoves, Alike
  <2>2. \A u \in Inside : task'[u].size = task[u].size BY DEF Inside, NobodyMoves, Alike
  <2>3. Retained' = Retained BY <2>1, <2>2 DEF Retained
  <2> QED BY <1>0, <2>1, <2>3 DEF Queued, waits
<1>4. Roomy'
  <2>1. \A u \in Tasks : /\ task'[u].at = "connect" <=> task[u].at = "connect"
                         /\ Opens(u)' <=> Opens(u)
    BY DEF NobodyMoves, Alike, Opens
  <2>2. Opening' = Opening /\ Opening \in Nat BY <2>1 DEF Opening
  <2>3. Live' \subseteq Live BY <1>0 DEF Live, Carried, TypeOK, ActivityType
  <2>4. /\ Cardinality(Live') <= Cardinality(Live) /\ Cardinality(Live') \in Nat
        /\ Cardinality(Live) \in Nat
    BY <1>0, <2>3, FewerLive, ChannelsFinite DEF TypeOK
  <2>5. Cardinality(Live') + Opening <= Connections
    BY <1>0, <2>2, <2>4, Http2Assumption DEF Roomy
  <2> QED BY <1>0, <2>1, <2>2, <2>5 DEF Roomy
<1>5. TypeOK' BY <1>0 DEF TypeOK, Carried, NobodyMoves
<1>6. IInv' BY <1>1, <1>2, <1>3, <1>4, <1>5 DEF IInv
<1>7. UNCHANGED Contract!vars
  <2>1. \A u \in Tasks :
           /\ Phase(task'[u]) = Phase(task[u]) /\ Place(task'[u]) = Place(task[u])
           /\ Avoid(task'[u]) = Avoid(task[u]) /\ Told(task'[u]) = Told(task[u])
    BY AlikeLooks DEF NobodyMoves
  <2> QED BY <2>1 DEF Contract!vars
<1> QED BY <1>6, <1>7 DEF Good

\* Everybody is notified.
LEMMA AllNotified ==
  ASSUME TypeOK,
         task' = [u \in Tasks |-> IF task[u].at \in Enabled
                                  THEN [task[u] EXCEPT !.woken = TRUE] ELSE task[u]]
  PROVE  NobodyMoves /\ \A u \in Tasks : ~Asleep(task'[u])
<1>1. ASSUME NEW u \in Tasks
      PROVE  task'[u] \in TaskType /\ Alike(task[u], task'[u]) /\ ~Asleep(task'[u])
  <2>1. task[u] \in TaskType BY DEF TypeOK
  <2>2. CASE task[u].at \in Enabled
    <3>1. task'[u] = [task[u] EXCEPT !.woken = TRUE] BY <2>2
    <3> QED BY <2>1, <3>1, Zenon DEF TaskType, Alike, Asleep
  <2>3. CASE task[u].at \notin Enabled
    <3>1. task'[u] = task[u] BY <2>3
    <3> QED BY <2>1, <2>3, <3>1 DEF Alike, Asleep, Enabled
  <2> QED BY <2>2, <2>3
<1>2. task' = [u \in Tasks |-> task'[u]] OBVIOUS
<1> QED BY <1>1, <1>2 DEF NobodyMoves

\* The observer of a connection reports, and notifies everybody.
LEMMA Observed ==
  ASSUME IInv, Carried, Notify(task), UNCHANGED state,
         \A c \in Ids : activity'[c].active = activity[c].active
  PROVE  Good
<1>0. TypeOK /\ Closing BY DEF IInv
<1>1. /\ task' = [u \in Tasks |-> IF task[u].at \in Enabled
                                  THEN [task[u] EXCEPT !.woken = TRUE] ELSE task[u]]
      /\ closer' = [closer EXCEPT !.woken = @ \/ closer.at = "waiting"]
  BY DEF Notify
<1>2. NobodyMoves /\ \A u \in Tasks : ~Asleep(task'[u]) BY <1>0, <1>1, AllNotified
<1>3. NoLostWakeup' BY <1>2, NobodySleeps
<1>4. closer.at = "closed" => ~connecting' /\ channels' = <<>>
  BY <1>0 DEF Closing, CloseIsQuiet, state
<1>5. Closing' /\ closer' \in CloserType BY <1>0, <1>1, <1>4, CloserNotified DEF state
<1>6. closed' \in BOOLEAN /\ UNCHANGED <<channels, connecting, waits>>
  BY <1>0 DEF TypeOK, state
<1> QED BY <1>2, <1>3, <1>5, <1>6, PoolSteps

LEMMA AnnounceStep ==
  ASSUME IInv, NEW c \in Ids, NEW m \in Streams, Announce(c, m) PROVE Good
<1>0. TypeOK /\ Range(channels) \subseteq Ids BY ChannelsFinite DEF IInv, TypeOK
<1>1. /\ activity' = [activity EXCEPT ![c].maximum = m] /\ Notify(task)
      /\ UNCHANGED state /\ UNCHANGED channels
  BY DEF Announce, state
<1>2. activity \in [Ids -> ActivityType] BY <1>0 DEF TypeOK
<1>3. /\ activity'[c] = [activity[c] EXCEPT !.maximum = m]
      /\ \A d \in Ids \ {c} : activity'[d] = activity[d]
      /\ DOMAIN activity' = Ids /\ activity' = [d \in Ids |-> activity'[d]]
  BY <1>1, <1>2, Zenon
<1>4. /\ activity'[c] \in ActivityType /\ activity'[c].active = activity[c].active
      /\ activity'[c].retired = activity[c].retired
  BY <1>2, <1>3 DEF ActivityType
<1>5. Carried BY <1>0, <1>1, <1>2, <1>3, <1>4 DEF Carried, TypeOK
<1>6. \A d \in Ids : activity'[d].active = activity[d].active BY <1>3, <1>4, Zenon
<1> QED BY <1>1, <1>5, <1>6, Observed

LEMMA ObserveStep == ASSUME IInv, NEW c \in Ids, Observe(c) PROVE Good
<1>1. activity' = Retire({c}) /\ Notify(task) /\ UNCHANGED state /\ UNCHANGED channels
  BY DEF Observe, state
<1>2. Carried /\ \A d \in Ids : activity'[d].active = activity[d].active
  BY <1>1, RetireFacts, Zenon DEF IInv
<1> QED BY <1>1, <1>2, Observed

LEMMA StopStep == ASSUME IInv, NEW c \in Ids, Stop(c) PROVE Good
<1>0. TypeOK /\ Closing /\ NoLostWakeup /\ Range(channels) \subseteq Ids
  BY ChannelsFinite DEF IInv, TypeOK
<1>1. /\ activity' = [activity EXCEPT ![c].stopped = TRUE]
      /\ UNCHANGED <<channels, connecting, closed, waits, task, closer>>
  BY DEF Stop, state
<1>2. activity \in [Ids -> ActivityType] BY <1>0 DEF TypeOK
<1>3. /\ activity'[c] = [activity[c] EXCEPT !.stopped = TRUE]
      /\ \A d \in Ids \ {c} : activity'[d] = activity[d]
      /\ DOMAIN activity' = Ids /\ activity' = [d \in Ids |-> activity'[d]]
  BY <1>1, <1>2, Zenon
<1>4. /\ activity'[c] \in ActivityType /\ activity'[c].active = activity[c].active
      /\ activity'[c].retired = activity[c].retired /\ activity'[c].stopped = TRUE
      /\ activity'[c].maximum = activity[c].maximum
  <2>1. activity[c] \in ActivityType BY <1>2
  <2>2. PICK q : q = activity[c] OBVIOUS
  <2>3. activity'[c] = [q EXCEPT !.stopped = TRUE] /\ q \in ActivityType BY <1>3, <2>1, <2>2
  <2>4. activity'[c] \in ActivityType BY <2>3, Zenon DEF ActivityType
  <2>5. /\ activity'[c].active = q.active /\ activity'[c].retired = q.retired
        /\ activity'[c].stopped = TRUE /\ activity'[c].maximum = q.maximum
    BY <2>3 DEF ActivityType
  <2> QED BY <2>2, <2>4, <2>5
<1>5. Carried BY <1>0, <1>1, <1>2, <1>3, <1>4 DEF Carried, TypeOK
<1>6. \A d \in Ids : /\ activity'[d].active = activity[d].active
                     /\ activity'[d].retired = activity[d].retired
                     /\ activity'[d].maximum = activity[d].maximum
                     /\ activity[d].stopped => activity'[d].stopped
  BY <1>3, <1>4, Zenon
<1>7. NobodyMoves BY <1>0, <1>1 DEF NobodyMoves, Alike, TypeOK
<1>8. Eligible' = Eligible BY <1>0, <1>1, <1>6 DEF Eligible
<1>9. Usable' \subseteq Usable BY <1>0, <1>6, <1>8 DEF Usable, Eligible
<1>10. Serving' = Serving BY <1>0, <1>1, <1>6, <1>8 DEF Serving
<1>11. MayConnect' = MayConnect BY <1>1, <1>10 DEF MayConnect
<1>12. NoLostWakeup' BY <1>0, <1>1, <1>9, <1>11 DEF NoLostWakeup
<1>13. Closing' BY <1>0, <1>1 DEF Closing, CloseIsQuiet
<1>14. closer' \in CloserType /\ closed' \in BOOLEAN BY <1>0, <1>1 DEF TypeOK
<1> QED BY <1>1, <1>5, <1>6, <1>7, <1>12, <1>13, <1>14, PoolSteps

LEMMA CloseBeginsStep == ASSUME IInv, CloseBegins PROVE Good
<1>0. TypeOK /\ closer.calls \in Nat BY DEF IInv, TypeOK, CloserType
<1>1. /\ closed' = TRUE /\ activity' = Retire(Range(channels))
      /\ task' = [t \in Tasks |-> IF task[t].at \in Enabled
                                  THEN [task[t] EXCEPT !.woken = TRUE] ELSE task[t]]
      /\ closer' = [at |-> "check", woken |-> FALSE, calls |-> closer.calls + 1]
      /\ UNCHANGED <<channels, connecting, waits>>
  BY DEF CloseBegins
<1>2. Carried /\ \A c \in Ids : activity'[c].active = activity[c].active
  BY <1>0, <1>1, RetireFacts
<1>3. NobodyMoves BY <1>0, <1>1, AllNotified
<1>4. NoLostWakeup' BY <1>1 DEF NoLostWakeup
<1>5. Closing' BY <1>1 DEF Closing, CloseIsQuiet
<1>6. closer' \in CloserType /\ closed' \in BOOLEAN BY <1>0, <1>1 DEF CloserType, Closings
<1> QED BY <1>1, <1>2, <1>3, <1>4, <1>5, <1>6, PoolSteps

LEMMA CloseChecksStep == ASSUME IInv, CloseChecks PROVE Good
<1>0. TypeOK /\ Closing /\ NoLostWakeup /\ closer \in CloserType BY DEF IInv, TypeOK
<1>1. /\ closer' = [closer EXCEPT !.at = IF ~connecting /\ channels = <<>>
                                         THEN "closed" ELSE "waiting",
                                  !.woken = FALSE]
      /\ UNCHANGED <<channels, connecting, closed, waits, activity, task>>
      /\ closer.at \in {"check", "waiting"}
  BY DEF CloseChecks, state
<1>2. Carried /\ NobodyMoves BY <1>0, <1>1 DEF Carried, NobodyMoves, Alike, TypeOK
<1>3. NoLostWakeup'
  <2>1. \A u \in Tasks : /\ Asleep(task'[u]) => Asleep(task[u])
                         /\ task[u].at = "pushed" => task'[u].at = "pushed"
    BY <1>1
  <2> QED BY <1>0, <1>1, <2>1, SleepersKept
<1>4. /\ closer'.at = IF ~connecting /\ channels = <<>> THEN "closed" ELSE "waiting"
      /\ closer'.woken = FALSE /\ closer' \in CloserType
  BY <1>0, <1>1, Zenon DEF CloserType, Closings
<1>5. Closing' BY <1>0, <1>1, <1>4 DEF Closing, CloseIsQuiet, Closings
<1>6. closed' \in BOOLEAN BY <1>0, <1>1 DEF TypeOK
<1> QED BY <1>1, <1>2, <1>3, <1>4, <1>5, <1>6, PoolSteps

\* force_close() closes sockets; the tasks learn of it when they are gone.
LEMMA Forced ==
  ASSUME IInv, activity' = ForceAll(Range(channels)), UNCHANGED <<state, task>>,
         NEW at \in {"forced", "dropped"}, closer' = [closer EXCEPT !.at = at],
         at = "forced" => closed
  PROVE  Good
<1>0. TypeOK /\ Closing /\ NoLostWakeup /\ closer \in CloserType /\ Range(channels) \subseteq Ids
  BY ChannelsFinite DEF IInv, TypeOK
<1>1. UNCHANGED <<channels, connecting, closed, waits>> BY DEF state
<1>2. ASSUME NEW c \in Ids
      PROVE  /\ activity'[c] \in ActivityType
             /\ activity'[c].active = activity[c].active
             /\ activity'[c].maximum = activity[c].maximum
             /\ activity'[c].stopped = activity[c].stopped
             /\ activity'[c].retired = activity[c].retired
  <2>1. activity[c] \in ActivityType BY <1>0 DEF TypeOK
  <2>2. CASE c \in Range(channels)
    <3>1. activity'[c] = [activity[c] EXCEPT !.forced = TRUE] BY <2>2 DEF ForceAll
    <3> QED BY <2>1, <3>1, Zenon DEF ActivityType
  <2>3. CASE c \notin Range(channels)
    <3>1. activity'[c] = activity[c] BY <2>3 DEF ForceAll
    <3> QED BY <2>1, <3>1
  <2> QED BY <2>2, <2>3
<1>3. activity' = [c \in Ids |-> activity'[c]] /\ DOMAIN activity' = Ids BY DEF ForceAll
<1>4. activity' \in [Ids -> ActivityType] BY <1>2, <1>3
<1>5. Carried BY <1>0, <1>1, <1>2, <1>4 DEF Carried, TypeOK
<1>6. NobodyMoves BY <1>0 DEF NobodyMoves, Alike, TypeOK
<1>7. Eligible' = Eligible BY <1>0, <1>1, <1>2 DEF Eligible
<1>8. Usable' = Usable BY <1>0, <1>2, <1>7 DEF Usable, Eligible
<1>9. Serving' = Serving BY <1>0, <1>1, <1>2, <1>7 DEF Serving
<1>10. MayConnect' = MayConnect BY <1>1, <1>9 DEF MayConnect
<1>11. NoLostWakeup' BY <1>0, <1>1, <1>8, <1>10 DEF NoLostWakeup
<1>12. closer'.at = at /\ closer' \in CloserType BY <1>0 DEF CloserType, Closings
<1>13. Closing' BY <1>1, <1>12 DEF Closing, CloseIsQuiet, Closings
<1>14. closed' \in BOOLEAN BY <1>0, <1>1 DEF TypeOK
<1> QED BY <1>1, <1>2, <1>5, <1>6, <1>11, <1>12, <1>13, <1>14, PoolSteps

LEMMA CloseExpiresStep == ASSUME IInv, CloseExpires PROVE Good
<1>1. closed BY DEF CloseExpires, IInv, Closing, Closings
<1> QED BY <1>1, Forced DEF CloseExpires

LEMMA DropPoolStep == ASSUME IInv, DropPool PROVE Good
BY Forced DEF DropPool

-----------------------------------------------------------------------------
(* A connection ends.                                                      *)

Without(r, c) == [r EXCEPT !.chan = IF @ = c THEN None ELSE @,
                           !.avoid = IF @ = c THEN None ELSE @,
                           !.uploads = {u \in @ : u[2] # c}]

\* It is in channels once, so it is no longer.
LEMMA Removed ==
  ASSUME TypeOK, NEW c, Leaves(c)
  PROVE  /\ channels' \in Seq(Ids) /\ Len(channels') + 1 = Len(channels)
         /\ \A i, j \in 1 .. Len(channels') : channels'[i] = channels'[j] => i = j
         /\ Range(channels') = Range(channels) \ {c}
<1> DEFINE n == Len(channels)
<1>0. /\ channels \in Seq(Ids) /\ n \in Nat /\ DOMAIN channels = 1 .. n
      /\ \A i, j \in 1 .. n : channels[i] = channels[j] => i = j
  BY DEF TypeOK
<1>1. PICK i \in 1 .. n :
        /\ channels[i] = c
        /\ channels' = SubSeq(channels, 1, i - 1) \o SubSeq(channels, i + 1, n)
  BY <1>0 DEF Leaves
<1> DEFINE A == SubSeq(channels, 1, i - 1)  B == SubSeq(channels, i + 1, n)
<1>2. A \in Seq(Ids) /\ Len(A) = i - 1 /\ \A j \in 1 .. i - 1 : A[j] = channels[j] BY <1>0
<1>3. B \in Seq(Ids) /\ Len(B) = n - i /\ \A j \in 1 .. n - i : B[j] = channels[i + j]
  <2>1. i \in Nat /\ i + 1 \in Nat /\ i <= n BY <1>0
  <2>2. B \in Seq(Ids) BY <1>0, <2>1
  <2>3. Len(B) = n - i
    <3>1. channels \in Seq(Ids) /\ n \in Nat BY <1>0
    <3> QED BY <2>1, <3>1
  <2>4. ASSUME NEW j \in 1 .. n - i PROVE B[j] = channels[i + j]
    <3>1. B[j] = channels[(i + 1) + j - 1] BY <1>0, <2>1
    <3> QED BY <1>0, <2>1, <3>1
  <2> QED BY <2>2, <2>3, <2>4
<1>4. channels' = A \o B BY <1>1
<1> HIDE DEF A, B
<1>5. /\ channels' \in Seq(Ids) /\ Len(channels') = n - 1
      /\ \A j \in 1 .. n - 1 : channels'[j] = IF j < i THEN A[j] ELSE B[j - (i - 1)]
  <2>0. A \in Seq(Ids) /\ B \in Seq(Ids) BY <1>2, <1>3
  <2>1. A \o B \in Seq(Ids) BY <2>0
  <2>2. Len(A \o B) = Len(A) + Len(B) BY <2>0
  <2>3. ASSUME NEW j \in 1 .. n - 1
        PROVE  (A \o B)[j] = IF j < i THEN A[j] ELSE B[j - (i - 1)]
    <3>1. j \in 1 .. Len(A) + Len(B) BY <1>0, <1>2, <1>3
    <3>2. (A \o B)[j] = IF j <= Len(A) THEN A[j] ELSE B[j - Len(A)]
      BY <2>0, <3>1
    <3>3. j <= Len(A) <=> j < i BY <1>0, <1>2
    <3> QED BY <1>2, <3>2, <3>3
  <2> QED BY <1>0, <1>2, <1>3, <1>4, <2>1, <2>2, <2>3
<1>6. \A j \in 1 .. n - 1 : channels'[j] = IF j < i THEN channels[j] ELSE channels[j + 1]
  <2> SUFFICES ASSUME NEW j \in 1 .. n - 1
               PROVE  channels'[j] = IF j < i THEN channels[j] ELSE channels[j + 1]
    OBVIOUS
  <2>1. CASE j < i BY <1>0, <1>2, <1>5, <2>1
  <2>2. CASE ~(j < i)
    <3>1. j - (i - 1) \in 1 .. n - i /\ i + (j - (i - 1)) = j + 1 BY <1>0, <2>2
    <3> QED BY <1>3, <1>5, <2>2, <3>1
  <2> QED BY <2>1, <2>2
<1>7. \A j, k \in 1 .. n - 1 : channels'[j] = channels'[k] => j = k
  <2> SUFFICES ASSUME NEW j \in 1 .. n - 1, NEW k \in 1 .. n - 1, channels'[j] = channels'[k]
               PROVE  j = k
    OBVIOUS
  <2>1. /\ j \in 1 .. n /\ j + 1 \in 1 .. n /\ k \in 1 .. n /\ k + 1 \in 1 .. n
    BY <1>0
  <2> QED BY <1>0, <1>6, <2>1
<1>8. Range(channels') = Range(channels) \ {c}
  <2>1. DOMAIN channels' = 1 .. n - 1 BY <1>0, <1>5
  <2>2. ASSUME NEW j \in 1 .. n - 1 PROVE channels'[j] \in Range(channels) \ {c}
    <3>1. j \in 1 .. n /\ j + 1 \in 1 .. n BY <1>0
    <3>2. PICK k \in 1 .. n : k # i /\ channels'[j] = channels[k] BY <1>0, <1>6, <3>1
    <3>3. channels[k] # c BY <1>0, <1>1, <3>2
    <3>4. channels[k] \in Range(channels) BY <1>0 DEF Range
    <3> QED BY <3>2, <3>3, <3>4
  <2>3. ASSUME NEW d \in Range(channels), d # c PROVE d \in Range(channels')
    <3>1. PICK k \in 1 .. n : channels[k] = d BY <1>0 DEF Range
    <3>2. CASE k < i
      <4>1. k \in 1 .. n - 1 BY <1>0, <3>2
      <4> QED BY <1>6, <2>1, <3>1, <3>2, <4>1 DEF Range
    <3>3. CASE k > i
      <4>1. k - 1 \in 1 .. n - 1 /\ ~(k - 1 < i) /\ (k - 1) + 1 = k BY <1>0, <3>3
      <4>2. channels'[k - 1] = d BY <1>6, <3>1, <4>1
      <4> QED BY <2>1, <4>1, <4>2 DEF Range
    <3>4. k # i BY <1>1, <2>3, <3>1
    <3> QED BY <1>0, <3>2, <3>3, <3>4
  <2> QED BY <2>1, <2>2, <2>3 DEF Range
<1> QED BY <1>0, <1>5, <1>7, <1>8

\* What the tasks hold of it is gone.
LEMMA WithoutShape ==
  ASSUME NEW r \in TaskType, NEW c \in Ids, NEW q, q = Without(r, c)
  PROVE  /\ q \in TaskType
         /\ q.at = r.at /\ q.attempt = r.attempt /\ q.size = r.size /\ q.ran = r.ran
         /\ q.refusal = r.refusal /\ q.result = r.result /\ q.woken = r.woken
         /\ q.chan = IF r.chan = c THEN None ELSE r.chan
         /\ q.avoid = IF r.avoid = c THEN None ELSE r.avoid
         /\ q.uploads = {u \in r.uploads : u[2] # c}
<1>1. /\ q.at = r.at /\ q.attempt = r.attempt /\ q.size = r.size /\ q.ran = r.ran
      /\ q.refusal = r.refusal /\ q.result = r.result /\ q.woken = r.woken
      /\ q.chan = IF r.chan = c THEN None ELSE r.chan
      /\ q.avoid = IF r.avoid = c THEN None ELSE r.avoid
      /\ q.uploads = {u \in r.uploads : u[2] # c}
  BY DEF Without, TaskType
<1>2. q.chan \in Slots /\ q.avoid \in Slots
  <2>1. r.chan \in Slots /\ r.avoid \in Slots /\ None \in Slots BY DEF TaskType, Slots
  <2> QED BY <1>1, <2>1
<1>3. q.uploads \in Uploads BY <1>1 DEF TaskType, Uploads
<1> DEFINE x == q.chan  y == q.avoid  z == q.uploads
<1>4. q = [r EXCEPT !.chan = x, !.avoid = y, !.uploads = z] BY <1>1 DEF Without, TaskType
<1>5. x \in Slots /\ y \in Slots /\ z \in Uploads BY <1>2, <1>3
<1> HIDE DEF x, y, z
<1>6. q \in TaskType BY <1>4, <1>5, Zenon DEF TaskType
<1> QED BY <1>1, <1>6

\* Drop of OwnedIo, seen from every task.
LEMMA Finished ==
  ASSUME IInv, NEW c \in Ids, Finish(c)
  PROVE  /\ task' \in [Tasks -> TaskType]
         /\ \A u \in Tasks : ~Asleep(task'[u]) /\ Alike(Without(task[u], c), task'[u])
<1> DEFINE all == [u \in Tasks |-> Without(task[u], c)]
<1>1. task' = [u \in Tasks |-> IF task[u].at \in Enabled /\ all[u].at \in Enabled
                               THEN [all[u] EXCEPT !.woken = TRUE] ELSE all[u]]
  BY Zenon DEF Finish, Notify, Without
<1>2. ASSUME NEW u \in Tasks
      PROVE  /\ task'[u] \in TaskType /\ ~Asleep(task'[u])
             /\ Alike(Without(task[u], c), task'[u])
  <2>1. task[u] \in TaskType BY DEF IInv, TypeOK
  <2>2. PICK q : q = Without(task[u], c) OBVIOUS
  <2>3. q \in TaskType /\ q.at = task[u].at BY <2>1, <2>2, WithoutShape
  <2>4. all[u] = q BY <2>2
  <2> HIDE DEF all
  <2>5. CASE task[u].at \in Enabled
    <3>1. task'[u] = [q EXCEPT !.woken = TRUE] BY <1>1, <2>3, <2>4, <2>5, Zenon
    <3>2. task'[u] \in TaskType /\ Alike(q, task'[u]) /\ task'[u].woken = TRUE
      BY <2>3, <3>1, Zenon DEF TaskType, Alike
    <3> QED BY <2>2, <3>2 DEF Asleep
  <2>6. CASE task[u].at \notin Enabled
    <3>1. task'[u] = q BY <1>1, <2>3, <2>4, <2>6
    <3> QED BY <2>2, <2>3, <2>6, <3>1 DEF Alike, Asleep, Enabled
  <2> QED BY <2>5, <2>6
<1>3. task' = [u \in Tasks |-> task'[u]] BY <1>1
<1> QED BY <1>2, <1>3

\* A task before and after a connection ends.
Parted(r, q, c) ==
  /\ q.at = r.at /\ q.attempt = r.attempt /\ q.size = r.size /\ q.ran = r.ran
  /\ q.result = r.result
  /\ q.chan = IF r.chan = c THEN None ELSE r.chan
  /\ q.avoid = IF r.avoid = c THEN None ELSE r.avoid
  /\ q.uploads = {u \in r.uploads : u[2] # c}

LEMMA FinishParts ==
  ASSUME IInv, NEW c \in Ids, Finish(c), NEW u \in Tasks PROVE Parted(task[u], task'[u], c)
<1>1. task[u] \in TaskType BY DEF IInv, TypeOK
<1>2. PICK q : q = Without(task[u], c) OBVIOUS
<1>3. Parted(task[u], q, c) BY <1>1, <1>2, WithoutShape DEF Parted
<1>4. Alike(q, task'[u]) BY <1>2, Finished
<1> QED BY <1>3, <1>4 DEF Parted, Alike

\* Nothing of what a task keeps is of the connection that ended.
LEMMA PartedStage ==
  ASSUME TypeOK, NEW c \in Ids, NEW r, NEW q, Stage(r), Parted(r, q, c),
         Range(channels') = Range(channels) \ {c},
         \A d \in Ids \ {c} : activity'[d] = activity[d]
  PROVE  Stage(q)'
<1>0. Range(channels) \subseteq Ids /\ None # c
  BY ChannelsFinite, Http2Assumption DEF TypeOK
<1>1. /\ q.at \notin Holding => q.chan = None
      /\ q.chan # None => q.chan \in Range(channels') /\ q.chan # q.avoid
  BY <1>0 DEF Stage, Parted
<1>2. q.avoid # None => q.avoid \in Range(channels') /\ activity'[q.avoid].retired
  BY <1>0 DEF Stage, Parted
<1>3. q.at = "refused" => q.attempt = 1 /\ (q.chan # None => activity'[q.chan].retired)
  BY <1>0 DEF Stage, Parted
<1>4. \A u \in q.uploads :
       /\ u[2] \in Range(channels')
       /\ q.at # "done" /\ q.attempt = 1 => u[1] = 1
       /\ q.at \notin {"submitted", "refused", "body", "done"} => u[1] # q.attempt
       /\ u[1] = q.attempt /\ q.chan # None => u[2] = q.chan
  BY DEF Stage, Parted
<1>5. /\ q.at \notin {"submitted", "body", "done"} => q.ran = {}
      /\ q.at = "submitted" => q.ran \subseteq {q.attempt}
      /\ q.at = "body" => \/ q.result = "response" /\ q.ran # {}
                          \/ q.result = "refusal" /\ q.ran = {}
      /\ q.at = "done" => q.avoid = None
  BY DEF Stage, Parted
<1> QED BY <1>1, <1>2, <1>3, <1>4, <1>5 DEF Stage

LEMMA FinishStep == ASSUME IInv, NEW c \in Ids, Finish(c) PROVE Good
<1>0. TypeOK /\ Staged /\ Held /\ Queued /\ Roomy /\ Closing BY DEF IInv
<1>1. /\ c \in Range(channels) /\ Leaves(c)
      /\ activity' = [activity EXCEPT ![c] = NewChannel(0)]
      /\ closer' = [closer EXCEPT !.woken = @ \/ closer.at = "waiting"]
      /\ UNCHANGED <<connecting, closed, waits>>
  BY Zenon DEF Finish, Notify
<1>2. /\ channels' \in Seq(Ids) /\ Len(channels') + 1 = Len(channels)
      /\ \A i, j \in 1 .. Len(channels') : channels'[i] = channels'[j] => i = j
      /\ Range(channels') = Range(channels) \ {c}
  BY <1>0, <1>1, Removed
<1>3. /\ task' \in [Tasks -> TaskType] /\ \A u \in Tasks : ~Asleep(task'[u])
      /\ \A u \in Tasks : Parted(task[u], task'[u], c)
  BY Finished, FinishParts
<1>4. /\ activity' \in [Ids -> ActivityType] /\ activity'[c] = NewChannel(0)
      /\ \A d \in Ids \ {c} : activity'[d] = activity[d]
  <2>1. NewChannel(0) \in ActivityType BY DEF NewChannel, ActivityType
  <2> QED BY <1>0, <1>1, <2>1 DEF TypeOK
<1>5. Staged'
  <2> SUFFICES ASSUME NEW u \in Tasks PROVE Stage(task[u])' BY DEF Staged
  <2>1. PICK q : q = task'[u] OBVIOUS
  <2>2. PICK r : r = task[u] OBVIOUS
  <2>3. Stage(r) /\ Parted(r, q, c) BY <1>0, <1>3, <2>1, <2>2 DEF Staged
  <2>4. Stage(q)' BY <1>0, <1>2, <1>4, <2>3, PartedStage
  <2> QED BY <2>1, <2>4 DEF Stage
<1>6. Held'
  <2>1. ASSUME NEW d \in Ids \ {c} PROVE Shares(d)' = Shares(d)
    <3>1. \A u \in Tasks : LeasesOf(task'[u], d) = LeasesOf(task[u], d)
      BY <1>3, Http2Assumption DEF LeasesOf, Parted
    <3> QED BY <3>1, SharesBy
  <2>2. Shares(c)' = {}
    <3>1. \A u \in Tasks : LeasesOf(task'[u], c) = {}
      BY <1>3, Http2Assumption DEF LeasesOf, Parted
    <3> QED BY <3>1, SharesBy
  <2>3. activity'[c].active = 0 BY <1>4 DEF NewChannel
  <2>4. ASSUME NEW d \in Ids
        PROVE  /\ activity'[d].active = Cardinality(Shares(d)')
               /\ \E m \in Streams \cup {0} : activity'[d].active <= m
    <3>1. CASE d = c
      <4>1. activity'[d].active = 0 /\ 0 \in Streams \cup {0} /\ Cardinality(Shares(d)') = 0
        BY <2>2, <2>3, <3>1, FS_EmptySet
      <4>2. activity'[d].active <= 0 BY <4>1
      <4> QED BY <4>1, <4>2
    <3>2. CASE d # c BY <1>0, <1>4, <2>1, <3>2 DEF Held
    <3> QED BY <3>1, <3>2
  <2> QED BY <2>4 DEF Held
<1>7. Queued'
  <2>1. Inside' = Inside BY <1>3 DEF Inside, Parted
  <2>2. \A u \in Inside : task'[u].size = task[u].size BY <1>3 DEF Inside, Parted
  <2>3. Retained' = Retained BY <2>1, <2>2 DEF Retained
  <2> QED BY <1>0, <1>1, <2>1, <2>3 DEF Queued, waits
<1>8. Roomy'
  <2>1. \A u \in Tasks : /\ task'[u].at = "connect" <=> task[u].at = "connect"
                         /\ Opens(u)' <=> Opens(u)
    BY <1>3 DEF Parted, Opens
  <2>2. Opening' = Opening /\ Opening \in Nat BY <2>1 DEF Opening
  <2>3. Live' \subseteq Live
    <3>1. Range(channels) \subseteq Ids BY <1>0, ChannelsFinite DEF TypeOK
    <3> QED BY <1>2, <1>4, <3>1 DEF Live
  <2>4. /\ Cardinality(Live') <= Cardinality(Live) /\ Cardinality(Live') \in Nat
        /\ Cardinality(Live) \in Nat
    BY <1>0, <2>3, FewerLive, ChannelsFinite DEF TypeOK
  <2>5. Cardinality(Live') + Opening <= Connections
    BY <1>0, <2>2, <2>4, Http2Assumption DEF Roomy
  <2>6. Len(channels') + Opening <= Connections + 1
    <3>1. Len(channels') \in Nat /\ Len(channels) \in Nat BY <1>0, <1>2 DEF TypeOK
    <3> QED BY <1>0, <1>2, <2>2, <3>1, Http2Assumption DEF Roomy
  <2> QED BY <1>0, <1>1, <2>1, <2>2, <2>5, <2>6 DEF Roomy
<1>9. NoLostWakeup' BY <1>3, NobodySleeps
<1>10. Closing' /\ closer' \in CloserType
  <2>1. channels # <<>> BY <1>0, <1>1 DEF Range, TypeOK
  <2>2. closer.at # "closed" BY <1>0, <2>1 DEF Closing, CloseIsQuiet
  <2> QED BY <1>0, <1>1, <2>2, CloserNotified
<1>11. TypeOK' BY <1>0, <1>1, <1>2, <1>3, <1>4, <1>10 DEF TypeOK
<1>12. IInv' BY <1>5, <1>6, <1>7, <1>8, <1>9, <1>10, <1>11 DEF IInv
<1>13. [Contract!Next]_(Contract!vars)
  <2>1. \A u \in Tasks :
           /\ Phase(task'[u]) = Phase(task[u]) /\ Told(task'[u]) = Told(task[u])
           /\ Place(task'[u]) = IF Place(task[u]) = c THEN None ELSE Place(task[u])
           /\ Avoid(task'[u]) = IF Avoid(task[u]) = c THEN None ELSE Avoid(task[u])
    BY <1>3, Http2Assumption DEF Parted, Phase, Told, Place, Avoid
  <2>2. CASE \E u \in Tasks : c \in {Place(task[u]), Avoid(task[u])}
    <3>1. Contract!Vanish(c) BY <2>1, <2>2 DEF Contract!Vanish
    <3> QED BY <3>1 DEF Contract!Next
  <2>3. CASE ~\E u \in Tasks : c \in {Place(task[u]), Avoid(task[u])}
    <3>1. \A u \in Tasks : Place(task'[u]) = Place(task[u]) /\ Avoid(task'[u]) = Avoid(task[u])
      BY <2>1, <2>3
    <3> QED BY <2>1, <3>1 DEF Contract!vars
  <2> QED BY <2>2, <2>3
<1> QED BY <1>12, <1>13 DEF Good

-----------------------------------------------------------------------------
(* The argument.                                                           *)

\* The pool starts empty, with nobody in acquire() and nothing handed over.
LEMMA InitInv == Init => IInv /\ Contract!Init
<1> SUFFICES ASSUME Init PROVE IInv /\ Contract!Init OBVIOUS
<1>0. NewTask \in TaskType /\ NewChannel(0) \in ActivityType
  BY DEF NewTask, TaskType, Stages, Results, Attempts, Uploads, Slots, NewChannel, ActivityType
<1>1. /\ \A t \in Tasks : task[t] = NewTask
      /\ \A c \in Ids : activity[c] = NewChannel(0)
      /\ channels = <<>> /\ Len(channels) = 0 /\ Range(channels) = {}
  BY DEF Init, Range
<1>2. TypeOK
  <2>1. task \in [Tasks -> TaskType] /\ activity \in [Ids -> ActivityType] BY <1>0 DEF Init
  <2>2. closer \in CloserType BY DEF Init, CloserType
  <2>3. channels \in Seq(Ids) BY <1>1
  <2>4. 1 .. Len(channels) = {} BY <1>1
  <2>5. connecting \in BOOLEAN /\ closed \in BOOLEAN BY Zenon DEF Init
  <2> QED BY <2>1, <2>2, <2>3, <2>4, <2>5 DEF TypeOK
<1>3. Staged
  <2> SUFFICES ASSUME NEW t \in Tasks PROVE Stage(task[t]) BY DEF Staged
  <2> QED BY <1>1 DEF Stage, NewTask, Holding
<1>4. Held
  <2> SUFFICES ASSUME NEW c \in Ids
               PROVE  /\ activity[c].active = Cardinality(Shares(c))
                      /\ \E m \in Streams \cup {0} : activity[c].active <= m
    BY DEF Held
  <2>1. \A t \in Tasks : LeasesOf(task[t], c) = {}
    BY <1>1, Http2Assumption DEF LeasesOf, NewTask
  <2>2. Shares(c) = {} BY <2>1, SharesBy
  <2>3. Cardinality(Shares(c)) = 0 BY <2>2, FS_EmptySet
  <2>4. activity[c].active = 0 /\ 0 \in Streams \cup {0} BY <1>1 DEF NewChannel
  <2>5. activity[c].active <= 0 BY <2>4
  <2> QED BY <2>3, <2>4, <2>5
<1>5. Queued
  <2>1. Inside = {} BY <1>1 DEF Inside, NewTask, Acquiring
  <2>2. Retained = {} BY <2>1 DEF Retained
  <2>3. Cardinality(Inside) = 0 /\ Cardinality(Retained) = 0 BY <2>1, <2>2, FS_EmptySet
  <2> QED BY <2>3, Http2Assumption DEF Queued, Init
<1>6. Roomy
  <2>1. \A t \in Tasks : ~Opens(t) /\ task[t].at # "connect" BY <1>1 DEF Opens, NewTask
  <2>2. Opening = 0 BY <2>1 DEF Opening
  <2>3. Live = {} BY <1>1 DEF Live
  <2>4. Cardinality(Live) = 0 BY <2>3, FS_EmptySet
  <2> QED BY <1>1, <2>1, <2>2, <2>4, Http2Assumption DEF Roomy, Init
<1>7. NoLostWakeup BY <1>1 DEF NoLostWakeup, NewTask
<1>8. Closing BY DEF Closing, CloseIsQuiet, Closings, Init
<1>9. Contract!Init
  <2>1. \A t \in Tasks : /\ Phase(task[t]) = "open" /\ Place(task[t]) = None
                         /\ Avoid(task[t]) = None /\ Told(task[t]) = "nothing"
    BY <1>1 DEF Phase, Place, Avoid, Told, NewTask
  <2> QED BY <2>1 DEF Contract!Init
<1> QED BY <1>2, <1>3, <1>4, <1>5, <1>6, <1>7, <1>8, <1>9 DEF IInv

\* Every step of a call of send() keeps the invariant and the contract.
LEMMA TaskSteps ==
  ASSUME IInv, NEW t \in Tasks,
         \/ Acquire(t) \/ Sending(t) \/ Answer(t) \/ Reading(t)
         \/ WaitExpires(t) \/ Execute(t) \/ Cancel(t)
         \/ \E a \in 1 .. 2 : UploadEnds(t, a)
  PROVE  Good
<1>1. CASE Acquire(t)
  <2>1. CASE \E size \in Sizes : Begin(t, size) BY <2>1, BeginStep
  <2>2. CASE LookClosed(t) BY <2>2, LookClosedStep
  <2>3. CASE LookPermit(t) BY <2>3, LookPermitStep
  <2>4. CASE LookConnect(t) BY <2>4, LookConnectStep
  <2>5. CASE LookWait(t) BY <2>5, LookWaitStep
  <2>6. CASE Await(t) BY <2>6, AwaitStep
  <2>7. CASE Connected(t) BY <2>7, ConnectedStep
  <2>8. CASE Established(t) BY <2>8, EstablishedStep
  <2>9. CASE \E resend \in BOOLEAN : ConnectFails(t, resend) BY <2>9, ConnectFailsStep
  <2> QED BY <1>1, <2>1, <2>2, <2>3, <2>4, <2>5, <2>6, <2>7, <2>8, <2>9 DEF Acquire
<1>2. CASE Sending(t)
  <2>1. CASE Prepared(t) BY <2>1, PreparedStep
  <2>2. CASE PrepareFails(t) BY <2>2, PrepareFailsStep
  <2>3. CASE Submit(t) BY <2>3, SubmitStep
  <2>4. CASE \E expired \in BOOLEAN : SendNothing(t, expired) BY <2>4, SendNothingStep
  <2> QED BY <1>2, <2>1, <2>2, <2>3, <2>4 DEF Sending
<1>3. CASE Answer(t)
  <2>1. CASE Respond(t) BY <2>1, RespondStep
  <2>2. CASE NotSent(t) BY <2>2, NotSentStep
  <2>3. CASE GoingAway(t) BY <2>3, GoingAwayStep
  <2>4. CASE Fails(t) BY <2>4, FailsStep
  <2>5. CASE Refuse(t) BY <2>5, RefuseStep
  <2> QED BY <1>3, <2>1, <2>2, <2>3, <2>4, <2>5 DEF Answer
<1>4. CASE Reading(t)
  <2>1. CASE \E whole \in BOOLEAN : ReadRefusal(t, whole) BY <2>1, ReadRefusalStep
  <2>2. CASE BodyEnds(t) BY <2>2, BodyEndsStep
  <2> QED BY <1>4, <2>1, <2>2 DEF Reading
<1>5. CASE WaitExpires(t) BY <1>5, WaitExpiresStep
<1>6. CASE Execute(t) BY <1>6, ExecuteStep
<1>7. CASE Cancel(t) BY <1>7, CancelStep
<1>8. CASE \E a \in 1 .. 2 : UploadEnds(t, a) BY <1>8, UploadEndsStep
<1> QED BY <1>1, <1>2, <1>3, <1>4, <1>5, <1>6, <1>7, <1>8

\* So does every other step, and doing nothing.
LEMMA NextGood == IInv /\ [Next]_vars => Good
<1> SUFFICES ASSUME IInv, [Next]_vars PROVE Good OBVIOUS
<1>1. CASE Next
  <2>1. CASE \E t \in Tasks :
               \/ Acquire(t) \/ Sending(t) \/ Answer(t) \/ Reading(t)
               \/ WaitExpires(t) \/ Execute(t) \/ Cancel(t)
               \/ \E a \in 1 .. 2 : UploadEnds(t, a)
    BY <2>1, TaskSteps
  <2>2. CASE \E c \in Ids : Peer(c)
    <3>1. PICK c \in Ids : Peer(c) BY <2>2
    <3>2. CASE \E m \in Streams : Announce(c, m) BY <3>2, AnnounceStep
    <3>3. CASE Stop(c) BY <3>3, StopStep
    <3>4. CASE Observe(c) BY <3>4, ObserveStep
    <3>5. CASE Finish(c) BY <3>5, FinishStep
    <3> QED BY <3>1, <3>2, <3>3, <3>4, <3>5 DEF Peer
  <2>3. CASE CloseBegins BY <2>3, CloseBeginsStep
  <2>4. CASE CloseChecks BY <2>4, CloseChecksStep
  <2>5. CASE CloseExpires BY <2>5, CloseExpiresStep
  <2>6. CASE DropPool BY <2>6, DropPoolStep
  <2> QED BY <1>1, <2>1, <2>2, <2>3, <2>4, <2>5, <2>6 DEF Next
<1>2. CASE UNCHANGED vars
  <2>1. TypeOK /\ Staged /\ Held /\ Queued /\ Roomy /\ NoLostWakeup /\ Closing BY DEF IInv
  <2>2. /\ channels' = channels /\ activity' = activity /\ connecting' = connecting
        /\ closed' = closed /\ waits' = waits /\ task' = task /\ closer' = closer
    BY <1>2 DEF vars, waits
  <2>3. Carried /\ NobodyMoves BY <2>1, <2>2 DEF Carried, NobodyMoves, Alike, TypeOK
  <2>4. NoLostWakeup' BY <2>1, <2>2, SleepersKept
  <2>5. Closing' /\ closer' \in CloserType /\ closed' \in BOOLEAN
    BY <2>1, <2>2 DEF Closing, CloseIsQuiet, TypeOK
  <2> QED BY <2>2, <2>3, <2>4, <2>5, PoolSteps
<1> QED BY <1>1, <1>2

LEMMA Invariance == Spec => []IInv
<1>1. Init => IInv BY InitInv
<1>2. IInv /\ [Next]_vars => IInv' BY NextGood DEF Good
<1> QED BY <1>1, <1>2, PTL DEF Spec

\* For any number of requests, connections and limits: Activity::active counts the streams
\* really held and Waiting's counters the requests in acquire(), whatever ends first of a
\* permit, an upload and a response; so no connection gets more streams than its peer ever
\* allowed, and Limits bounds the connections and the queue.
THEOREM CountersStayExact == Spec => []CountersExact
<1>1. IInv => CountersExact
  BY DEF IInv, Held, Shares, Queued, Retained, Roomy, CountersExact
<1> QED BY <1>1, Invariance, PTL

\* A call asleep in acquire() without a notification has nothing to do: every change that
\* gives it a connection, or lets it open one, notifies it (Pool::acquire(), changed).
THEOREM WakeupsReach == Spec => []NoLostWakeup
<1>1. IInv => NoLostWakeup BY DEF IInv
<1> QED BY <1>1, Invariance, PTL

\* After close() returned Ok no connection is left and none is opened, and it never sleeps
\* through the end of what it waits for (Pool::close()).
THEOREM ClosesQuietly == Spec => []CloseIsQuiet
<1>1. IInv => CloseIsQuiet BY DEF IInv, Closing
<1> QED BY <1>1, Invariance, PTL

\* The pool implements Delivery: every step is one of the contract or leaves what callers
\* see alone.  So a request runs at most once, is resent only when it did not run, never
\* to the connection that refused it, and its caller is told the truth (Client::send()).
THEOREM PoolDelivers == Spec => Delivers
<1>1. Init => Contract!Init BY InitInv
<1>2. IInv /\ [Next]_vars => [Contract!Next]_(Contract!vars) BY NextGood DEF Good
<1> QED BY <1>1, <1>2, Invariance, PTL DEF Spec, Delivers, Contract!Spec
=============================================================================
