------------------------------ MODULE Delivery ------------------------------
(***************************************************************************)
(* What both upstream clients promise a caller of send() about a request.  *)
(* It is handed to the gateway again only after an attempt that provably   *)
(* was not processed, and not where it was just refused; so it runs at     *)
(* most once.  What the caller is told is true: an error that says it was  *)
(* not sent, or a refusal handed back ("unprocessed"), of a request that   *)
(* never runs, a response of one that ran, anything else ("unknown", or    *)
(* the caller has left) of either.  EncryptedClient and Http2Pool          *)
(* implement this.                                                         *)
(***************************************************************************)
CONSTANTS
    Requests,
    Places,     \* sessions or connections
    None        \* no place, or one that is gone

VARIABLES
    phase,      \* by request: "open", "sent" or "ran"
    place,      \* by request: where the attempt under way was handed over
    avoid,      \* by request: where it was refused
    told        \* by request: what the caller was told

vars == <<phase, place, avoid, told>>

Outcomes == {"unprocessed", "response", "unknown"}

Init ==
    /\ phase = [r \in Requests |-> "open"]
    /\ place = [r \in Requests |-> None]
    /\ avoid = [r \in Requests |-> None]
    /\ told = [r \in Requests |-> "nothing"]

Submit(r) ==
    /\ told[r] = "nothing" /\ phase[r] = "open"
    /\ phase' = [phase EXCEPT ![r] = "sent"]
    /\ \E p \in {None} \cup (Places \ {avoid[r]}) : place' = [place EXCEPT ![r] = p]
    /\ UNCHANGED <<avoid, told>>

Process(r) ==
    /\ phase[r] = "sent"
    /\ phase' = [phase EXCEPT ![r] = "ran"]
    /\ place' = [place EXCEPT ![r] = None]
    /\ UNCHANGED <<avoid, told>>

\* The attempt did not and will not run; perhaps the gateway said so.
ComeBack(r) ==
    /\ phase[r] = "sent"
    /\ phase' = [phase EXCEPT ![r] = "open"]
    /\ place' = [place EXCEPT ![r] = None]
    /\ avoid' \in {avoid, [avoid EXCEPT ![r] = place[r]]}
    /\ UNCHANGED told

\* The caller gets an answer or leaves; an attempt under way may be over as well.
Tell(r, outcome) ==
    /\ told[r] = "nothing"
    /\ told' = [told EXCEPT ![r] = outcome]
    /\ \E after \in {phase[r]} \cup (IF phase[r] = "sent" THEN {"open", "ran"} ELSE {}) :
          /\ outcome = "unprocessed" => after = "open"
          /\ outcome = "response" => after = "ran"
          /\ phase' = [phase EXCEPT ![r] = after]
    /\ place' = [place EXCEPT ![r] = None]
    /\ avoid' = [avoid EXCEPT ![r] = None]

\* A session or connection ends, and its name may be used again.
Vanish(p) ==
    /\ \E r \in Requests : p \in {place[r], avoid[r]}
    /\ place' = [r \in Requests |-> IF place[r] = p THEN None ELSE place[r]]
    /\ avoid' = [r \in Requests |-> IF avoid[r] = p THEN None ELSE avoid[r]]
    /\ UNCHANGED <<phase, told>>

Next ==
    \/ \E r \in Requests :
          \/ Submit(r) \/ Process(r) \/ ComeBack(r)
          \/ \E outcome \in Outcomes : Tell(r, outcome)
    \/ \E p \in Places : Vanish(p)

Spec == Init /\ [][Next]_vars
=============================================================================
