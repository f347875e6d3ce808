------------------------------- MODULE Setup -------------------------------
(***************************************************************************)
(* Setting up a channel: the encrypted one (channel/setup.rs and           *)
(* encrypted_setup.rs) and attested TLS (native_tls.rs), while the root    *)
(* retires the keys of the snapshots that appraise them.                   *)
(*                                                                         *)
(* A hello, a challenge, a session identifier and a key are fresh random   *)
(* values: they are named by who drew them.  A transcript is the tuple of  *)
(* what it hashes, and an export of an encapsulated key is known exactly   *)
(* to the two owners of that key.                                          *)
(***************************************************************************)
EXTENDS Naturals

CONSTANTS
  Attempts,       \* calls of connect() or connect_with_evidence()
  Gateways,
  Served,         \* the gateways of the client's environment
  Signer,         \* Signer[g]: the online key that root decision g makes active
  Approved,       \* Approved[g]: the gateways whose boot that key's approvals admit
  MaxGeneration,  \* bounds the root's decisions
  MaxSetups,      \* bounds the setups the gateways prepare
  None

Generations == 1..MaxGeneration

ASSUME SetupAssumption ==
  /\ MaxGeneration \in Nat \ {0}
  /\ MaxSetups \in Nat
  /\ Served \subseteq Gateways
  /\ DOMAIN Signer = Generations
  /\ Approved \in [Generations -> SUBSET Gateways]

VARIABLES
  root,         \* the generation of the last root decision the verifier learned
  current,      \* the generation of the installed snapshot, or None
  attempt,
  setups,       \* what prepare_server_setup() returned: [hello, id, gateway]
  certificates  \* TLS certificates issued: [challenge, gateway]

vars == <<root, current, attempt, setups, certificates>>

NewAttempt ==
  [kind |-> None, at |-> "idle", snapshot |-> None, recovered |-> FALSE, key |-> FALSE,
   response |-> None, dials |-> 0, peer |-> None, session |-> None]

Init ==
  /\ root = 1 /\ current = None
  /\ attempt = [a \in Attempts |-> NewAttempt]
  /\ setups = {} /\ certificates = {}

Goto(a, at) == attempt' = [attempt EXCEPT ![a].at = at]

(***************************************************************************)
(* The evidence client, as its users see it.                               *)
(***************************************************************************)
RequireCurrentKeys(snapshot) == Signer[snapshot] = Signer[root]

LearnRoot ==
  /\ root < MaxGeneration
  /\ root' = root + 1
  /\ UNCHANGED <<current, attempt, setups, certificates>>

\* A refresh for somebody else, or one that its recovery's check then rejects.
Refresh ==
  /\ current' = root
  /\ UNCHANGED <<root, attempt, setups, certificates>>

\* recover(deadline, check): the current snapshot if it passes, or else a new
\* one that does.
Recovered(Check(_), snapshot) ==
  /\ snapshot = IF current # None /\ RequireCurrentKeys(current) /\ Check(current)
                THEN current ELSE root
  /\ Check(snapshot)
  /\ current' = snapshot

\* verify_session_identity(): the snapshot is not retired and approves the boot.
Appraises(snapshot, gateway) ==
  RequireCurrentKeys(snapshot) /\ gateway \in Approved[snapshot]

\* Both connectors begin with the current snapshot or acquire a first one.
Begin(a, kind, next) ==
  /\ attempt[a].at = "idle"
  /\ LET Anything(snapshot) == TRUE
         Start(snapshot) ==
           attempt' = [attempt EXCEPT ![a].kind = kind, ![a].at = next, ![a].snapshot = snapshot]
     IN IF current # None THEN Start(current) /\ UNCHANGED current
        ELSE \E s \in Generations : Recovered(Anything, s) /\ Start(s)
  /\ UNCHANGED <<root, setups, certificates>>

\* A deadline, a refused or broken transport, or a caller that gives up.
Fails(a) ==
  /\ attempt[a].at \notin {"idle", "connected", "failed"}
  /\ attempt' = [attempt EXCEPT ![a].at = "failed", ![a].key = FALSE]
  /\ UNCHANGED <<root, current, setups, certificates>>

(***************************************************************************)
(* The encrypted setup.                                                    *)
(***************************************************************************)
Connect(a) == Begin(a, "e2ee", "new")

\* PendingSetup::new() and the POST of its hello, which is named by a.
Hello(a) ==
  /\ attempt[a].at = "new"
  /\ attempt' = [attempt EXCEPT ![a].at = "sent", ![a].key = TRUE]
  /\ UNCHANGED <<root, current, setups, certificates>>

\* prepare_server_setup(): the hello of another environment is refused; a hello
\* that is delivered again gets another session, which has the next number.
PrepareServerSetup(gateway, a) ==
  /\ attempt[a].kind = "e2ee" /\ attempt[a].at \notin {"idle", "new"}
  /\ gateway \in Served
  /\ \E id \in 1 .. MaxSetups :
       /\ \A s \in setups : s.id < id
       /\ id = 1 \/ \E s \in setups : s.id = id - 1
       /\ setups' = setups \cup {[hello |-> a, id |-> id, gateway |-> gateway]}
  /\ UNCHANGED <<root, current, attempt, certificates>>

\* The response names its session and key in its prefix, shows possession of the
\* key, and quotes a transcript.  What arrives may be another attempt's response,
\* an earlier one, or have parts of several.
Receive(a) ==
  /\ attempt[a].at = "sent"
  /\ \E prefix, confirmation, evidence \in setups :
       attempt' = [attempt EXCEPT ![a].at = "complete",
                     ![a].response = [prefix |-> prefix, confirmation |-> confirmation,
                                      evidence |-> evidence]]
  /\ UNCHANGED <<root, current, setups, certificates>>

\* The encapsulated key in a prefix is for the hello it answered.
Transcript(hello, prefix, gateway) ==
  [hello |-> hello, key |-> prefix.hello, id |-> prefix.id, gateway |-> gateway]
Quoted(setup) == Transcript(setup.hello, setup, setup.gateway)

\* PendingSetup::transcript() and inspect(): the quote is of this transcript.
TranscriptOf(a) ==
  LET r == attempt[a].response IN Transcript(a, r.prefix, r.evidence.gateway)
Inspect(a) == attempt[a].key /\ Quoted(attempt[a].response.evidence) = TranscriptOf(a)

\* inspect_verified(): the snapshot's environment is always the client's here.
CheckEvidence(a, snapshot) ==
  Inspect(a) /\ Appraises(snapshot, attempt[a].response.evidence.gateway)

\* The exporter of the encapsulated key agrees with the peer's exactly if the
\* private key is the one it was made for.
Export(a) ==
  [key |-> attempt[a].response.prefix, opened |-> attempt[a].response.prefix.hello = a,
   context |-> TranscriptOf(a)]
Exported(setup) == [key |-> setup, opened |-> TRUE, context |-> Quoted(setup)]

\* complete(): an appraisal failure leaves the private key for the second call;
\* every other failure is final.
CompleteTakingKey(a) ==
  /\ attempt[a].at = "complete"
  /\ LET r == attempt[a].response
         done == [attempt[a] EXCEPT !.key = FALSE]
     IN attempt' = [attempt EXCEPT ![a] =
          IF ~Inspect(a) THEN [done EXCEPT !.at = "failed"]
          ELSE IF ~Appraises(attempt[a].snapshot, r.evidence.gateway)
          THEN [done EXCEPT !.at = IF attempt[a].recovered THEN "failed" ELSE "recover"]
          ELSE IF Export(a) # Exported(r.confirmation) THEN [done EXCEPT !.at = "failed"]
          ELSE [done EXCEPT !.at = "connected", !.session = Export(a),
                               !.peer = r.evidence.gateway]]
  /\ UNCHANGED <<root, current, setups, certificates>>
Complete(a) ==
  /\ attempt[a].at = "complete"
  /\ LET r == attempt[a].response
         done == [attempt[a] EXCEPT !.key = FALSE]
     IN attempt' = [attempt EXCEPT ![a] =
          IF ~Inspect(a) THEN [done EXCEPT !.at = "failed"]
          ELSE IF ~Appraises(attempt[a].snapshot, r.evidence.gateway)
          THEN IF attempt[a].recovered THEN [done EXCEPT !.at = "failed"]
               ELSE [attempt[a] EXCEPT !.at = "recover"]
          ELSE IF Export(a) # Exported(r.confirmation) THEN [done EXCEPT !.at = "failed"]
          ELSE [done EXCEPT !.at = "connected", !.session = Export(a),
                               !.peer = r.evidence.gateway]]
  /\ UNCHANGED <<root, current, setups, certificates>>

\* Attempt::check() during recovery leaves the pending setup as it is.
RecoverSetup(a) ==
  /\ attempt[a].at = "recover" /\ attempt[a].kind = "e2ee"
  /\ LET Check(snapshot) == CheckEvidence(a, snapshot)
     IN \E s \in Generations :
          /\ Recovered(Check, s)
          /\ attempt' = [attempt EXCEPT ![a].at = "complete", ![a].snapshot = s,
                                        ![a].recovered = TRUE]
  /\ UNCHANGED <<root, setups, certificates>>

(***************************************************************************)
(* Attested TLS.                                                           *)
(***************************************************************************)
ConnectWithEvidence(a) == Begin(a, "tls", "dial")

Challenge(a) == <<a, attempt[a].dials>>

\* The first verification failure is retained for recovery, the second is final.
Rejected(a, failure) ==
  IF attempt[a].recovered THEN [attempt[a] EXCEPT !.at = "failed"]
  ELSE [attempt[a] EXCEPT !.at = "recover", !.response = failure]

\* dial() and Handshake::new(), which draws a challenge for this dial.
Dial(a) ==
  /\ attempt[a].at = "dial"
  /\ attempt' = [attempt EXCEPT ![a] =
       IF RequireCurrentKeys(attempt[a].snapshot)
       THEN [attempt[a] EXCEPT !.at = "hello", !.dials = @ + 1]
       ELSE Rejected(a, None)]
  /\ UNCHANGED <<root, current, setups, certificates>>

Certificate(challenge, gateway) == [challenge |-> challenge, gateway |-> gateway]

\* A gateway quotes the challenge of a ClientHello with its environment and a key,
\* while the handshake lasts.
IssueCertificate(gateway, a) ==
  /\ attempt[a].at = "hello"
  /\ certificates' = certificates \cup {Certificate(Challenge(a), gateway)}
  /\ UNCHANGED <<root, current, attempt, setups>>

\* Snapshot::verify_native_certificate()
VerifyNativeCertificate(snapshot, certificate, challenge) ==
  /\ certificate.challenge = challenge /\ certificate.gateway \in Served
  /\ Appraises(snapshot, certificate.gateway)

\* verify_server_cert(), called with a certificate that may be another's.
VerifyServerCert(a) ==
  /\ attempt[a].at = "hello"
  /\ \E c \in certificates :
       attempt' = [attempt EXCEPT ![a] =
         IF VerifyNativeCertificate(attempt[a].snapshot, c, Challenge(a))
         THEN [attempt[a] EXCEPT !.at = "finish", !.peer = c.gateway]
         ELSE Rejected(a, [certificate |-> c, challenge |-> Challenge(a)])]
  /\ UNCHANGED <<root, current, setups, certificates>>

\* The owner of the certificate's key finished the handshake: check_session().
FinishUnchecked(a) ==
  /\ attempt[a].at = "finish"
  /\ attempt' = [attempt EXCEPT ![a].at = "connected",
                   ![a].session = Certificate(Challenge(a), attempt[a].peer)]
  /\ UNCHANGED <<root, current, setups, certificates>>
Finish(a) ==
  /\ attempt[a].at = "finish"
  /\ attempt' = [attempt EXCEPT ![a] =
       IF RequireCurrentKeys(attempt[a].snapshot)
       THEN [attempt[a] EXCEPT !.at = "connected",
                               !.session = Certificate(Challenge(a), attempt[a].peer)]
       ELSE Rejected(a, None)]
  /\ UNCHANGED <<root, current, setups, certificates>>

\* VerificationFailure::check(): a retained certificate is for its own challenge.
CheckFailure(a, snapshot) ==
  /\ RequireCurrentKeys(snapshot)
  /\ LET failure == attempt[a].response
     IN failure # None =>
          VerifyNativeCertificate(snapshot, failure.certificate, failure.challenge)

\* Recovery and the one fresh redial.
RecoverDial(a) ==
  /\ attempt[a].at = "recover" /\ attempt[a].kind = "tls"
  /\ LET Check(snapshot) == CheckFailure(a, snapshot)
     IN \E s \in Generations :
          /\ Recovered(Check, s)
          /\ attempt' = [attempt EXCEPT ![a].at = "dial", ![a].snapshot = s,
                                        ![a].recovered = TRUE, ![a].peer = None]
  /\ UNCHANGED <<root, setups, certificates>>

Next ==
  \/ LearnRoot \/ Refresh
  \/ \E a \in Attempts :
       \/ Connect(a) \/ Hello(a) \/ Receive(a) \/ Complete(a) \/ RecoverSetup(a)
       \/ ConnectWithEvidence(a) \/ Dial(a) \/ VerifyServerCert(a) \/ Finish(a)
       \/ RecoverDial(a) \/ Fails(a)
       \/ \E g \in Gateways : PrepareServerSetup(g, a) \/ IssueCertificate(g, a)

Spec == Init /\ [][Next]_vars

(***************************************************************************)
(* Properties.                                                             *)
(***************************************************************************)
Setups == [hello : Attempts, id : Nat, gateway : Gateways]
Challenges == Attempts \X Nat
Certificates == [challenge : Challenges, gateway : Gateways]
Responses == [prefix : Setups, confirmation : Setups, evidence : Setups]
Failures == [certificate : Certificates, challenge : Challenges]
Transcripts == [hello : Attempts, key : Attempts, id : Nat, gateway : Gateways]
Exports == [key : Setups, opened : BOOLEAN, context : Transcripts]

AttemptType ==
  [kind : {None, "e2ee", "tls"},
   at : {"idle", "new", "sent", "complete", "recover", "dial", "hello", "finish",
         "connected", "failed"},
   snapshot : Generations \cup {None}, recovered : BOOLEAN, key : BOOLEAN,
   response : Responses \cup Failures \cup {None}, dials : Nat,
   peer : Gateways \cup {None}, session : Exports \cup Certificates \cup {None}]

\* The state of every attempt and of the gateways has its type.
TypeOK ==
  /\ root \in Generations /\ current \in Generations \cup {None}
  /\ attempt \in [Attempts -> AttemptType]
  /\ setups \subseteq Setups
  /\ certificates \subseteq Certificates

\* What holds of attempt a in a step that connects it.
Verified(a) ==
  LET n == attempt'[a]
  IN /\ RequireCurrentKeys(n.snapshot) /\ n.peer \in Approved[n.snapshot] \cap Served
     /\ n.kind = "e2ee" => \E s \in setups :
          s.hello = a /\ s.gateway = n.peer /\ Exported(s) = n.session
     /\ n.kind = "tls" =>
          n.session = Certificate(Challenge(a), n.peer) /\ n.session \in certificates
     /\ \A b \in Attempts \ {a} :
          (attempt[b].at = "connected" /\ attempt[b].kind = n.kind) =>
            attempt[b].session # n.session

\* What connect() and connect_with_evidence() return was verified as a whole: at
\* that step the root has not retired the snapshot's signer, the snapshot approves
\* the peer's boot in this environment, the peer quoted this very attempt's hello
\* or this very dial's challenge and owns the same session root, and nobody else
\* has it.  A root decision between the appraisal and the end of the handshake,
\* responses of other attempts, and ones put together from several are included.
EstablishedIsVerified ==
  [][\A a \in Attempts :
       (attempt[a].at # "connected" /\ attempt'[a].at = "connected") => Verified(a)]_vars

\* Recovery resolves unfamiliar evidence without a second setup: as long as the
\* latest snapshot approves the boot that an honest response or certificate for
\* this attempt came with, the retained material still passes against it.
RecoveryCanSucceed ==
  \A a \in Attempts : attempt[a].at = "recover" =>
    LET r == attempt[a].response
    IN IF attempt[a].kind = "e2ee"
       THEN r.evidence.gateway \in Approved[root] => CheckEvidence(a, root)
       ELSE (r # None /\ r.certificate.challenge = Challenge(a)
               /\ r.certificate.gateway \in Served \cap Approved[root])
            => CheckFailure(a, root)
=============================================================================
