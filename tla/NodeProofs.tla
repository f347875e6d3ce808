------------------------------ MODULE NodeProofs ------------------------------
(***************************************************************************)
(* Proofs about the module Node, for any guests, bundles, reports and      *)
(* instants that do not go back.                                           *)
(*                                                                         *)
(* RegistryInv says how far each guest is on its way from boot to          *)
(* completion, and that the log holds a boot once.  NodeInv adds that      *)
(* every open session was appraised at some earlier instant, under the     *)
(* snapshot it records and with the certificate that the batch and the log *)
(* still give.                                                             *)
(***************************************************************************)
EXTENDS Node, TLAPS

USE ZenonT(5), SMTT(30)

-----------------------------------------------------------------------------
(* The inductive invariant.                                                *)

LogType == Seq([guest : Guests, evidence : Nat, at : Nat])

SessionType == [leaf : DOMAIN Waiting, boot : Guests, snapshot : Nat]

RequestType == [guest : Guests, purpose : {"complete", "certificate"}, issued : Nat]

NodeTypeOK ==
    /\ clock \in DOMAIN Times
    /\ level \in Nat \ {0}
    /\ snap \in [Verifiers -> Nat]
    /\ boot \in [Guests -> Nat]
    /\ challenges \subseteq Guests
    /\ keyed \subseteq Guests
    /\ opened \in [Guests -> Nat]
    /\ requests \subseteq RequestType
    /\ completed \subseteq Guests
    /\ registered \in [Guests -> Nat]
    /\ log \in LogType
    /\ batch = <<>> \/ \E quote \in [guest : Guests, level : Nat, at : Nat] : batch = <<quote>>
    /\ DOMAIN session = Own
    /\ \A c \in Own : session[c] = <<>> \/ \E s \in SessionType : session[c] = <<s>>

\* What is true of one guest: until it boots nothing of it exists, its challenge goes when it
\* is registered, and its provisioning key when it opens an envelope.
GuestInv(g) ==
    /\ boot[g] = 0 => g \notin keyed /\ g \notin challenges /\ opened[g] = 0 /\ registered[g] = 0
    /\ g \in challenges => registered[g] = 0
    /\ IsLogged(g) => registered[g] # 0
    /\ g \in keyed => opened[g] = 0
    /\ opened[g] <= 1
    /\ opened[g] = 1 => registered[g] # 0
    /\ g \in completed => opened[g] = 1

\* A boot is in the log once.
LogInjective == \A m, n \in DOMAIN log : log[m].guest = log[n].guest => m = n

\* Only a provisioned guest has acknowledged.
RequestsHonest == \A r \in requests : r.purpose = "complete" => opened[r.guest] = 1

RegistryInv ==
    /\ NodeTypeOK
    /\ \A g \in Guests : GuestInv(g)
    /\ LogInjective
    /\ RequestsHonest

-----------------------------------------------------------------------------
(* Facts about the operators.                                              *)

\* A digest names the guest whose boot it is.
LEMMA DigestNamesGuest ==
  ASSUME NEW g, NEW h, Sha256(BootDocument(g)) = Sha256(BootDocument(h))
  PROVE  g = h
BY DEF Sha256, BootDocument, BootReportData

\* A request verifies for the guest that signed it and for the purpose it was signed for.
LEMMA RequestNamesGuest ==
  ASSUME NEW r, NEW g, NEW at, NEW purpose,
         BootRequestVerifies(r, BootDocument(g), at, purpose)
  PROVE  r.guest = g /\ r.purpose = purpose
BY DEF BootRequestVerifies, RequestSignature, Signature, BootDocument, BootReportData, RequestMessage

LEMMA AppendFacts ==
  ASSUME NEW T, NEW s \in Seq(T), NEW e \in T
  PROVE  /\ Append(s, e) \in Seq(T)
         /\ DOMAIN s \subseteq Nat \ {0}
         /\ DOMAIN Append(s, e) = DOMAIN s \cup {Len(s) + 1}
         /\ Len(s) + 1 \notin DOMAIN s
         /\ \A i \in DOMAIN s : Append(s, e)[i] = s[i]
         /\ Append(s, e)[Len(s) + 1] = e
OBVIOUS

\* What one more entry does to the log.
LEMMA LogGrows ==
  ASSUME NEW e \in [guest : Guests, evidence : Nat, at : Nat],
         log \in LogType, log' = Append(log, e)
  PROVE  /\ log' \in LogType
         /\ \A h : IsLogged(h)' <=> IsLogged(h) \/ h = e.guest
         /\ DOMAIN log \subseteq DOMAIN log'
         /\ \A n \in DOMAIN log : log'[n] = log[n]
         /\ LogInjective /\ ~ IsLogged(e.guest) => LogInjective'
<1> DEFINE T == [guest : Guests, evidence : Nat, at : Nat]
<1>1. log \in Seq(T) /\ e \in T
  BY DEF LogType
<1> HIDE DEF T
<1>2. /\ log' \in Seq(T)
      /\ DOMAIN log' = DOMAIN log \cup {Len(log) + 1}
      /\ Len(log) + 1 \notin DOMAIN log
      /\ \A i \in DOMAIN log : log'[i] = log[i]
      /\ log'[Len(log) + 1] = e
  BY <1>1, AppendFacts
<1>3. log' \in LogType
  BY <1>2 DEF T, LogType
<1>4. \A h : IsLogged(h)' <=> IsLogged(h) \/ h = e.guest
  BY <1>2 DEF IsLogged
<1>5. LogInjective /\ ~ IsLogged(e.guest) => LogInjective'
  BY <1>2 DEF IsLogged, LogInjective
<1> QED
  BY <1>2, <1>3, <1>4, <1>5


-----------------------------------------------------------------------------
(* Every step keeps it.                                                    *)

LEMMA NowIsNat ==
  ASSUME NodeTypeOK
  PROVE  now \in Nat
BY TimesAssumption DEF NodeTypeOK, now

\* The registry is what guests' facts depend on.
LEMMA SameRegistry ==
  ASSUME UNCHANGED <<registry, provisioning>>, \A g \in Guests : GuestInv(g), LogInjective,
         RequestsHonest
  PROVE  (\A g \in Guests : GuestInv(g)') /\ LogInjective' /\ RequestsHonest'
BY DEF registry, provisioning, GuestInv, LogInjective, RequestsHonest, IsLogged

LEMMA BootKeeps ==
  ASSUME RegistryInv, NEW g \in Guests, Boot(g)
  PROVE  RegistryInv'
<1> USE DEF RegistryInv
<1>1. NodeTypeOK'
  BY DEF Boot, NodeTypeOK, environment, channels
<1>2. registered' = registered /\ \A h : IsLogged(h)' <=> IsLogged(h)
  BY DEF Boot, IsLogged
<1>3. ASSUME NEW h \in Guests PROVE GuestInv(h)'
  <2>1. /\ h # g => boot'[h] = boot[h]
        /\ h = g => boot'[h] # 0 /\ opened[h] = 0 /\ registered[h] = 0
    BY DEF Boot, NodeTypeOK, GuestInv
  <2>2. /\ h # g => (h \in challenges' <=> h \in challenges) /\ (h \in keyed' <=> h \in keyed)
        /\ opened' = opened /\ completed' = completed
    BY DEF Boot
  <2>3. GuestInv(h) /\ opened[h] \in Nat
    BY DEF NodeTypeOK
  <2> QED
    BY <1>2, <2>1, <2>2, <2>3 DEF GuestInv
<1>4. LogInjective' /\ RequestsHonest'
  BY DEF Boot, LogInjective, RequestsHonest
<1> QED
  BY <1>1, <1>3, <1>4

LEMMA RegisterKeeps ==
  ASSUME RegistryInv, NEW g \in Guests, NEW challenge \in challenges, Register(g, challenge)
  PROVE  RegistryInv'
<1> USE DEF RegistryInv
<1>1. challenge = g /\ boot[g] # 0
  BY DEF Register, RegistrationVerifies, BootDocument, BootReportData
<1>2. snap["control"] \in Nat \ {0}
  BY DEF Register, NodeTypeOK, Verifiers
<1>3. /\ registered' = [registered EXCEPT ![g] = snap["control"]]
      /\ registered' \in [Guests -> Nat]
      /\ \A h \in Guests : registered'[h] = IF h = g THEN snap["control"] ELSE registered[h]
  BY <1>2 DEF Register, NodeTypeOK
<1>4. NodeTypeOK'
  BY <1>3 DEF Register, NodeTypeOK, environment, channels, provisioning
<1>5. /\ boot' = boot /\ keyed' = keyed /\ opened' = opened /\ completed' = completed
      /\ challenges' = challenges \ {g} /\ requests' = requests /\ log' = log
  BY <1>1 DEF Register, provisioning
<1>6. \A h : IsLogged(h)' <=> IsLogged(h)
  BY <1>5 DEF IsLogged
<1>7. ASSUME NEW h \in Guests PROVE GuestInv(h)'
  <2>1. GuestInv(h)
    OBVIOUS
  <2> QED
    BY <1>1, <1>2, <1>3, <1>5, <1>6, <2>1 DEF GuestInv
<1>8. LogInjective' /\ RequestsHonest'
  BY <1>5 DEF LogInjective, RequestsHonest
<1> QED
  BY <1>4, <1>7, <1>8

LEMMA PublishKeeps ==
  ASSUME RegistryInv, NEW g \in Guests, Publish(g)
  PROVE  RegistryInv'
<1> USE DEF RegistryInv
<1> DEFINE e == [guest |-> g, evidence |-> registered[g], at |-> now]
<1>1. registered[g] # 0 /\ ~ IsLogged(g) /\ e.guest = g
  BY DEF Publish
<1>2. e \in [guest : Guests, evidence : Nat, at : Nat]
  BY NowIsNat DEF NodeTypeOK
<1>3. log' = Append(log, e) /\ log \in LogType
  BY DEF Publish, NodeTypeOK
<1> HIDE DEF e
<1>4. /\ log' \in LogType
      /\ \A h : IsLogged(h)' <=> IsLogged(h) \/ h = g
      /\ LogInjective'
  BY <1>1, <1>2, <1>3, LogGrows
<1>5. /\ UNCHANGED <<boot, keyed, opened, completed, challenges, requests, registered>>
  BY DEF Publish, provisioning
<1>6. NodeTypeOK'
  BY <1>4, <1>5 DEF Publish, NodeTypeOK, environment, channels
<1>7. ASSUME NEW h \in Guests PROVE GuestInv(h)'
  <2>1. GuestInv(h)
    OBVIOUS
  <2> QED
    BY <1>1, <1>4, <1>5, <2>1 DEF GuestInv
<1>8. RequestsHonest'
  BY <1>5 DEF RequestsHonest
<1> QED
  BY <1>4, <1>6, <1>7, <1>8

LEMMA OpenKeeps ==
  ASSUME RegistryInv, NEW g \in Guests, NEW h \in Guests, Open(g, h)
  PROVE  RegistryInv'
<1> USE DEF RegistryInv
<1>1. g = h
  BY DigestNamesGuest DEF Open, EnvelopeOpens, Envelope
<1>2. registered[g] # 0 /\ g \in keyed /\ opened[g] = 0 /\ boot[g] # 0
  BY <1>1 DEF Open, GuestInv
<1>3. /\ opened' = [opened EXCEPT ![g] = 1]
      /\ keyed' = keyed \ {g}
      /\ UNCHANGED <<boot, challenges, registered, log, completed, requests>>
  BY <1>2 DEF Open, registry
<1>4. NodeTypeOK'
  BY <1>3 DEF Open, NodeTypeOK, environment, channels
<1>5. \A i \in Guests : opened'[i] = IF i = g THEN 1 ELSE opened[i]
  BY <1>3 DEF NodeTypeOK
<1>6. \A i : IsLogged(i)' <=> IsLogged(i)
  BY <1>3 DEF IsLogged
<1>7. ASSUME NEW i \in Guests PROVE GuestInv(i)'
  <2>1. GuestInv(i)
    OBVIOUS
  <2> QED
    BY <1>2, <1>3, <1>5, <1>6, <2>1 DEF GuestInv
<1>8. LogInjective'
  BY <1>3 DEF LogInjective
<1>9. RequestsHonest'
  BY <1>3, <1>5 DEF RequestsHonest, NodeTypeOK, RequestType
<1> QED
  BY <1>4, <1>7, <1>8, <1>9

LEMMA SignKeeps ==
  ASSUME RegistryInv, NEW g \in Guests, NEW purpose \in {"complete", "certificate"}, Sign(g, purpose)
  PROVE  RegistryInv'
<1> USE DEF RegistryInv
<1> DEFINE r == [guest |-> g, purpose |-> purpose, issued |-> now]
<1>1. r \in RequestType /\ (r.purpose = "complete" => opened[r.guest] = 1)
  BY NowIsNat DEF RequestType, Sign, GuestInv, NodeTypeOK
<1>2. requests' = requests \cup {r}
      /\ UNCHANGED <<boot, challenges, registered, log, completed, keyed, opened>>
  BY DEF Sign, registry
<1> HIDE DEF r
<1>3. NodeTypeOK'
  BY <1>1, <1>2 DEF Sign, NodeTypeOK, environment, channels
<1>4. (\A i \in Guests : GuestInv(i)') /\ LogInjective'
  BY <1>2 DEF GuestInv, IsLogged, LogInjective
<1>5. RequestsHonest'
  BY <1>1, <1>2 DEF RequestsHonest
<1> QED
  BY <1>3, <1>4, <1>5

LEMMA CompleteKeeps ==
  ASSUME RegistryInv, NEW g \in Guests, NEW r \in requests, Complete(g, r)
  PROVE  RegistryInv'
<1> USE DEF RegistryInv
<1>1. r.guest = g /\ r.purpose = "complete"
  BY RequestNamesGuest DEF Complete
<1>2. opened[g] = 1
  BY <1>1 DEF RequestsHonest
<1>3. completed' = completed \cup {g}
      /\ UNCHANGED <<boot, challenges, registered, log, requests, keyed, opened>>
  BY DEF Complete, registry
<1>4. NodeTypeOK'
  BY <1>3 DEF Complete, NodeTypeOK, environment, channels
<1>5. (\A i \in Guests : GuestInv(i)') /\ LogInjective' /\ RequestsHonest'
  BY <1>2, <1>3 DEF GuestInv, IsLogged, LogInjective, RequestsHonest
<1> QED
  BY <1>4, <1>5

\* The steps that leave the registry and the provisioning alone.
LEMMA OthersKeep ==
  ASSUME RegistryInv,
         \/ Tick \/ UpdateFirmware \/ (\E v \in Verifiers : Refresh(v))
         \/ \E g \in Guests : Quote(g)
         \/ \E c \in Own : \/ Reappraise(c) \/ Drop(c)
                           \/ \E h \in Guests : \E n \in DOMAIN Waiting : Verify(c, n, h)
  PROVE  RegistryInv'
<1> USE DEF RegistryInv
<1>1. UNCHANGED <<registry, provisioning>>
  BY DEF Tick, UpdateFirmware, Refresh, Quote, Reappraise, Drop, Verify
<1>2. (\A g \in Guests : GuestInv(g)') /\ LogInjective' /\ RequestsHonest'
  BY <1>1, SameRegistry
<1>3. UNCHANGED <<boot, challenges, registered, log, keyed, opened, requests, completed>>
  BY <1>1 DEF registry, provisioning
<1>4. CASE Tick
  <2>1. clock' \in DOMAIN Times
    BY <1>4, TimesAssumption DEF Tick, NodeTypeOK
  <2> QED
    BY <1>2, <1>3, <1>4, <2>1 DEF Tick, NodeTypeOK, channels
<1>5. CASE UpdateFirmware
  <2>1. level' \in Nat \ {0}
    BY <1>5 DEF UpdateFirmware, NodeTypeOK
  <2> QED
    BY <1>2, <1>3, <1>5, <2>1 DEF UpdateFirmware, NodeTypeOK, channels
<1>6. ASSUME NEW v \in Verifiers, Refresh(v) PROVE RegistryInv'
  <2>1. clock \in Nat
    BY TimesAssumption DEF NodeTypeOK
  <2>2. snap' \in [Verifiers -> Nat]
    BY <1>6, <2>1 DEF Refresh, NodeTypeOK
  <2> QED
    BY <1>2, <1>3, <1>6, <2>2 DEF Refresh, NodeTypeOK, environment, channels
<1>7. ASSUME NEW g \in Guests, Quote(g) PROVE RegistryInv'
  <2>1. [guest |-> g, level |-> level, at |-> now] \in [guest : Guests, level : Nat, at : Nat]
    BY NowIsNat DEF NodeTypeOK
  <2>2. batch' = <<>> \/ \E quote \in [guest : Guests, level : Nat, at : Nat] : batch' = <<quote>>
    BY <1>7, <2>1 DEF Quote
  <2> QED
    BY <1>2, <1>3, <1>7, <2>2 DEF Quote, NodeTypeOK, environment
<1>8. ASSUME NEW c \in Own, NEW s \in SessionType, session' = [session EXCEPT ![c] = <<s>>],
             UNCHANGED <<clock, level, snap, batch>>
      PROVE  RegistryInv'
  BY <1>2, <1>3, <1>8 DEF NodeTypeOK
<1>9. ASSUME NEW c \in Own, NEW h \in Guests, NEW n \in DOMAIN Waiting, Verify(c, n, h)
      PROVE  RegistryInv'
  <2> DEFINE s == [leaf |-> n, boot |-> h, snapshot |-> snap["client"]]
  <2>1. s \in SessionType
    BY DEF SessionType, NodeTypeOK, Verifiers
  <2>2. session' = [session EXCEPT ![c] = <<s>>] /\ UNCHANGED <<clock, level, snap, batch>>
    BY <1>9 DEF Verify, environment
  <2> QED
    BY <1>8, <2>1, <2>2
<1>10. ASSUME NEW c \in Own, NEW b \in Nat, IsOpen(c),
              session' = [session EXCEPT ![c][1].snapshot = b],
              UNCHANGED <<clock, level, snap, batch>>
       PROVE  RegistryInv'
  <2>1. PICK s \in SessionType : session[c] = <<s>>
    BY <1>10 DEF IsOpen, NodeTypeOK
  <2>2. [s EXCEPT !.snapshot = b] \in SessionType
    BY DEF SessionType
  <2>3. [session[c] EXCEPT ![1].snapshot = b] = <<[s EXCEPT !.snapshot = b]>>
    BY <2>1
  <2>4. [session EXCEPT ![c][1].snapshot = b] = [session EXCEPT ![c] = <<[s EXCEPT !.snapshot = b]>>]
    BY <2>3
  <2> QED
    BY <1>8, <1>10, <2>2, <2>4
<1>11. ASSUME NEW c \in Own, Drop(c) PROVE RegistryInv'
  BY <1>10, <1>11 DEF Drop, environment
<1>12. ASSUME NEW c \in Own, Reappraise(c) PROVE RegistryInv'
  <2> DEFINE b == IF SessionAppraised(snap["client"], CertificateOf(c), now)
                  THEN snap["client"] ELSE 0
  <2>1. b \in Nat
    BY DEF NodeTypeOK, Verifiers
  <2>2. session' = [session EXCEPT ![c][1].snapshot = b] /\ IsOpen(c)
        /\ UNCHANGED <<clock, level, snap, batch>>
    BY <1>12 DEF Reappraise, environment
  <2> HIDE DEF b
  <2> QED
    BY <1>10, <2>1, <2>2
<1> QED
  BY <1>4, <1>5, <1>6, <1>7, <1>9, <1>11, <1>12

LEMMA InitRegistry == Init => RegistryInv
<1> SUFFICES ASSUME Init PROVE RegistryInv
  OBVIOUS
<1>1. 1 \in DOMAIN Times
  BY TimesAssumption
<1>2. log \in LogType /\ \A g : ~ IsLogged(g)
  BY DEF Init, LogType, IsLogged
<1> QED
  BY <1>1, <1>2 DEF Init, RegistryInv, NodeTypeOK, GuestInv, LogInjective, RequestsHonest, Verifiers

LEMMA StutterRegistry == RegistryInv /\ UNCHANGED vars => RegistryInv'
BY SameRegistry DEF RegistryInv, NodeTypeOK, vars, environment, registry, provisioning, channels

LEMMA NextRegistry == RegistryInv /\ Next => RegistryInv'
<1> SUFFICES ASSUME RegistryInv, Next PROVE RegistryInv'
  OBVIOUS
<1>1. CASE Registration
  BY <1>1, BootKeeps, RegisterKeeps, PublishKeeps, OthersKeep DEF Registration, Verifiers
<1>2. CASE Provisioning
  BY <1>2, OpenKeeps, SignKeeps, CompleteKeeps DEF Provisioning
<1>3. CASE Channels
  BY <1>3, OthersKeep DEF Channels, Verifiers
<1> QED
  BY <1>1, <1>2, <1>3 DEF Next

\* Whatever the guests, Control and the log do, in whatever order, a guest is in one stage
\* of its way from boot to completion and the log holds its boot at most once
\* (verify_boot_request, open_provisioning).
THEOREM RegistryInvariant == Spec => []RegistryInv
BY InitRegistry, NextRegistry, StutterRegistry, PTL DEF Spec

\* A guest opens one envelope, its own, and Control takes no boot for provisioned before
\* it is, for any guests, requests and instants (open_provisioning, verify_boot_request).
THEOREM ProvisionedOnceHolds == Spec => []ProvisionedOnce
<1>1. RegistryInv => ProvisionedOnce
  BY DEF RegistryInv, GuestInv, ProvisionedOnce
<1> QED
  BY <1>1, RegistryInvariant, PTL

-----------------------------------------------------------------------------
(* Sessions.                                                               *)

\* What a certificate is made of does not change once it is there.
Lasting ==
    /\ \A g \in Guests : boot[g] # 0 => boot'[g] = boot[g]
    /\ DOMAIN log \subseteq DOMAIN log'
    /\ \A n \in DOMAIN log : log'[n] = log[n]
    /\ batch # <<>> => batch' = batch
    /\ clock <= clock'

\* An open session was appraised under its snapshot at some instant, the present or a past
\* one, with the certificate that can still be read from the batch and the log.
SessionOK(c) ==
    IsOpen(c) =>
        /\ batch # <<>>
        /\ IsLogged(session[c][1].boot)
        /\ \E t \in DOMAIN Times :
              /\ t <= clock
              /\ SessionAppraised(session[c][1].snapshot, CertificateOf(c), Times[t])

NodeInv ==
    /\ RegistryInv
    /\ batch # <<>> => IsLogged(batch[1].guest)
    /\ \A c \in Own : SessionOK(c)

\* Nothing but time changes in what the log's verifiers see of an entry.
LEMMA PublishedLater ==
  ASSUME NEW signed, NEW root, NEW s \in Nat, NEW t \in Nat, s <= t,
         signed.inclusion.entries[1].integrated \in Nat,
         DocumentPublished(signed, s, root)
  PROVE  DocumentPublished(signed, t, root)
<1>1. Seconds(s) \in Nat /\ Seconds(t) \in Nat /\ Seconds(s) <= Seconds(t)
  BY SMT DEF Seconds
<1>2. signed.inclusion.entries[1].integrated <= Seconds(t) + CLOCK_SKEW
  <2>1. signed.inclusion.entries[1].integrated <= Seconds(s) + CLOCK_SKEW
    BY DEF DocumentPublished, DocumentIncluded, PublicationVerifies
  <2> QED
    BY <1>1, <2>1 DEF CLOCK_SKEW
<1> QED
  BY <1>2 DEF DocumentPublished, DocumentIncluded, PublicationVerifies

\* After an appraisal the full one and the short one agree: the signatures, the bindings
\* and the policy were checked then, and the rest is what the short one repeats.
LEMMA ChecksAgree ==
  ASSUME NEW b, NEW certificate, NEW s \in Nat, NEW t \in Nat, s <= t,
         certificate.inclusion.inclusion.entries[1].integrated \in Nat,
         SessionAppraised(b, certificate, s)
  PROVE  SessionChecked(b, certificate, t) <=> SessionAppraised(b, certificate, t)
<1> DEFINE live == certificate.report
           document == certificate.document
           first == document.report
           proof == certificate.inclusion
           signed == [document |-> Publication(document, proof.evidence),
                      signature |-> proof.signature, inclusion |-> proof.inclusion]
<1>1. /\ \E signer \in HistorySigners(Bundles[b].keys.document) : DocumentSigned(signed, signer)
      /\ DocumentPublished(signed, s, TrustedRootOf[b])
      /\ BootReportVerifies(b, document, s)
      /\ SnpReportVerifies(b, live, live.report_data, document.release, s)
      /\ live.report_id = first.report_id /\ live.chip = first.chip
  BY DEF SessionAppraised, LoggedBootVerifies
<1>2. DocumentPublished(signed, t, TrustedRootOf[b])
  <2>1. signed.inclusion.entries[1].integrated \in Nat
    OBVIOUS
  <2> HIDE DEF signed
  <2> QED
    BY <1>1, <2>1, PublishedLater
<1>3. SessionAppraised(b, certificate, t)
         <=> BootReportVerifies(b, document, t)
             /\ SnpReportVerifies(b, live, live.report_data, document.release, t)
  BY <1>1, <1>2 DEF SessionAppraised, LoggedBootVerifies
<1>4. BootReportVerifies(b, document, t) <=> CollateralValid(b, first.chip, first.reported_tcb, t)
  BY <1>1 DEF BootReportVerifies, SnpReportVerifies
<1>5. SnpReportVerifies(b, live, live.report_data, document.release, t)
         <=> CollateralValid(b, live.chip, live.reported_tcb, t)
  BY <1>1 DEF SnpReportVerifies
<1>6. SessionChecked(b, certificate, t)
         <=> CollateralValid(b, first.chip, first.reported_tcb, t)
             /\ CollateralValid(b, live.chip, live.reported_tcb, t)
  BY DEF SessionChecked
<1> QED
  BY <1>3, <1>4, <1>5, <1>6

\* A logged boot is at one position of the log.
LEMMA PositionOf ==
  ASSUME RegistryInv, NEW h, IsLogged(h)
  PROVE  /\ Position(h) \in DOMAIN log /\ log[Position(h)].guest = h
         /\ \A n \in DOMAIN log : log[n].guest = h => n = Position(h)
BY DEF RegistryInv, LogInjective, IsLogged, Position

\* Every step leaves what certificates are made of alone.
LEMMA StepsLast == RegistryInv /\ [Next]_vars => Lasting
<1> SUFFICES ASSUME RegistryInv, [Next]_vars PROVE Lasting
  OBVIOUS
<1>0. clock \in Nat /\ boot \in [Guests -> Nat] /\ log \in LogType
  BY TimesAssumption DEF RegistryInv, NodeTypeOK
<1>1. ASSUME UNCHANGED <<boot, log>>, clock' = clock \/ clock' = clock + 1,
             batch # <<>> => batch' = batch
      PROVE  Lasting
  BY <1>0, <1>1 DEF Lasting
<1>2. CASE Tick
  BY <1>1, <1>2 DEF Tick, registry, channels
<1>3. CASE UpdateFirmware
  BY <1>1, <1>3 DEF UpdateFirmware, registry, channels
<1>4. ASSUME NEW v \in Verifiers, Refresh(v) PROVE Lasting
  BY <1>1, <1>4 DEF Refresh, registry, channels, environment
<1>5. ASSUME NEW g \in Guests, Boot(g) PROVE Lasting
  BY <1>0, <1>5 DEF Boot, Lasting, environment, channels
<1>6. ASSUME NEW g \in Guests, Publish(g) PROVE Lasting
  <2> DEFINE e == [guest |-> g, evidence |-> registered[g], at |-> now]
  <2>1. e \in [guest : Guests, evidence : Nat, at : Nat]
    BY NowIsNat DEF RegistryInv, NodeTypeOK
  <2>2. log' = Append(log, e)
    BY <1>6 DEF Publish
  <2> HIDE DEF e
  <2>3. DOMAIN log \subseteq DOMAIN log' /\ \A n \in DOMAIN log : log'[n] = log[n]
    BY <1>0, <2>1, <2>2, LogGrows
  <2> QED
    BY <1>0, <1>6, <2>3 DEF Publish, Lasting, environment, channels
<1>7. ASSUME NEW g \in Guests,
             \/ \E challenge \in challenges : Register(g, challenge)
             \/ \E h \in Guests : Open(g, h)
             \/ \E purpose \in {"complete", "certificate"} : Sign(g, purpose)
             \/ \E r \in requests : Complete(g, r)
      PROVE  Lasting
  BY <1>1, <1>7 DEF Register, Open, Sign, Complete, environment, registry, channels
<1>8. ASSUME NEW g \in Guests, Quote(g) PROVE Lasting
  BY <1>1, <1>8 DEF Quote, environment, registry
<1>9. ASSUME NEW c \in Own,
             \/ Reappraise(c) \/ Drop(c)
             \/ \E h \in Guests : \E n \in DOMAIN Waiting : Verify(c, n, h)
      PROVE  Lasting
  BY <1>1, <1>9 DEF Reappraise, Drop, Verify, environment, registry
<1>10. CASE UNCHANGED vars
  BY <1>1, <1>10 DEF vars, environment, registry, channels
<1> QED
  BY <1>2, <1>3, <1>4, <1>5, <1>6, <1>7, <1>8, <1>9, <1>10
  DEF Next, Registration, Provisioning, Channels, Verifiers

\* The document of a boot, and so its digest and its leaves, last.
LEMMA DocumentsLast ==
  ASSUME NEW g, boot'[g] = boot[g]
  PROVE  BootDocument(g)' = BootDocument(g) /\ Batch(g)' = Batch(g)
<1>1. BootDocument(g)' = BootDocument(g)
  BY DEF BootDocument, Report
<1>2. \A c : Leaf(g, c)' = Leaf(g, c)
  BY <1>1 DEF Leaf
<1>3. Batch(g)' = Batch(g)
  BY <1>2 DEF Batch
<1> QED
  BY <1>1, <1>3

LEMMA EntryType ==
  ASSUME log \in LogType, NEW i \in DOMAIN log
  PROVE  log[i].guest \in Guests /\ log[i].evidence \in Nat /\ log[i].at \in Nat
<1> DEFINE T == [guest : Guests, evidence : Nat, at : Nat]
<1>1. log[i] \in T
  <2> HIDE DEF T
  <2>1. log \in Seq(T)
    BY DEF LogType, T
  <2> QED
    BY <2>1
<1> QED
  BY <1>1

\* So does the entry of a boot in the log, with its path in the tree that ended with it.
LEMMA InclusionsLast ==
  ASSUME RegistryInv, Lasting, NEW p \in DOMAIN log
  PROVE  BootInclusion(p)' = BootInclusion(p)
<1>1. log \in LogType /\ boot \in [Guests -> Nat]
  BY DEF RegistryInv, NodeTypeOK
<1>2. p \in Nat /\ 1 .. p \subseteq DOMAIN log
  BY <1>1 DEF LogType
<1>3. \A i \in DOMAIN log : log'[i] = log[i] /\ boot'[log[i].guest] = boot[log[i].guest]
  <2> SUFFICES ASSUME NEW i \in DOMAIN log
               PROVE  log'[i] = log[i] /\ boot'[log[i].guest] = boot[log[i].guest]
    OBVIOUS
  <2>1. log[i].guest \in Guests
    BY <1>1, EntryType
  <2>2. IsLogged(log[i].guest)
    BY DEF IsLogged
  <2>3. boot[log[i].guest] # 0
    BY <2>1, <2>2 DEF RegistryInv, GuestInv
  <2> QED
    BY <2>1, <2>3 DEF Lasting
<1>4. \A i \in DOMAIN log : RekorBody(log[i])' = RekorBody(log[i])
  <2> SUFFICES ASSUME NEW i \in DOMAIN log PROVE RekorBody(log[i])' = RekorBody(log[i])
    OBVIOUS
  <2>1. log'[i] = log[i] /\ BootDocument(log[i].guest)' = BootDocument(log[i].guest)
    BY <1>3 DEF BootDocument, Report
  <2> QED
    BY <2>1 DEF RekorBody
<1>5. [i \in 1 .. p |-> LeafHash(RekorBody(log[i]))]' = [i \in 1 .. p |-> LeafHash(RekorBody(log[i]))]
  BY <1>2, <1>4
<1>6. RekorEntry(p)' = RekorEntry(p)
  BY <1>3, <1>4, <1>5 DEF RekorEntry
<1> QED
  BY <1>3, <1>6 DEF BootInclusion

LEMMA CertificatesLast ==
  ASSUME NodeInv, RegistryInv', Lasting, batch # <<>>, NEW n, NEW h \in Guests, IsLogged(h)
  PROVE  Certificate(n, h)' = Certificate(n, h) /\ IsLogged(h)'
<1> DEFINE g == batch[1].guest
<1>1. batch' = batch /\ IsLogged(g) /\ g \in Guests
  BY DEF NodeInv, Lasting, RegistryInv, NodeTypeOK
<1>2. ASSUME NEW i \in Guests, IsLogged(i) PROVE boot'[i] = boot[i]
  BY <1>2 DEF NodeInv, RegistryInv, GuestInv, Lasting
<1>3. /\ BootDocument(h)' = BootDocument(h) /\ boot'[g] = boot[g]
      /\ Batch(g)' = Batch(g)
  BY <1>1, <1>2, DocumentsLast
<1>4. IsLogged(h)' /\ Position(h)' = Position(h) /\ Position(h) \in DOMAIN log
  <2>1. Position(h) \in DOMAIN log /\ log[Position(h)].guest = h
    BY PositionOf DEF NodeInv
  <2>2. Position(h) \in DOMAIN log' /\ log'[Position(h)].guest = h
    BY <2>1 DEF Lasting
  <2>3. IsLogged(h)'
    BY <2>2 DEF IsLogged
  <2>4. \A m \in DOMAIN log' : log'[m].guest = h => m = Position(h)'
    BY <2>3, PositionOf DEF RegistryInv, LogInjective, IsLogged, Position
  <2> QED
    BY <2>1, <2>2, <2>3, <2>4
<1>5. BootInclusion(Position(h))' = BootInclusion(Position(h))
  <2>1. \A p \in DOMAIN log : BootInclusion(p)' = BootInclusion(p)
    BY InclusionsLast DEF NodeInv
  <2> QED
    BY <1>4, <2>1
<1>6. Report(g, boot[g], batch[1].level, Batch(g).data)' = Report(g, boot[g], batch[1].level, Batch(g).data)
  BY <1>1, <1>3 DEF Report
<1> QED
  BY <1>1, <1>3, <1>4, <1>5, <1>6 DEF Certificate, QuotedCertificate

\* An entry's time is a number.
LEMMA IntegratedIsNat ==
  ASSUME RegistryInv, NEW n, NEW h, IsLogged(h)
  PROVE  Certificate(n, h).inclusion.inclusion.entries[1].integrated \in Nat
<1> DEFINE p == Position(h)
<1>1. p \in DOMAIN log /\ log \in LogType
  BY PositionOf DEF RegistryInv, NodeTypeOK
<1>2. log[p].at \in Nat
  BY <1>1, EntryType
<1>3. Seconds(log[p].at) \in Nat
  BY <1>2, SMT DEF Seconds
<1>4. Certificate(n, h).inclusion.inclusion.entries[1] = RekorEntry(p)
  BY DEF Certificate, QuotedCertificate, BootInclusion, BootInclusionOf, InclusionOf
<1>5. RekorEntry(p).integrated = Seconds(log[p].at)
  BY DEF RekorEntry, LogEntry
<1> QED
  BY <1>3, <1>4, <1>5

\* A session that a step leaves alone stays as well appraised as it was.
LEMMA SessionsKept ==
  ASSUME NodeInv, RegistryInv', Lasting, NEW c \in Own, session'[c] = session[c]
  PROVE  SessionOK(c)'
<1> SUFFICES ASSUME IsOpen(c)' PROVE SessionOK(c)'
  BY DEF SessionOK
<1>1. IsOpen(c)
  BY DEF IsOpen
<1>2. PICK t \in DOMAIN Times :
         /\ batch # <<>> /\ IsLogged(session[c][1].boot) /\ t <= clock
         /\ SessionAppraised(session[c][1].snapshot, CertificateOf(c), Times[t])
  BY <1>1 DEF NodeInv, SessionOK
<1>3. session[c][1].boot \in Guests
  BY <1>1 DEF NodeInv, RegistryInv, NodeTypeOK, SessionType, IsOpen
<1>4. CertificateOf(c)' = CertificateOf(c) /\ IsLogged(session[c][1].boot)'
  BY <1>2, <1>3, CertificatesLast DEF CertificateOf
<1>5. batch' = batch /\ t <= clock'
  <2>1. clock \in Nat /\ clock' \in Nat /\ t \in Nat
    BY TimesAssumption DEF NodeInv, RegistryInv, NodeTypeOK
  <2> QED
    BY <1>2, <2>1 DEF Lasting
<1> QED
  BY <1>2, <1>4, <1>5 DEF SessionOK

LEMMA NextNode == NodeInv /\ [Next]_vars => NodeInv'
<1> SUFFICES ASSUME NodeInv, [Next]_vars PROVE NodeInv'
  OBVIOUS
<1>1. RegistryInv /\ RegistryInv' /\ Lasting
  BY NextRegistry, StutterRegistry, StepsLast DEF NodeInv
<1>2. ASSUME batch' # <<>> PROVE IsLogged(batch[1].guest)'
  <2>1. CASE batch # <<>>
    <3>1. PICK n \in DOMAIN log : log[n].guest = batch[1].guest
      BY <2>1 DEF NodeInv, IsLogged
    <3> QED
      BY <1>1, <2>1, <3>1 DEF IsLogged, Lasting
  <2>2. CASE batch = <<>>
    <3>1. PICK g \in Guests : Quote(g)
      BY <1>2, <2>2 DEF Next, Registration, Provisioning, Channels, Tick, UpdateFirmware, Refresh,
            Boot, Register, Publish, Open, Sign, Complete, Reappraise, Drop, Verify, vars, channels
    <3> QED
      BY <3>1 DEF Quote, IsLogged, registry
  <2> QED
    BY <2>1, <2>2
<1>3. ASSUME NEW c \in Own PROVE SessionOK(c)'
  <2>1. CASE session'[c] = session[c]
    BY <1>1, <2>1, SessionsKept
  <2>2. CASE session'[c] # session[c]
    <3>1. \E d \in Own : \/ Reappraise(d) \/ Drop(d)
                         \/ \E h \in Guests : \E n \in DOMAIN Waiting : Verify(d, n, h)
      BY <2>2 DEF Next, Registration, Provisioning, Channels, Tick, UpdateFirmware, Refresh,
            Boot, Register, Publish, Open, Sign, Complete, Quote, vars, channels
    <3>2. DOMAIN session = Own
      BY <1>1 DEF RegistryInv, NodeTypeOK
    <3>3. UNCHANGED <<clock, boot, log, batch>>
      BY <3>1 DEF Reappraise, Drop, Verify, environment, registry
    <3>4. clock \in DOMAIN Times /\ clock \in Nat
      BY <1>1, TimesAssumption DEF RegistryInv, NodeTypeOK
    <3>5. ASSUME NEW h \in Guests, NEW n \in DOMAIN Waiting, Verify(c, n, h) PROVE SessionOK(c)'
      <4>1. session'[c] = <<[leaf |-> n, boot |-> h, snapshot |-> snap["client"]]>>
        BY <3>2, <3>5 DEF Verify
      <4>2. batch # <<>> /\ IsLogged(h) /\ SessionAppraised(snap["client"], Certificate(n, h), now)
        BY <3>5 DEF Verify, NativeCertificateVerifies
      <4>3. Certificate(n, h)' = Certificate(n, h) /\ IsLogged(h)'
        BY <1>1, <4>2, CertificatesLast
      <4>4. CertificateOf(c)' = Certificate(n, h)
        BY <4>1, <4>3 DEF CertificateOf
      <4> QED
        BY <3>3, <3>4, <4>1, <4>2, <4>3, <4>4 DEF SessionOK, now
    <3>6. ASSUME Reappraise(c) PROVE SessionOK(c)'
      <4> SUFFICES ASSUME IsOpen(c)' PROVE SessionOK(c)'
        BY DEF SessionOK
      <4>1. PICK s \in SessionType : session[c] = <<s>>
        BY <1>1, <3>6 DEF Reappraise, IsOpen, RegistryInv, NodeTypeOK
      <4> DEFINE b == IF SessionAppraised(snap["client"], CertificateOf(c), now)
                      THEN snap["client"] ELSE 0
      <4>2. session' = [session EXCEPT ![c][1].snapshot = b]
        BY <3>6 DEF Reappraise
      <4> HIDE DEF b
      <4>3. [session[c] EXCEPT ![1].snapshot = b] = <<[s EXCEPT !.snapshot = b]>>
        BY <4>1
      <4>4. session'[c] = <<[s EXCEPT !.snapshot = b]>>
        BY <3>2, <4>2, <4>3
      <4>5. /\ session'[c][1].snapshot = b /\ session'[c][1].leaf = session[c][1].leaf
            /\ session'[c][1].boot = session[c][1].boot /\ session[c][1].boot \in Guests
        BY <4>1, <4>4 DEF SessionType
      <4>6. b # 0
        BY <4>5 DEF IsOpen
      <4>7. b = snap["client"] /\ SessionAppraised(snap["client"], CertificateOf(c), now)
        BY <4>6 DEF b
      <4>8. batch # <<>> /\ IsLogged(session[c][1].boot)
        BY <3>6 DEF Reappraise, NodeInv, SessionOK
      <4>9. CertificateOf(c)' = CertificateOf(c) /\ IsLogged(session[c][1].boot)'
        BY <1>1, <4>5, <4>8, CertificatesLast DEF CertificateOf
      <4> QED
        BY <3>3, <3>4, <4>5, <4>7, <4>8, <4>9 DEF SessionOK, now
    <3>7. ASSUME Drop(c) PROVE SessionOK(c)'
      <4>1. PICK s \in SessionType : session[c] = <<s>>
        BY <1>1, <3>7 DEF Drop, IsOpen, RegistryInv, NodeTypeOK
      <4>2. [session[c] EXCEPT ![1].snapshot = 0] = <<[s EXCEPT !.snapshot = 0]>>
        BY <4>1
      <4>3. session'[c] = <<[s EXCEPT !.snapshot = 0]>>
        BY <3>2, <3>7, <4>2 DEF Drop
      <4>4. session'[c][1].snapshot = 0
        BY <4>3 DEF SessionType
      <4> QED
        BY <4>4 DEF SessionOK, IsOpen
    <3>8. ASSUME NEW d \in Own \ {c},
                 \/ Reappraise(d) \/ Drop(d)
                 \/ \E h \in Guests : \E n \in DOMAIN Waiting : Verify(d, n, h)
          PROVE  session'[c] = session[c]
      BY <3>2, <3>8 DEF Reappraise, Drop, Verify
    <3> QED
      BY <2>2, <3>1, <3>5, <3>6, <3>7, <3>8
  <2> QED
    BY <2>1, <2>2
<1> QED
  BY <1>1, <1>2, <1>3 DEF NodeInv

\* Every open session keeps what was verified when it was opened: the log only grows, and
\* a snapshot that still has the recorded sequence is the one that appraised the session
\* (appraise_session).
THEOREM NodeInvariant == Spec => []NodeInv
<1>1. Init => NodeInv
  BY InitRegistry DEF Init, NodeInv, SessionOK, IsOpen
<1> QED
  BY <1>1, NextNode, PTL DEF Spec

\* While a snapshot lasts, check_session says of every session it appraised what a full
\* reappraisal would say, for any bundles, reports, collateral and instants.
THEOREM CheckSufficesHolds == Spec => []CheckSuffices
<1>1. NodeInv => CheckSuffices
  <2> SUFFICES ASSUME NodeInv, NEW c \in Own, IsOpen(c), session[c][1].snapshot = snap["client"]
               PROVE  SessionChecked(snap["client"], CertificateOf(c), now)
                         <=> SessionAppraised(snap["client"], CertificateOf(c), now)
    BY DEF CheckSuffices
  <2>1. PICK t \in DOMAIN Times :
           /\ IsLogged(session[c][1].boot) /\ t <= clock
           /\ SessionAppraised(snap["client"], CertificateOf(c), Times[t])
    BY DEF NodeInv, SessionOK
  <2>2. Times[t] \in Nat /\ now \in Nat /\ Times[t] <= now
    BY <2>1, TimesAssumption DEF NodeInv, RegistryInv, NodeTypeOK, now
  <2>3. CertificateOf(c).inclusion.inclusion.entries[1].integrated \in Nat
    BY <2>1, IntegratedIsNat DEF NodeInv, CertificateOf
  <2> QED
    BY <2>1, <2>2, <2>3, ChecksAgree
<1> QED
  BY <1>1, NodeInvariant, PTL
===============================================================================
