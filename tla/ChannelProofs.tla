---------------------------- MODULE ChannelProofs ----------------------------
(***************************************************************************)
(* The windows of start numbers on both sides of a session, for every      *)
(* window size and every bound, first with authentication left open        *)
(* (StartWindow); Channel implements StartWindow, so what is proved of the *)
(* windows holds of the session with its ratchets.  Then the ratchets      *)
(* themselves: a message key that was used is gone.                        *)
(***************************************************************************)
EXTENDS Channel, TLAPS, WellFoundedInduction

USE DEF Numbers
USE DEF StartsType, ServerType
USE ZenonT(5), SMTT(30)

\* A non-empty set of naturals has a least element, and Min picks it.
LEMMA MinOfNaturals ==
  ASSUME NEW S \in SUBSET Nat, S # {}
  PROVE  Min(S) \in S /\ \A k \in S : Min(S) <= k
<1>1. \E x \in S : \A y \in S : ~(<<y, x>> \in OpToRel(<, Nat))
  BY NatLessThanWellFounded, WFMin, ZenonT(60)
<1>2. PICK x \in S : \A y \in S : ~(<<y, x>> \in OpToRel(<, Nat))
  BY <1>1, ZenonT(60)
<1>3. \A y \in S : x <= y
  <2> SUFFICES ASSUME NEW y \in S PROVE x <= y OBVIOUS
  <2>1. x \in Nat /\ y \in Nat OBVIOUS
  <2>2. ~(y < x) BY <1>2, <2>1, ZenonT(60) DEF OpToRel
  <2> QED BY <2>1, <2>2
<1> QED BY <1>3, ZenonT(60) DEF Min

\* Two numbers closer than the window never share a bit.
LEMMA PositionInjective ==
  ASSUME NEW m \in Nat, NEW n \in Nat, m <= n, n - m < ReplayWindow,
         Position(m) = Position(n)
  PROVE  m = n
<1> DEFINE W == ReplayWindow
<1>1. W \in Nat /\ W > 0 BY ReplayWindowAssumption
<1>2. /\ m = W * (m \div W) + (m % W) /\ m \div W \in Nat
      /\ n = W * (n \div W) + (n % W) /\ n \div W \in Nat
  BY <1>1
<1> DEFINE a == m \div W
           b == n \div W
           r == m % W
<1>3. n % W = r BY DEF Position
<1>4. r \in Nat BY <1>1
<1> HIDE DEF a, b, r, W
<1>5. m = W * a + r /\ n = W * b + r /\ a \in Nat /\ b \in Nat
  BY <1>2, <1>3 DEF a, b, r
<1>6. CASE b <= a
  <2>1. W * b <= W * a BY <1>1, <1>5, <1>6
  <2> QED BY <2>1, <1>1, <1>4, <1>5
<1>7. CASE b >= a + 1
  <2>1. W * b >= W * (a + 1) BY <1>1, <1>5, <1>7
  <2>2. W * (a + 1) = W * a + W BY <1>1, <1>5
  <2>3. n - m < W BY DEF W
  <2>4. W * a \in Nat /\ W * b \in Nat BY <1>1, <1>5
  <2> QED BY <2>1, <2>2, <2>3, <2>4, <1>1, <1>4, <1>5
<1> QED BY <1>5, <1>6, <1>7

\* A position is a bit of the bitmap.
LEMMA PositionType ==
  ASSUME NEW n \in Nat
  PROVE  Position(n) \in 0 .. ReplayWindow - 1
BY ReplayWindowAssumption DEF Position

-----------------------------------------------------------------------------
(* The inductive invariant.  What each side's window says about the other: *)
(* the bitmap of each is exact over the numbers within its reach, and the  *)
(* client's bounds on next keep every live number within the server's.     *)

ClientWindow ==
  /\ starts.firstPending <= starts.next
  /\ starts.confirmedNext <= server.next
  /\ server.next <= starts.next
  /\ starts.next - starts.firstPending <= ReplayWindow
  /\ starts.next - starts.confirmedNext <= ReplayWindow
  /\ \A n \in owners : starts.firstPending <= n /\ n < starts.next
  /\ starts.firstPending < starts.next => starts.firstPending \in owners
  /\ starts.pending = {Position(n) : n \in owners}
  /\ \A n \in sealed : n < starts.next

ServerWindow ==
  /\ server.open => server.remaining > 0
  /\ \A n \in Numbers : /\ admissions[n] <= 1
                        /\ admissions[n] > 0 => n < server.next
  /\ \A n \in Numbers :
       n < server.next /\ server.next - n <= ReplayWindow =>
         (Position(n) \in server.accepted <=> admissions[n] > 0)

WindowInv == WindowTypeOK /\ ClientWindow /\ ServerWindow

\* Dropping the owner of n clears n's bit and nobody else's, and leaves
\* firstPending at the oldest owner that is left.
LEMMA ReleaseFirstPending ==
  ASSUME NEW s, NEW live,
         s \in StartsType,
         live \in SUBSET Numbers,
         s.firstPending <= s.next,
         s.next - s.firstPending <= ReplayWindow,
         \A k \in live : s.firstPending <= k /\ k < s.next,
         s.pending = {Position(k) : k \in live},
         NEW n \in live
  PROVE  /\ Release(s, n) \in StartsType
         /\ Release(s, n).next = s.next
         /\ Release(s, n).confirmedNext = s.confirmedNext
         /\ s.firstPending <= Release(s, n).firstPending
         /\ Release(s, n).firstPending <= s.next
         /\ \A k \in live \ {n} : Release(s, n).firstPending <= k
         /\ Release(s, n).firstPending < s.next =>
              Release(s, n).firstPending \in live \ {n}
         /\ Release(s, n).pending = {Position(k) : k \in live \ {n}}
<1> DEFINE bits == s.pending \ {Position(n)}
           stops == {k \in s.firstPending .. s.next :
                       k = s.next \/ Position(k) \in bits}
<1> USE MaxNumberAssumption, ReplayWindowAssumption
<1>1. /\ s.next \in Nat /\ s.firstPending \in Nat /\ s.next <= MaxNumber
      /\ live \in SUBSET Nat
  OBVIOUS
<1>2. \A j, k \in live : Position(j) = Position(k) => j = k
  <2> SUFFICES ASSUME NEW j \in live, NEW k \in live, Position(j) = Position(k)
               PROVE  j = k
    OBVIOUS
  <2>1. j \in Nat /\ k \in Nat /\ j - k < ReplayWindow /\ k - j < ReplayWindow
    BY <1>1
  <2>2. CASE j <= k BY <2>1, <2>2, PositionInjective
  <2>3. CASE k <= j BY <2>1, <2>3, PositionInjective
  <2> QED BY <2>1, <2>2, <2>3
<1>3. bits = {Position(k) : k \in live \ {n}}
  BY <1>2
<1>4. stops \in SUBSET Nat /\ s.next \in stops
  BY <1>1
<1>5. Min(stops) \in stops /\ \A k \in stops : Min(stops) <= k
  BY <1>4, MinOfNaturals
<1>6. Release(s, n) = [s EXCEPT !.pending = bits, !.firstPending = Min(stops)]
  BY DEF Release
<1> HIDE DEF bits, stops
<1>7. /\ Release(s, n).next = s.next
      /\ Release(s, n).confirmedNext = s.confirmedNext
      /\ Release(s, n).firstPending = Min(stops)
      /\ Release(s, n).pending = bits
  BY <1>6
<1>8. /\ s.firstPending <= Min(stops) /\ Min(stops) <= s.next
      /\ Min(stops) \in Nat
      /\ Min(stops) = s.next \/ Position(Min(stops)) \in bits
  BY <1>5, <1>1 DEF stops
<1>9. \A k \in live \ {n} : Min(stops) <= k
  <2> SUFFICES ASSUME NEW k \in live \ {n} PROVE k \in stops
    BY <1>5
  <2>1. Position(k) \in bits BY <1>3
  <2> QED BY <2>1, <1>1 DEF stops
<1>10. Min(stops) < s.next => Min(stops) \in live \ {n}
  <2> SUFFICES ASSUME Min(stops) < s.next PROVE Min(stops) \in live \ {n}
    OBVIOUS
  <2>1. Position(Min(stops)) \in bits BY <1>8, <1>1
  <2>2. PICK k \in live \ {n} : Position(k) = Position(Min(stops))
    BY <2>1, <1>3
  <2>3. Min(stops) <= k /\ k \in Nat /\ k < s.next BY <1>9, <1>1
  <2>4. k - Min(stops) < ReplayWindow BY <2>3, <1>8, <1>1
  <2>5. Min(stops) = k BY <2>2, <2>3, <2>4, <1>8, PositionInjective
  <2> QED BY <2>5
<1>11. bits \in SUBSET (0 .. ReplayWindow - 1) BY DEF bits
<1>12. Min(stops) \in 0 .. MaxNumber BY <1>8, <1>1
<1>13. Release(s, n) \in StartsType
  BY <1>6, <1>11, <1>12, ZenonT(60)
<1> QED BY <1>3, <1>7, <1>8, <1>9, <1>10, <1>13

\* allocate() answers "Ok" only when both windows have room.
LEMMA AllocateOk ==
  ASSUME WindowInv, AllocateResult(starts) = "Ok"
  PROVE  /\ starts.next < MaxNumber
         /\ starts.next - starts.confirmedNext < ReplayWindow
         /\ starts.next - starts.firstPending < ReplayWindow
BY MaxNumberAssumption, ReplayWindowAssumption
   DEF AllocateResult, WindowInv, WindowTypeOK, ClientWindow

\* The window that allocate() leaves has its new number as one more owner.
LEMMA AllocateWindow ==
  ASSUME WindowInv, AllocateResult(starts) = "Ok"
  PROVE  LET s == Allocate(starts)
             live == owners \cup {starts.next}
         IN  /\ s \in StartsType
             /\ live \in SUBSET Numbers
             /\ s.next = starts.next + 1
             /\ s.firstPending = starts.firstPending
             /\ s.confirmedNext = starts.confirmedNext
             /\ s.firstPending <= s.next
             /\ s.next - s.firstPending <= ReplayWindow
             /\ s.next - s.confirmedNext <= ReplayWindow
             /\ \A k \in live : s.firstPending <= k /\ k < s.next
             /\ s.firstPending < s.next => s.firstPending \in live
             /\ s.pending = {Position(k) : k \in live}
<1> USE MaxNumberAssumption, ReplayWindowAssumption
<1> DEFINE s == Allocate(starts)
           live == owners \cup {starts.next}
<1>1. /\ starts.next < MaxNumber
      /\ starts.next - starts.confirmedNext < ReplayWindow
      /\ starts.next - starts.firstPending < ReplayWindow
  BY AllocateOk
<1>2. /\ starts.next \in Nat /\ starts.firstPending \in Nat
      /\ starts.confirmedNext \in Nat /\ starts.firstPending <= starts.next
  BY DEF WindowInv, WindowTypeOK, ClientWindow
<1>3. Position(starts.next) \in 0 .. ReplayWindow - 1
  BY <1>2, PositionType
<1>4. s.next = starts.next + 1 /\ s.firstPending = starts.firstPending
      /\ s.confirmedNext = starts.confirmedNext
      /\ s.pending = starts.pending \cup {Position(starts.next)}
  BY DEF Allocate, WindowInv, WindowTypeOK
<1>5. s \in StartsType
  <2>1. starts \in StartsType
    BY DEF WindowInv, WindowTypeOK
  <2>2. starts.next + 1 \in 0 .. MaxNumber BY <1>1, <1>2
  <2>3. starts.pending \cup {Position(starts.next)}
          \in SUBSET (0 .. ReplayWindow - 1)
    BY <2>1, <1>3
  <2> QED BY <2>1, <2>2, <2>3, ZenonT(60) DEF Allocate
<1>6. s.pending = {Position(k) : k \in live}
  BY <1>4 DEF WindowInv, ClientWindow
<1>7. live \in SUBSET Numbers
  <2>1. starts.next \in Numbers BY <1>1, <1>2
  <2> QED BY <2>1, ZenonT(60) DEF WindowInv, WindowTypeOK
<1>8. \A k \in live : starts.firstPending <= k /\ k < starts.next + 1
  BY <1>2 DEF WindowInv, WindowTypeOK, ClientWindow
<1>9. starts.firstPending < starts.next + 1 => starts.firstPending \in live
  BY <1>2 DEF WindowInv, ClientWindow
<1> HIDE DEF s, live
<1>10. /\ s.firstPending <= s.next
       /\ s.next - s.firstPending <= ReplayWindow
       /\ s.next - s.confirmedNext <= ReplayWindow
  BY <1>1, <1>2, <1>4
<1> QED BY <1>4, <1>5, <1>6, <1>7, <1>8, <1>9, <1>10 DEF s, live

\* What the server's window does to a number it has let through.
LEMMA AdmitWindow ==
  ASSUME WindowInv, NEW n \in sealed, WindowResult(server, n) = "Ok"
  PROVE  LET t == Admit(Spend(server), n)
             a == [admissions EXCEPT ![n] = @ + 1]
         IN  /\ t \in ServerType
             /\ t.open => t.remaining > 0
             /\ server.next <= t.next /\ t.next <= starts.next
             /\ \A k \in Numbers : a[k] <= 1 /\ (a[k] > 0 => k < t.next)
             /\ \A k \in Numbers :
                  k < t.next /\ t.next - k <= ReplayWindow =>
                    (Position(k) \in t.accepted <=> a[k] > 0)
<1> USE MaxNumberAssumption, ReplayWindowAssumption, MaxStartsAssumption
<1> DEFINE t == Admit(Spend(server), n)
           a == [admissions EXCEPT ![n] = @ + 1]
           cleared == {Position(k) : k \in server.next .. n}
<1>1. /\ n \in Numbers /\ n \in Nat /\ n < starts.next /\ server.next \in Nat
      /\ server.next <= starts.next /\ starts.next \in Nat
      /\ starts.next <= MaxNumber
  BY DEF WindowInv, WindowTypeOK, ClientWindow
<1>2. /\ server.open
      /\ n < server.next => /\ server.next - n <= ReplayWindow
                            /\ Position(n) \notin server.accepted
      /\ n >= server.next => n - server.next < ReplayWindow
  BY <1>1 DEF WindowResult, WindowInv, WindowTypeOK
<1>3. /\ t.next = IF n >= server.next THEN n + 1 ELSE server.next
      /\ t.accepted = (server.accepted \ cleared) \cup {Position(n)}
      /\ t.remaining = server.remaining - 1
      /\ t.open = (server.remaining > 1)
  BY DEF Admit, Spend, WindowInv, WindowTypeOK
<1>4. server.remaining \in 1 .. MaxStarts
  BY <1>2 DEF WindowInv, WindowTypeOK, ServerWindow
<1>5. admissions \in [Numbers -> Nat] /\ admissions[n] = 0
  <2>1. admissions \in [Numbers -> Nat] BY DEF WindowInv, WindowTypeOK
  <2>2. CASE n < server.next
    <3>1. admissions[n] \in Nat BY <1>1, <2>1
    <3>2. ~(admissions[n] > 0) BY <1>1, <1>2, <2>2 DEF WindowInv, ServerWindow
    <3> QED BY <2>1, <3>1, <3>2
  <2>3. CASE n >= server.next
    <3>1. admissions[n] \in Nat BY <1>1, <2>1
    <3>2. ~(admissions[n] > 0) BY <1>1, <2>3 DEF WindowInv, ServerWindow
    <3> QED BY <2>1, <3>1, <3>2
  <2> QED BY <1>1, <2>1, <2>2, <2>3
<1>6. a \in [Numbers -> Nat] /\ a[n] = 1
      /\ \A k \in Numbers \ {n} : a[k] = admissions[k]
  BY <1>1, <1>5
<1>7. Position(n) \in 0 .. ReplayWindow - 1
  BY <1>1, PositionType
<1>8. t \in ServerType
  <2>1. server \in ServerType
    BY DEF WindowInv, WindowTypeOK
  <2>2. (server.accepted \ cleared) \cup {Position(n)}
          \in SUBSET (0 .. ReplayWindow - 1)
    BY <2>1, <1>7
  <2>3. (IF n >= server.next THEN n + 1 ELSE server.next) \in 0 .. MaxNumber
    BY <1>1
  <2>4. server.remaining - 1 \in 0 .. MaxStarts BY <1>4
  <2>5. (server.remaining > 1) \in BOOLEAN OBVIOUS
  <2>6. t = [server EXCEPT
               !.remaining = server.remaining - 1,
               !.open = server.remaining > 1,
               !.next = IF n >= server.next THEN n + 1 ELSE server.next,
               !.accepted = (server.accepted \ cleared) \cup {Position(n)}]
    BY <2>1 DEF Admit, Spend
  <2> HIDE DEF t, cleared
  <2> QED BY <2>1, <2>2, <2>3, <2>4, <2>5, <2>6, ZenonT(60)
<1>9. ASSUME NEW k \in Numbers, k < t.next, t.next - k <= ReplayWindow
      PROVE  Position(k) \in t.accepted <=> a[k] > 0
  <2> HIDE DEF t, a
  <2>0. k \in Nat /\ t.next \in Nat BY <1>1, <1>3
  <2>1. CASE k = n
    BY <2>1, <1>3, <1>6
  <2>2. CASE k # n /\ k < server.next
    <3>1. /\ server.next - k <= ReplayWindow
          /\ k - n < ReplayWindow /\ n - k < ReplayWindow
      BY <2>0, <2>2, <1>1, <1>2, <1>3, <1>9
    <3>2. Position(k) # Position(n)
      BY <3>1, <2>0, <2>2, <1>1, PositionInjective
    <3>3. Position(k) \notin cleared
      <4> SUFFICES ASSUME NEW j \in server.next .. n, Position(j) = Position(k)
                   PROVE  FALSE
        OBVIOUS
      <4>1. j \in Nat /\ k <= j /\ k # j /\ j - k < ReplayWindow
        BY <2>0, <2>2, <1>1, <1>3, <1>9
      <4> QED BY <4>1, <2>0, PositionInjective
    <3>4. Position(k) \in t.accepted <=> Position(k) \in server.accepted
      BY <3>2, <3>3, <1>3
    <3>5. Position(k) \in server.accepted <=> admissions[k] > 0
      BY <3>1, <2>2 DEF WindowInv, ServerWindow
    <3> QED BY <3>4, <3>5, <2>2, <1>6
  <2>3. CASE k # n /\ k >= server.next
    <3>1. n > k /\ n - k < ReplayWindow
      BY <2>0, <2>3, <1>1, <1>2, <1>3, <1>9
    <3>2. Position(k) # Position(n)
      BY <3>1, <2>0, <2>3, <1>1, PositionInjective
    <3>3. k \in server.next .. n BY <3>1, <2>0, <2>3, <1>1
    <3>4. Position(k) \notin t.accepted BY <3>2, <3>3, <1>3
    <3>5. admissions[k] \in Nat /\ ~(admissions[k] > 0)
      BY <2>0, <2>3, <1>1, <1>5 DEF WindowInv, ServerWindow
    <3> QED BY <3>4, <3>5, <2>3, <1>6
  <2> QED BY <2>0, <2>1, <2>2, <2>3, <1>1
<1>10. \A k \in Numbers : a[k] <= 1 /\ (a[k] > 0 => k < t.next)
  BY <1>1, <1>3, <1>6 DEF WindowInv, ServerWindow
<1>11. server.next <= t.next /\ t.next <= starts.next
  BY <1>1, <1>3
<1>12. t.open => t.remaining > 0
  <2>1. t.open => server.remaining > 1 BY <1>3, ZenonT(60)
  <2> HIDE DEF t
  <2> QED BY <2>1, <1>3, <1>4
<1> QED BY <1>8, <1>9, <1>10, <1>11, <1>12

-----------------------------------------------------------------------------
\* A new pair of session ends: both windows are empty.
LEMMA InitWindowInv == WindowInit => WindowInv
<1> USE MaxNumberAssumption, ReplayWindowAssumption, MaxStartsAssumption
<1> SUFFICES ASSUME WindowInit PROVE WindowInv OBVIOUS
<1>1. WindowTypeOK BY DEF WindowInit, WindowTypeOK, InitStarts, InitServer
<1>2. ClientWindow BY DEF WindowInit, ClientWindow, InitStarts, InitServer
<1>3. ServerWindow BY DEF WindowInit, ServerWindow, InitServer
<1> QED BY <1>1, <1>2, <1>3 DEF WindowInv

\* A first response record moves confirmed_next up, to at most n + 1.
LEMMA ConfirmWindow ==
  ASSUME NEW s \in StartsType, NEW n \in Numbers
  PROVE  /\ Confirm(s, n) \in StartsType
         /\ Confirm(s, n).next = s.next
         /\ Confirm(s, n).firstPending = s.firstPending
         /\ Confirm(s, n).pending = s.pending
         /\ s.confirmedNext <= Confirm(s, n).confirmedNext
         /\ Confirm(s, n).confirmedNext \in {s.confirmedNext, n + 1}
<1>1. n + 1 \in 0 .. MaxNumber BY MaxNumberAssumption
<1>2. Confirm(s, n) =
        [s EXCEPT !.confirmedNext = IF s.confirmedNext < n + 1
                                      THEN n + 1 ELSE s.confirmedNext]
  BY DEF Confirm
<1> QED BY <1>1, <1>2, MaxNumberAssumption

\* A candidate that fails authentication costs one start and nothing else.
LEMMA SpendWindow ==
  ASSUME NEW s \in ServerType, s.remaining > 0
  PROVE  /\ Spend(s) \in ServerType
         /\ Spend(s).next = s.next
         /\ Spend(s).accepted = s.accepted
         /\ Spend(s).open => Spend(s).remaining > 0
<1> USE MaxStartsAssumption
<1>1. s.remaining - 1 \in 0 .. MaxStarts OBVIOUS
<1>2. (s.remaining > 1) \in BOOLEAN OBVIOUS
<1>3. Spend(s) = [s EXCEPT !.remaining = s.remaining - 1,
                           !.open = s.remaining > 1]
  BY DEF Spend
<1>4. Spend(s).open => s.remaining > 1 BY <1>3, ZenonT(60)
<1>5. Spend(s).remaining = s.remaining - 1 BY <1>3
<1>6. Spend(s) \in ServerType BY <1>1, <1>2, <1>3, ZenonT(60)
<1>7. s.remaining \in Nat OBVIOUS
<1>8. Spend(s).open => Spend(s).remaining > 0 BY <1>4, <1>5, <1>7
<1> QED BY <1>3, <1>6, <1>8

\* The fields of the two windows have their types, as one fact to cite.
LEMMA FieldTypes ==
  ASSUME WindowTypeOK
  PROVE  /\ starts.next \in Nat /\ starts.firstPending \in Nat
         /\ starts.confirmedNext \in Nat /\ starts.next <= MaxNumber
         /\ server.next \in Nat /\ server.next <= MaxNumber
         /\ owners \in SUBSET Nat /\ sealed \in SUBSET Nat
BY MaxNumberAssumption DEF WindowTypeOK

\* Every step preserves the invariant.
LEMMA NextWindowInv == WindowInv /\ [WindowNext]_window => WindowInv'
<1> USE MaxNumberAssumption, ReplayWindowAssumption, MaxStartsAssumption
<1> HIDE DEF StartsType, ServerType, Numbers
<1> SUFFICES ASSUME WindowInv, [WindowNext]_window PROVE WindowInv' OBVIOUS
<1>0. /\ starts.next \in Nat /\ starts.firstPending \in Nat
      /\ starts.confirmedNext \in Nat /\ starts.next <= MaxNumber
      /\ server.next \in Nat /\ server.next <= MaxNumber
      /\ owners \in SUBSET Nat /\ sealed \in SUBSET Nat
  BY FieldTypes DEF WindowInv
<1>1. CASE TakeNumber
  <2> DEFINE s == Allocate(starts)
             live == owners \cup {starts.next}
  <2>1. starts' = s /\ owners' = live /\ UNCHANGED <<server, admissions>>
    BY <1>1 DEF TakeNumber
  <2>2. /\ s \in StartsType
        /\ live \in SUBSET Numbers
        /\ s.next = starts.next + 1
        /\ s.firstPending = starts.firstPending
        /\ s.confirmedNext = starts.confirmedNext
        /\ s.firstPending <= s.next
        /\ s.next - s.firstPending <= ReplayWindow
        /\ s.next - s.confirmedNext <= ReplayWindow
        /\ \A k \in live : s.firstPending <= k /\ k < s.next
        /\ s.firstPending < s.next => s.firstPending \in live
        /\ s.pending = {Position(k) : k \in live}
    BY <1>1, AllocateWindow DEF TakeNumber
  <2>3. starts.next \in Numbers BY <2>2
  <2> HIDE DEF s, live
  <2>4. \A n \in sealed' : n < s.next
    <3> SUFFICES ASSUME NEW n \in sealed' PROVE n < s.next OBVIOUS
    <3>1. CASE n = starts.next BY <3>1, <2>2, <1>0
    <3>2. CASE n \in sealed
      <4>1. n \in Nat /\ n < starts.next
        BY <3>2, <1>0 DEF WindowInv, ClientWindow
      <4> QED BY <4>1, <2>2, <1>0
    <3> QED BY <3>1, <3>2, <1>1 DEF TakeNumber
  <2>5. ClientWindow'
    <3>1. server.next <= s.next BY <2>2, <1>0 DEF WindowInv, ClientWindow
    <3> QED BY <2>1, <2>2, <2>4, <3>1 DEF WindowInv, ClientWindow
  <2>6. ServerWindow'
    BY <2>1 DEF WindowInv, ServerWindow
  <2>7. WindowTypeOK'
    BY <1>1, <2>1, <2>2, <2>3 DEF TakeNumber, WindowInv, WindowTypeOK
  <2> QED BY <2>5, <2>6, <2>7 DEF WindowInv
<1>2. CASE TakeNumberFails
  <2> DEFINE s == Allocate(starts)
             live == owners \cup {starts.next}
  <2>1. /\ s \in StartsType
        /\ live \in SUBSET Numbers
        /\ s.next = starts.next + 1
        /\ s.firstPending = starts.firstPending
        /\ s.confirmedNext = starts.confirmedNext
        /\ s.firstPending <= s.next
        /\ s.next - s.firstPending <= ReplayWindow
        /\ s.next - s.confirmedNext <= ReplayWindow
        /\ \A k \in live : s.firstPending <= k /\ k < s.next
        /\ s.pending = {Position(k) : k \in live}
    BY <1>2, AllocateWindow DEF TakeNumberFails
  <2>2. live \ {starts.next} = owners
    BY <1>0 DEF WindowInv, ClientWindow
  <2>3. starts' = Release(s, starts.next) /\ starts.next \in live
    BY <1>2 DEF TakeNumberFails
  <2> HIDE DEF s, live
  <2>4. LET t == Release(s, starts.next)
        IN  /\ t \in StartsType
            /\ t.next = s.next
            /\ t.confirmedNext = s.confirmedNext
            /\ s.firstPending <= t.firstPending
            /\ t.firstPending <= s.next
            /\ \A k \in live \ {starts.next} : t.firstPending <= k
            /\ t.firstPending < s.next => t.firstPending \in live \ {starts.next}
            /\ t.pending = {Position(k) : k \in live \ {starts.next}}
    BY <2>1, <2>3, ReleaseFirstPending, ZenonT(60)
  <2>5. starts'.firstPending \in Nat BY <2>3, <2>4, FieldTypes DEF StartsType
  <2>6. ClientWindow'
    <3>1. /\ starts'.next = starts.next + 1
          /\ starts'.confirmedNext = starts.confirmedNext
          /\ starts.firstPending <= starts'.firstPending
          /\ starts'.firstPending <= starts'.next
          /\ \A k \in owners : starts'.firstPending <= k
          /\ starts'.firstPending < starts'.next => starts'.firstPending \in owners
          /\ starts'.pending = {Position(k) : k \in owners}
      BY <2>1, <2>2, <2>3, <2>4
    <3>2. /\ server.next <= starts'.next
          /\ starts'.next - starts'.firstPending <= ReplayWindow
          /\ starts'.next - starts'.confirmedNext <= ReplayWindow
      BY <3>1, <2>1, <2>5, <1>0 DEF WindowInv, ClientWindow
    <3>3. \A k \in owners : k < starts'.next
      BY <3>1, <1>0 DEF WindowInv, ClientWindow
    <3>4. \A k \in sealed : k < starts'.next
      <4> SUFFICES ASSUME NEW k \in sealed PROVE k < starts.next + 1
        BY <3>1
      <4>1. k \in Nat /\ k < starts.next
        BY DEF WindowInv, WindowTypeOK, ClientWindow, Numbers
      <4> QED BY <4>1, <1>0
    <3>5. UNCHANGED <<owners, sealed, server>> BY <1>2 DEF TakeNumberFails
    <3> QED BY <3>1, <3>2, <3>3, <3>4, <3>5 DEF WindowInv, ClientWindow
  <2>7. ServerWindow'
    BY <1>2 DEF TakeNumberFails, WindowInv, ServerWindow
  <2>8. WindowTypeOK'
    BY <1>2, <2>3, <2>4 DEF TakeNumberFails, WindowInv, WindowTypeOK
  <2> QED BY <2>6, <2>7, <2>8 DEF WindowInv
<1>3. CASE LeaveClient
  BY <1>3, ZenonT(60) DEF LeaveClient, WindowInv, WindowTypeOK, ClientWindow, ServerWindow
<1>4. CASE LeaveServer
  <2>1. /\ server' \in ServerType
        /\ server'.next = server.next /\ server'.accepted = server.accepted
        /\ ~server'.open
    BY <1>4, ZenonT(60) DEF LeaveServer, WindowInv, WindowTypeOK, ServerType
  <2> QED BY <1>4, <2>1 DEF LeaveServer, WindowInv, WindowTypeOK, ClientWindow, ServerWindow
<1>5. ASSUME NEW n \in Numbers, ConfirmNumber(n) PROVE WindowInv'
  <2>1. n \in Nat /\ n + 1 <= server.next
    BY <1>0, <1>5 DEF ConfirmNumber, WindowInv, WindowTypeOK, ServerWindow, Numbers
  <2>2. /\ starts' \in StartsType
        /\ starts'.next = starts.next
        /\ starts'.firstPending = starts.firstPending
        /\ starts'.pending = starts.pending
        /\ starts.confirmedNext <= starts'.confirmedNext
        /\ starts'.confirmedNext \in {starts.confirmedNext, n + 1}
    BY <1>5, ConfirmWindow, ZenonT(60) DEF ConfirmNumber, WindowInv, WindowTypeOK
  <2>3. ClientWindow'
    <3>1. /\ starts'.confirmedNext <= server.next
          /\ starts.next - starts'.confirmedNext <= ReplayWindow
      BY <1>0, <2>1, <2>2 DEF WindowInv, ClientWindow
    <3>2. UNCHANGED <<owners, sealed, server>> BY <1>5 DEF ConfirmNumber
    <3> QED BY <2>2, <3>1, <3>2 DEF WindowInv, ClientWindow
  <2>4. ServerWindow'
    BY <1>5 DEF ConfirmNumber, WindowInv, ServerWindow
  <2>5. WindowTypeOK'
    BY <1>5, <2>2 DEF ConfirmNumber, WindowInv, WindowTypeOK
  <2> QED BY <2>3, <2>4, <2>5 DEF WindowInv
<1>6. ASSUME NEW n \in Numbers, DropNumber(n) PROVE WindowInv'
  <2>1. /\ n \in owners /\ starts' = Release(starts, n) /\ owners' = owners \ {n}
        /\ UNCHANGED <<started, sealed, clientOpen, server, admissions>>
    BY <1>6 DEF DropNumber
  <2>2. /\ Release(starts, n) \in StartsType
        /\ Release(starts, n).next = starts.next
        /\ Release(starts, n).confirmedNext = starts.confirmedNext
        /\ starts.firstPending <= Release(starts, n).firstPending
        /\ Release(starts, n).firstPending <= starts.next
        /\ \A k \in owners \ {n} : Release(starts, n).firstPending <= k
        /\ Release(starts, n).firstPending < starts.next =>
             Release(starts, n).firstPending \in owners \ {n}
        /\ Release(starts, n).pending = {Position(k) : k \in owners \ {n}}
    <3>1. /\ starts \in StartsType /\ owners \in SUBSET Numbers
          /\ starts.firstPending <= starts.next
          /\ starts.next - starts.firstPending <= ReplayWindow
          /\ \A k \in owners : starts.firstPending <= k /\ k < starts.next
          /\ starts.pending = {Position(k) : k \in owners}
      BY DEF WindowInv, WindowTypeOK, ClientWindow
    <3> QED BY <2>1, <3>1, ReleaseFirstPending, ZenonT(60)
  <2>3. starts'.firstPending \in Nat BY <2>1, <2>2 DEF StartsType
  <2>4. ClientWindow'
    <3>1. starts.next - starts'.firstPending <= ReplayWindow
      BY <1>0, <2>1, <2>2, <2>3 DEF WindowInv, ClientWindow
    <3> QED BY <2>1, <2>2, <3>1 DEF WindowInv, ClientWindow
  <2>5. ServerWindow'
    BY <2>1 DEF WindowInv, ServerWindow
  <2>6. WindowTypeOK'
    BY <2>1, <2>2 DEF WindowInv, WindowTypeOK
  <2> QED BY <2>4, <2>5, <2>6 DEF WindowInv
<1>7. ASSUME NEW n \in Numbers, AdmitNumber(n) PROVE WindowInv'
  <2>1. /\ server' \in ServerType
        /\ server.next <= server'.next /\ server'.next <= starts.next
        /\ ServerWindow'
    BY <1>7, AdmitWindow DEF AdmitNumber, ServerWindow
  <2>2. server'.next \in Nat BY <2>1 DEF ServerType
  <2>3. starts.confirmedNext <= server'.next
    BY <1>0, <2>1, <2>2 DEF WindowInv, ClientWindow
  <2>4. ClientWindow'
    BY <1>7, <2>1, <2>3 DEF AdmitNumber, WindowInv, ClientWindow
  <2>5. admissions' \in [Numbers -> Nat]
    BY <1>7 DEF AdmitNumber, WindowInv, WindowTypeOK
  <2>6. WindowTypeOK'
    BY <1>7, <2>1, <2>5 DEF AdmitNumber, WindowInv, WindowTypeOK
  <2> QED BY <2>1, <2>4, <2>6 DEF WindowInv
<1>8. ASSUME NEW n \in Numbers, TurnAwayNumber(n) PROVE WindowInv'
  <2>1. server.open
    BY <1>8 DEF TurnAwayNumber, WindowResult
  <2>2. server \in ServerType /\ server.remaining > 0
    BY <2>1 DEF WindowInv, WindowTypeOK, ServerWindow
  <2>3. server' = Spend(server) BY <1>8 DEF TurnAwayNumber
  <2>4. /\ server' \in ServerType
        /\ server'.next = server.next /\ server'.accepted = server.accepted
        /\ server'.open => server'.remaining > 0
    BY <2>2, <2>3, SpendWindow, ZenonT(60)
  <2> QED BY <1>8, <2>4
          DEF TurnAwayNumber, WindowInv, WindowTypeOK, ClientWindow, ServerWindow
<1>9. CASE UNCHANGED window
  BY <1>9 DEF window, WindowInv, WindowTypeOK, ClientWindow, ServerWindow
<1> QED BY <1>1, <1>2, <1>3, <1>4, <1>5, <1>6, <1>7, <1>8, <1>9 DEF WindowNext

\* The inductive invariant holds in every reachable state.
LEMMA Invariant == WindowSpec => []WindowInv
BY InitWindowInv, NextWindowInv, PTL DEF WindowSpec

-----------------------------------------------------------------------------
(* What the invariant gives.                                               *)

\* The types of the two windows hold for every window size: in particular
\* accept_start's budget never goes below zero and no number reaches MaxNumber.
THEOREM TypeCorrect == WindowSpec => []WindowTypeOK
BY Invariant, PTL DEF WindowInv

\* ServerSession::accept_start admits no request number twice, however often
\* and in whatever order the network delivers it.
THEOREM AdmittedOnce == WindowSpec => []NoStartAdmittedTwice
<1>1. WindowInv => NoStartAdmittedTwice
  BY DEF WindowInv, ServerWindow, NoStartAdmittedTwice
<1> QED BY <1>1, Invariant, PTL

\* The bounds Starts::allocate keeps are enough for every waiting request to
\* pass the server's window, whatever the other requests have done.
THEOREM LiveStartsPass == WindowSpec => []LiveStartsAdmissible
<1>1. WindowInv => LiveStartsAdmissible
  <2> SUFFICES ASSUME WindowInv, NEW n \in owners, server.open, admissions[n] = 0
               PROVE  WindowResult(server, n) = "Ok"
    BY DEF LiveStartsAdmissible
  <2> USE MaxNumberAssumption, ReplayWindowAssumption
  <2>1. /\ starts.next \in Nat /\ starts.firstPending \in Nat
        /\ starts.confirmedNext \in Nat /\ starts.next <= MaxNumber
        /\ server.next \in Nat /\ n \in Nat /\ n \in Numbers
    BY FieldTypes DEF WindowInv, WindowTypeOK
  <2>2. starts.firstPending <= n /\ n < starts.next
    BY DEF WindowInv, ClientWindow
  <2>3. CASE n < server.next
    <3>1. server.next - n <= ReplayWindow
      BY <2>1, <2>2 DEF WindowInv, ClientWindow
    <3>2. Position(n) \notin server.accepted
      BY <3>1, <2>1, <2>3 DEF WindowInv, ServerWindow
    <3> QED BY <3>1, <3>2, <2>1, <2>3 DEF WindowResult
  <2>4. CASE n >= server.next
    <3>1. n - server.next < ReplayWindow /\ n # MaxNumber
      BY <2>1, <2>2 DEF WindowInv, ClientWindow
    <3> QED BY <3>1, <2>1, <2>4 DEF WindowResult
  <2> QED BY <2>1, <2>3, <2>4
<1> QED BY <1>1, Invariant, PTL

\* Starts::release, in any order of completions and cancellations, keeps the
\* bitmap equal to the set of live owners.
THEOREM PendingExact == WindowSpec => []PendingBitmapExact
<1>1. WindowInv => PendingBitmapExact
  <2> SUFFICES ASSUME WindowInv PROVE PendingBitmapExact OBVIOUS
  <2> USE MaxNumberAssumption, ReplayWindowAssumption
  <2>1. /\ starts.next \in Nat /\ starts.firstPending \in Nat
        /\ owners \in SUBSET Nat
    BY FieldTypes DEF WindowInv
  <2>2. \A n \in owners : starts.firstPending <= n /\ n < starts.next
    BY DEF WindowInv, ClientWindow
  <2>3. /\ starts.next - starts.firstPending <= ReplayWindow
        /\ starts.firstPending <= starts.next
        /\ starts.firstPending < starts.next => starts.firstPending \in owners
        /\ starts.pending = {Position(n) : n \in owners}
    BY DEF WindowInv, ClientWindow
  <2>4. ASSUME NEW m \in owners, NEW n \in owners, Position(m) = Position(n)
        PROVE  m = n
    <3>1. m \in Nat /\ n \in Nat /\ m - n < ReplayWindow /\ n - m < ReplayWindow
      BY <2>1, <2>2, <2>3
    <3>2. CASE m <= n BY <3>1, <3>2, <2>4, PositionInjective
    <3>3. CASE n <= m BY <3>1, <3>3, <2>4, PositionInjective
    <3> QED BY <3>1, <3>2, <3>3
  <2>5. starts.firstPending = Min(owners \cup {starts.next})
    <3> DEFINE all == owners \cup {starts.next}
    <3>1. all \in SUBSET Nat /\ all # {} BY <2>1, ZenonT(60)
    <3>2. Min(all) \in all /\ \A k \in all : Min(all) <= k
      BY <3>1, MinOfNaturals
    <3>3. starts.firstPending \in all BY <2>1, <2>3
    <3>4. \A k \in all : starts.firstPending <= k BY <2>1, <2>2, <2>3
    <3> HIDE DEF all
    <3>5. Min(all) \in Nat /\ Min(all) <= starts.firstPending
      BY <3>1, <3>2, <3>3, ZenonT(60)
    <3>6. starts.firstPending <= Min(all) BY <3>2, <3>4
    <3>7. starts.firstPending = Min(all) BY <2>1, <3>5, <3>6
    <3> QED BY <3>7 DEF all
  <2> QED BY <2>3, <2>4, <2>5 DEF PendingBitmapExact
<1> QED BY <1>1, Invariant, PTL

\* A caller told "Pending" by Starts::allocate always has an owner to wait for.
THEOREM PendingCanEnd == WindowSpec => []PendingHasOwner
<1>1. WindowInv => PendingHasOwner
  <2> SUFFICES ASSUME WindowInv, AllocateResult(starts) = "Pending"
               PROVE  starts.firstPending \in owners
    BY DEF PendingHasOwner
  <2> USE MaxNumberAssumption, ReplayWindowAssumption
  <2>1. /\ starts.next \in Nat /\ starts.firstPending \in Nat
        /\ starts.confirmedNext \in Nat
    BY FieldTypes DEF WindowInv
  <2>2. starts.firstPending # starts.next
    BY <2>1 DEF AllocateResult
  <2> QED BY <2>1, <2>2 DEF WindowInv, ClientWindow
<1> QED BY <1>1, Invariant, PTL

\* Responses never confirm more than the server has admitted.
THEOREM ConfirmedAdmitted == WindowSpec => []ConfirmedIsAdmitted
<1>1. WindowInv => ConfirmedIsAdmitted
  BY DEF WindowInv, ClientWindow, ConfirmedIsAdmitted
<1> QED BY <1>1, Invariant, PTL

\* Once Starts::allocate has answered "Limit" it answers nothing else.
THEOREM LimitFinal == WindowSpec => LimitIsFinal
<1>1. ASSUME WindowInv, [WindowNext]_window, AllocateResult(starts) = "Limit"
      PROVE  AllocateResult(starts') = "Limit"
  <2> USE MaxNumberAssumption, ReplayWindowAssumption
  <2>1. /\ starts.next \in Nat /\ starts.firstPending \in Nat
        /\ starts.confirmedNext \in Nat
    BY <1>1, FieldTypes DEF WindowInv
  <2>2. starts.next = MaxNumber \/ starts.firstPending = starts.next
    BY <1>1, <2>1 DEF AllocateResult
  <2>3. ~TakeNumber /\ ~TakeNumberFails
    BY <1>1 DEF TakeNumber, TakeNumberFails
  <2>4. CASE starts' = starts
    BY <1>1, <2>4
  <2>5. ASSUME starts' # starts PROVE AllocateResult(starts') = "Limit"
    <3>1. PICK n \in Numbers : ConfirmNumber(n) \/ DropNumber(n)
      BY <1>1, <2>3, <2>5
         DEF WindowNext, window, LeaveClient, LeaveServer, AdmitNumber, TurnAwayNumber
    <3>2. n \in owners /\ (starts' = Confirm(starts, n) \/ starts' = Release(starts, n))
      BY <3>1 DEF ConfirmNumber, DropNumber
    <3>3. starts.firstPending < starts.next
      BY <3>2, <2>1, <1>1, FieldTypes DEF WindowInv, ClientWindow
    <3>4. starts.next = MaxNumber BY <2>1, <2>2, <3>3
    <3>5. starts'.next = starts.next
      BY <3>2, <1>1, ZenonT(60) DEF Confirm, Release, WindowInv, WindowTypeOK
    <3> QED BY <3>4, <3>5 DEF AllocateResult
  <2> QED BY <2>4, <2>5
<1>2. WindowInv /\ [WindowNext]_window =>
        [AllocateResult(starts) = "Limit" => AllocateResult(starts') = "Limit"]_window
  BY <1>1
<1> QED BY <1>2, Invariant, PTL DEF WindowSpec, LimitIsFinal

-----------------------------------------------------------------------------
(* The session.                                                            *)

\* Every step of the session is a step of the two windows or leaves them be.
LEMMA WindowStep == [Next]_vars => [WindowNext]_window
<1> SUFFICES ASSUME [Next]_vars PROVE [WindowNext]_window
  OBVIOUS
<1>1. CASE Request BY <1>1 DEF Request, WindowNext
<1>2. CASE RequestFails BY <1>2 DEF RequestFails, WindowNext
<1>3. CASE CloseClient BY <1>3 DEF CloseClient, WindowNext
<1>4. CASE CloseServer BY <1>4 DEF CloseServer, WindowNext
<1>5. ASSUME NEW n \in Numbers, StartResponse(n)
      PROVE  [WindowNext]_window
  BY <1>5 DEF StartResponse, WindowNext
<1>6. ASSUME NEW n \in Numbers, ReleaseStart(n)
      PROVE  [WindowNext]_window
  BY <1>6 DEF ReleaseStart, WindowNext
<1>7. ASSUME NEW n \in Numbers, NEW now \in Times, AcceptStart(n, now)
      PROVE  [WindowNext]_window
  BY <1>7 DEF AcceptStart, WindowNext
<1>8. ASSUME NEW n \in Numbers, NEW now \in Times, RejectStart(n, now)
      PROVE  [WindowNext]_window
  BY <1>8 DEF RejectStart, WindowNext
<1>9. ASSUME NEW n \in Numbers, NEW now \in Times, RefuseStart(n, now)
      PROVE  [WindowNext]_window
  BY <1>9 DEF RefuseStart, WindowNext
<1>10. ASSUME NEW now \in Times, ExpireServer(now)
       PROVE  [WindowNext]_window
  BY <1>10 DEF ExpireServer, window
<1>11. CASE UNCHANGED vars BY <1>11 DEF vars, window
<1> QED BY <1>1, <1>2, <1>3, <1>4, <1>5, <1>6, <1>7, <1>8, <1>9, <1>10, <1>11
        DEF Next

\* The session with its ratchets implements the two windows.
THEOREM ImplementsWindow == Spec => WindowSpec
<1>1. Init => WindowInit
  BY DEF Init
<1> QED BY <1>1, WindowStep, PTL DEF Spec, WindowSpec

\* What the two windows promise, they keep with the ratchets in place.
THEOREM WindowsAgree == Spec => []WindowsHold
<1>1. NoStartAdmittedTwice /\ LiveStartsAdmissible /\ PendingBitmapExact => WindowsHold
  BY DEF WindowsHold
<1> QED BY <1>1, ImplementsWindow, AdmittedOnce, LiveStartsPass, PendingExact, PTL

-----------------------------------------------------------------------------
(* The ratchets.  Their invariant is about secrets alone: whatever a       *)
(* header says, a record opens only under its own secret, and the server   *)
(* has no way left to a secret that it has used.                           *)

Roots == Seq(Nat \X Nat)
Ciphers == {"Alice", "Bob", "Root"} \X Roots
Turns == Nat \X Nat
Secrets == Roots \X Nat
SendChain == [root : Roots, count : Nat, cipher : Ciphers, public : Nat, previous : Nat]
ReceiveChain == [root : Roots, count : Nat, cipher : Ciphers, turn : Turns, epoch : Nat]
SendChains == SendChain \cup {NoChain}
ReceiveChains == ReceiveChain \cup {NoChain}
Key == [epoch : Nat, cipher : Ciphers, turn : Turns, number : Nat, secret : Secrets,
        expires : Nat]
Keys == Seq(Key)
Message == [cipher : Ciphers, public : Nat, previous : Nat, number : Nat, secret : Secrets]
PeerType ==
  [client : BOOLEAN, keys : Nat, local : Nat, remote : Nat, root : Roots,
   send : SendChains, receive : ReceiveChains, nextSend : Ciphers,
   nextReceive : Ciphers, previousSent : Nat, skipped : Keys, lastNow : Nat]

\* The larger of two integers.
LEMMA MaxOfTwo ==
  ASSUME NEW a \in Int, NEW b \in Int
  PROVE  /\ Max({a, b}) \in {a, b} /\ a <= Max({a, b}) /\ b <= Max({a, b})
<1>1. \E x \in {a, b} : \A y \in {a, b} : x >= y
  <2>1. CASE a <= b BY <2>1
  <2>2. CASE b <= a BY <2>2
  <2> QED BY <2>1, <2>2
<1>2. Max({a, b}) \in {a, b} /\ \A y \in {a, b} : Max({a, b}) >= y
  BY <1>1 DEF Max
<1> QED BY <1>2

\* A chain that there is has the fields of one.
LEMMA Chains ==
  ASSUME NEW p \in PeerType
  PROVE  /\ ~IsNone(p.send) => p.send \in SendChain
         /\ ~IsNone(p.receive) => p.receive \in ReceiveChain
BY DEF PeerType, SendChains, ReceiveChains, IsNone, NoChain

\* Active::advance makes a root that is longer by one agreement.
LEMMA AdvanceFacts ==
  ASSUME NEW p \in PeerType, NEW a \in Nat, NEW b \in Nat
  PROVE  /\ Advance(p, a, b) \in Roots
         /\ Len(Advance(p, a, b)) = Len(p.root) + 1
         /\ Advance(p, a, b) # <<>>
         /\ CipherOf(Advance(p, a, b)) \in Ciphers
<1>1. p.root \in Roots BY DEF PeerType
<1> DEFINE x == IF p.client THEN <<a, b>> ELSE <<b, a>>
<1>2. x \in Nat \X Nat OBVIOUS
<1> HIDE DEF x
<1>3. Append(p.root, x) \in Roots /\ Len(Append(p.root, x)) = Len(p.root) + 1
      /\ Len(p.root) \in Nat
  BY <1>1, <1>2 DEF Roots
<1>4. Advance(p, a, b) = Append(p.root, x) BY DEF Advance, x
<1>5. Append(p.root, x) # <<>>
  <2>1. Len(<<>>) = 0 OBVIOUS
  <2>2. Len(Append(p.root, x)) # 0 BY <1>3
  <2> QED BY <2>1, <2>2, ZenonT(30)
<1> QED BY <1>3, <1>4, <1>5, ZenonT(30) DEF CipherOf, Ciphers

\* Peer::send keeps what the ratchet has received, and its root only grows.
LEMMA SendFacts ==
  ASSUME NEW p \in PeerType, CanSend(p)
  PROVE  /\ AfterSend(p) \in PeerType
         /\ SealedStart(p) \in Message
         /\ AfterSend(p).client = p.client /\ AfterSend(p).skipped = p.skipped
         /\ AfterSend(p).receive = p.receive /\ AfterSend(p).lastNow = p.lastNow
         /\ Len(AfterSend(p).root) >= Len(p.root)
<1> DEFINE q == Sending(p)
<1>1. /\ q \in PeerType /\ q.send \in SendChain
      /\ q.client = p.client /\ q.skipped = p.skipped /\ q.receive = p.receive
      /\ q.lastNow = p.lastNow /\ Len(q.root) >= Len(p.root)
  <2>1. CASE IsNone(p.send)
    <3> DEFINE local == p.keys + 1
               root == Advance(p, local, p.remote)
               chain == [root |-> root, count |-> 0, cipher |-> p.nextSend,
                         public |-> local, previous |-> p.previousSent]
    <3>1. local \in Nat /\ p.remote \in Nat /\ p.nextSend \in Ciphers
          /\ p.previousSent \in Nat /\ Len(p.root) \in Nat
      BY DEF PeerType, Roots
    <3>2. root \in Roots /\ Len(root) = Len(p.root) + 1 /\ CipherOf(root) \in Ciphers
      BY <3>1, AdvanceFacts
    <3> HIDE DEF local, root
    <3>3. chain \in SendChain /\ chain \in SendChains BY <3>1, <3>2 DEF SendChain, SendChains
    <3> HIDE DEF chain
    <3>4. q = [p EXCEPT !.keys = local, !.local = local, !.root = root,
                        !.nextSend = CipherOf(root), !.send = chain]
      BY <2>1 DEF Sending, OpenTurn, OpenTurnAfter, local, root, chain
    <3> HIDE DEF q
    <3>5. q \in PeerType BY <3>1, <3>2, <3>3, <3>4, ZenonT(30) DEF PeerType
    <3>6. /\ q.client = p.client /\ q.skipped = p.skipped /\ q.receive = p.receive
          /\ q.lastNow = p.lastNow /\ q.root = root /\ q.send = chain
      BY <3>4 DEF PeerType
    <3> QED BY <3>1, <3>2, <3>3, <3>5, <3>6
  <2>2. CASE ~IsNone(p.send)
    <3>1. q = p BY <2>2 DEF Sending
    <3> QED BY <2>2, <3>1, Chains DEF PeerType, Roots
  <2> QED BY <2>1, <2>2
<1> HIDE DEF q
<1> DEFINE chain == [q.send EXCEPT !.count = q.send.count + 1]
<1>2. chain \in SendChain BY <1>1 DEF SendChain
<1>3. chain \in SendChains BY <1>2 DEF SendChains
<1> HIDE DEF chain
<1>4. AfterSend(p) = [q EXCEPT !.send = chain]
  BY <1>1 DEF AfterSend, q, chain, PeerType
<1>5. SealedStart(p) \in Message
  <2>1. <<q.send.root, q.send.count>> \in Secrets BY <1>1 DEF SendChain, Secrets
  <2> QED BY <1>1, <2>1 DEF SealedStart, q, Message, SendChain
<1> QED BY <1>1, <1>3, <1>4, <1>5 DEF PeerType

-----------------------------------------------------------------------------
(* The store of skipped keys.                                              *)

\* Every key of sequence new is one of sequence old, in the same order.
Embeds(new, old) ==
  \E f \in [1 .. Len(new) -> 1 .. Len(old)] :
    /\ \A i \in 1 .. Len(new) : new[i] = old[f[i]]
    /\ \A i, j \in 1 .. Len(new) : i < j => f[i] < f[j]

\* Every key the server holds is alive, and the older ones die first.
Ordered(keys, now) ==
  /\ \A i \in 1 .. Len(keys) :
       now < keys[i].expires /\ keys[i].expires <= now + KeyLifetime
  /\ \A i, j \in 1 .. Len(keys) : i <= j => keys[i].expires <= keys[j].expires

\* The ratchet p has gone past secret s: it belongs to an earlier root, or to a message
\* of the chain being received that has been passed.
Passed(s, p) ==
  /\ Len(s[1]) <= Len(p.root)
  /\ ~IsNone(p.receive) /\ s[1] = p.receive.root => s[2] < p.receive.count

\* The ratchet p has passed all used secrets and holds none of them; and the keys it
\* holds are all different and have been passed as well.
Fresh(p, used) ==
  /\ ~IsNone(p.receive) => Len(p.receive.root) <= Len(p.root)
  /\ \A s \in used : Passed(s, p)
  /\ \A i \in 1 .. Len(p.skipped) :
       Passed(p.skipped[i].secret, p) /\ p.skipped[i].secret \notin used
  /\ \A i, j \in 1 .. Len(p.skipped) :
       p.skipped[i].secret = p.skipped[j].secret => i = j

\* Fewer keys are in order, and as fresh.
LEMMA FewerOrdered ==
  ASSUME NEW new \in Keys, NEW old \in Keys, Embeds(new, old), NEW now \in Nat,
         Ordered(old, now)
  PROVE  Ordered(new, now)
<1>1. PICK f \in [1 .. Len(new) -> 1 .. Len(old)] :
        /\ \A i \in 1 .. Len(new) : new[i] = old[f[i]]
        /\ \A i, j \in 1 .. Len(new) : i < j => f[i] < f[j]
  BY DEF Embeds
<1>2. Len(new) \in Nat /\ Len(old) \in Nat BY DEF Keys
<1>3. ASSUME NEW i \in 1 .. Len(new), NEW j \in 1 .. Len(new), i <= j
      PROVE  new[i].expires <= new[j].expires
  <2>1. f[i] <= f[j] /\ f[i] \in 1 .. Len(old) /\ f[j] \in 1 .. Len(old)
    BY <1>1, <1>2, <1>3
  <2> QED BY <1>1, <2>1 DEF Ordered
<1>4. ASSUME NEW i \in 1 .. Len(new)
      PROVE  now < new[i].expires /\ new[i].expires <= now + KeyLifetime
  BY <1>1 DEF Ordered
<1> QED BY <1>3, <1>4 DEF Ordered

\* A ratchet that forgot keys, and whose root may have grown, is as fresh.
LEMMA FewerFresh ==
  ASSUME NEW p \in PeerType, NEW q \in PeerType, NEW used \in SUBSET Secrets, Fresh(p, used),
         Embeds(q.skipped, p.skipped), q.receive = p.receive, Len(q.root) >= Len(p.root)
  PROVE  Fresh(q, used)
<1> DEFINE new == q.skipped
           old == p.skipped
<1>1. PICK f \in [1 .. Len(new) -> 1 .. Len(old)] :
        /\ \A i \in 1 .. Len(new) : new[i] = old[f[i]]
        /\ \A i, j \in 1 .. Len(new) : i < j => f[i] < f[j]
  BY DEF Embeds
<1>2. /\ new \in Keys /\ old \in Keys /\ p.root \in Roots /\ q.root \in Roots
      /\ Len(new) \in Nat /\ Len(old) \in Nat /\ Len(p.root) \in Nat /\ Len(q.root) \in Nat
  BY DEF PeerType, Keys, Roots
<1>3. ASSUME NEW s \in Secrets, Passed(s, p)
      PROVE  Passed(s, q)
  <2>1. Len(s[1]) \in Nat BY DEF Secrets, Roots
  <2> QED BY <1>2, <1>3, <2>1 DEF Passed
<1>4. \A k \in Key : k.secret \in Secrets BY DEF Key
<1>5. ASSUME NEW i \in 1 .. Len(new)
      PROVE  Passed(new[i].secret, q) /\ new[i].secret \notin used
  <2>1. /\ f[i] \in 1 .. Len(old) /\ new[i] = old[f[i]] BY <1>1
  <2>2. old[f[i]] \in Key BY <1>2, <2>1 DEF Keys
  <2>3. Passed(old[f[i]].secret, p) /\ old[f[i]].secret \notin used
    BY <2>1 DEF Fresh
  <2> QED BY <1>3, <1>4, <2>1, <2>2, <2>3
<1>6. ASSUME NEW i \in 1 .. Len(new), NEW j \in 1 .. Len(new), new[i].secret = new[j].secret
      PROVE  i = j
  <2>1. f[i] \in 1 .. Len(old) /\ f[j] \in 1 .. Len(old)
        /\ old[f[i]].secret = old[f[j]].secret
    BY <1>1, <1>6, ZenonT(30)
  <2>2. f[i] = f[j] BY <2>1 DEF Fresh
  <2> QED BY <1>1, <1>2, <2>1, <2>2
<1>7. ~IsNone(q.receive) => Len(q.receive.root) <= Len(q.root)
  <2> SUFFICES ASSUME ~IsNone(p.receive) PROVE Len(p.receive.root) <= Len(q.root) OBVIOUS
  <2>1. Len(p.receive.root) \in Nat BY Chains DEF ReceiveChain, Roots
  <2> QED BY <1>2, <2>1 DEF Fresh
<1>8. \A s \in used : Passed(s, q) BY <1>3 DEF Fresh
<1> QED BY <1>5, <1>6, <1>7, <1>8 DEF Fresh

\* A store without its first keys.
LEMMA SuffixEmbeds ==
  ASSUME NEW old \in Keys, NEW d \in Nat, d <= Len(old)
  PROVE  /\ SubSeq(old, d + 1, Len(old)) \in Keys
         /\ Len(SubSeq(old, d + 1, Len(old))) = Len(old) - d
         /\ \A i \in 1 .. Len(old) - d : SubSeq(old, d + 1, Len(old))[i] = old[i + d]
         /\ Embeds(SubSeq(old, d + 1, Len(old)), old)
<1> DEFINE new == SubSeq(old, d + 1, Len(old))
<1>1. Len(old) \in Nat BY DEF Keys
<1>2. new \in Keys /\ Len(new) = Len(old) - d BY <1>1 DEF Keys
<1>3. \A i \in 1 .. Len(old) - d : new[i] = old[i + d] BY <1>1 DEF Keys
<1> HIDE DEF new
<1>4. [i \in 1 .. Len(new) |-> i + d] \in [1 .. Len(new) -> 1 .. Len(old)]
  BY <1>1, <1>2
<1>5. Embeds(new, old)
  <2> DEFINE f == [i \in 1 .. Len(new) |-> i + d]
  <2>1. \A i \in 1 .. Len(new) : new[i] = old[f[i]] BY <1>1, <1>2, <1>3
  <2>2. \A i, j \in 1 .. Len(new) : i < j => f[i] < f[j] BY <1>1, <1>2
  <2> QED BY <1>4, <2>1, <2>2, ZenonT(30) DEF Embeds
<1> QED BY <1>2, <1>3, <1>5 DEF new

\* A store without the key at i, as Peer::remove leaves it.
LEMMA WithoutEmbeds ==
  ASSUME NEW old \in Keys, NEW i \in 1 .. Len(old)
  PROVE  /\ Without(old, i) \in Keys
         /\ Len(Without(old, i)) = Len(old) - 1
         /\ \E f \in [1 .. Len(Without(old, i)) -> (1 .. Len(old)) \ {i}] :
              /\ \A j \in 1 .. Len(Without(old, i)) : Without(old, i)[j] = old[f[j]]
              /\ \A j, k \in 1 .. Len(Without(old, i)) : j < k => f[j] < f[k]
<1> DEFINE a == SubSeq(old, 1, i - 1)
           b == SubSeq(old, i + 1, Len(old))
           n == Len(old)
<1>1. n \in Nat /\ i \in Nat /\ 1 <= i /\ i <= n BY DEF Keys
<1>2. a \in Seq(Key) /\ Len(a) = i - 1 /\ \A j \in 1 .. i - 1 : a[j] = old[j]
  BY <1>1 DEF Keys
<1>3. b \in Seq(Key) /\ Len(b) = n - i /\ \A j \in 1 .. n - i : b[j] = old[j + i]
  BY <1>1 DEF Keys
<1> HIDE DEF a, b
<1> DEFINE new == a \o b
<1>4. new \in Seq(Key) /\ Len(new) = n - 1
  <2>1. a \in Seq(Key) /\ b \in Seq(Key) BY <1>2, <1>3
  <2>2. new \in Seq(Key) /\ Len(new) = Len(a) + Len(b) BY <2>1
  <2> QED BY <1>1, <1>2, <1>3, <2>2
<1>5. \A j \in 1 .. n - 1 : new[j] = IF j < i THEN a[j] ELSE b[j - (i - 1)]
  BY <1>1, <1>2, <1>3
<1>6. Without(old, i) = new BY DEF Without, a, b
<1> HIDE DEF new
<1> DEFINE f == [j \in 1 .. n - 1 |-> IF j < i THEN j ELSE j + 1]
<1>7. f \in [1 .. n - 1 -> (1 .. n) \ {i}] BY <1>1
<1>8. \A j \in 1 .. n - 1 : new[j] = old[f[j]]
  <2> SUFFICES ASSUME NEW j \in 1 .. n - 1 PROVE new[j] = old[f[j]] OBVIOUS
  <2>1. CASE j < i BY <1>1, <1>2, <1>5, <2>1
  <2>2. CASE j >= i
    <3>1. j - (i - 1) \in 1 .. n - i /\ (j - (i - 1)) + i = j + 1 BY <1>1, <2>2
    <3>2. new[j] = old[j + 1] BY <1>1, <1>3, <1>5, <2>2, <3>1
    <3>3. f[j] = j + 1 BY <1>1, <2>2
    <3> QED BY <3>2, <3>3
  <2> QED BY <1>1, <2>1, <2>2
<1>9. \A j, k \in 1 .. n - 1 : j < k => f[j] < f[k] BY <1>1
<1> HIDE DEF f
<1> QED BY <1>4, <1>6, <1>7, <1>8, <1>9, ZenonT(30) DEF Keys

\* Peer::expire: the clock does not go back, nothing but the oldest keys goes, and what
\* is left is alive at the new time.
LEMMA ExpireFacts ==
  ASSUME NEW p \in PeerType, NEW now \in Nat
  PROVE  /\ Expire(p, now) \in PeerType
         /\ Expire(p, now).client = p.client /\ Expire(p, now).receive = p.receive
         /\ Expire(p, now).root = p.root /\ Expire(p, now).local = p.local
         /\ Embeds(Expire(p, now).skipped, p.skipped)
         /\ ~p.client /\ Ordered(p.skipped, p.lastNow) =>
              Ordered(Expire(p, now).skipped, Expire(p, now).lastNow)
<1> DEFINE clock == Max({p.lastNow, now})
           old == p.skipped
           alive == {i \in DOMAIN old : ~Expired(p, old[i], clock)}
           new == IF alive = {} THEN <<>> ELSE SubSeq(old, Min(alive), Len(old))
           q == Expire(p, now)
<1>1. p.lastNow \in Nat /\ old \in Keys BY DEF PeerType
<1>2. clock \in Nat /\ p.lastNow <= clock
  <2>1. p.lastNow \in Int /\ now \in Int BY <1>1
  <2>2. clock \in {p.lastNow, now} /\ p.lastNow <= clock BY <2>1, MaxOfTwo, ZenonT(30)
  <2> QED BY <1>1, <2>2
<1> HIDE DEF clock
<1>3. DOMAIN old = 1 .. Len(old) /\ Len(old) \in Nat BY <1>1 DEF Keys
<1>4. q = [p EXCEPT !.lastNow = clock, !.skipped = new]
  BY DEF Expire, ExpireAt, clock, PeerType
<1>5. \E d \in Nat : /\ d <= Len(old) /\ new = SubSeq(old, d + 1, Len(old))
                     /\ alive # {} => d + 1 \in alive
                     /\ alive = {} => d = Len(old)
  <2>1. CASE alive = {}
    <3>1. SubSeq(old, Len(old) + 1, Len(old)) = <<>> BY <1>1, <1>3 DEF Keys
    <3> QED BY <1>3, <2>1, <3>1
  <2>2. CASE alive # {}
    <3>1. alive \in SUBSET Nat BY <1>3
    <3> HIDE DEF alive
    <3>2. Min(alive) \in alive BY <2>2, <3>1, MinOfNaturals
    <3>3. alive \subseteq 1 .. Len(old) BY <1>3 DEF alive
    <3>4. PICK k : k = Min(alive) OBVIOUS
    <3>5. k \in alive /\ k \in 1 .. Len(old) BY <3>2, <3>3, <3>4, ZenonT(30)
    <3>6. k - 1 \in Nat /\ (k - 1) + 1 = k /\ k - 1 <= Len(old) BY <1>3, <3>5
    <3> QED BY <2>2, <3>4, <3>5, <3>6, ZenonT(30)
  <2> QED BY <2>1, <2>2, ZenonT(30)
<1>6. PICK d \in Nat : /\ d <= Len(old) /\ new = SubSeq(old, d + 1, Len(old))
                       /\ alive # {} => d + 1 \in alive
                       /\ alive = {} => d = Len(old)
  BY <1>5, ZenonT(30)
<1>7. /\ new \in Keys /\ Embeds(new, old) /\ Len(new) = Len(old) - d
      /\ \A i \in 1 .. Len(old) - d : new[i] = old[i + d]
  <2>1. LET t == SubSeq(old, d + 1, Len(old))
        IN  /\ t \in Keys /\ Embeds(t, old) /\ Len(t) = Len(old) - d
            /\ \A i \in 1 .. Len(old) - d : t[i] = old[i + d]
    BY <1>1, <1>6, SuffixEmbeds
  <2> HIDE DEF new
  <2> QED BY <1>6, <2>1, ZenonT(30)
<1> HIDE DEF new, q
<1>8. q \in PeerType BY <1>2, <1>4, <1>7, ZenonT(30) DEF PeerType
<1>9. /\ q.client = p.client /\ q.receive = p.receive /\ q.root = p.root
      /\ q.local = p.local /\ q.skipped = new /\ q.lastNow = clock
  BY <1>4 DEF PeerType
<1>10. ASSUME ~p.client, Ordered(old, p.lastNow)
       PROVE  Ordered(new, clock)
  <2>1. ASSUME NEW i \in 1 .. Len(new)
        PROVE  clock < new[i].expires /\ new[i].expires <= clock + KeyLifetime
    <3>1. i + d \in 1 .. Len(old) /\ d + 1 \in 1 .. Len(old) /\ d + 1 <= i + d
          /\ i \in 1 .. Len(old) - d
      BY <1>3, <1>6, <1>7
    <3>2. new[i] = old[i + d] BY <1>7, <3>1
    <3>3. d + 1 \in alive BY <1>6, <1>3, <3>1
    <3>4. ~(old[d + 1].expires <= clock) BY <1>10, <3>3 DEF Expired
    <3>5. old[d + 1].expires <= old[i + d].expires /\ old[i + d].expires <= p.lastNow + KeyLifetime
      BY <1>10, <3>1 DEF Ordered
    <3>6. old[d + 1].expires \in Nat /\ old[i + d].expires \in Nat
      <4>1. old[d + 1] \in Key /\ old[i + d] \in Key BY <1>1, <3>1 DEF Keys
      <4> QED BY <4>1 DEF Key
    <3> QED BY <1>1, <1>2, <3>2, <3>4, <3>5, <3>6, RatchetAssumption
  <2>2. Ordered(new, p.lastNow)
    BY <1>1, <1>7, <1>10, FewerOrdered
  <2> QED BY <2>1, <2>2 DEF Ordered
<1> QED BY <1>7, <1>8, <1>9, <1>10 DEF q

\* What Peer::receive leaves of p when m opens: under a key from the store, as the next
\* message of the current turn, or as the first of the remote's next turn.
AfterTaken(p, i) == [p EXCEPT !.skipped = Without(@, i)]
AfterCurrent(p, m) ==
  [p EXCEPT !.receive.count = m.number + 1,
            !.skipped = Store(p, <<>> \o SkippedKeys(p.receive, m.number))]
LeftOver(p, m) == IF ~IsNone(p.receive) THEN SkippedKeys(p.receive, m.previous) ELSE <<>>
AfterNext(p, m) ==
  LET turned == TakeTurn(p, m)
  IN  [turned EXCEPT !.receive.count = m.number + 1,
         !.skipped = Store(p, LeftOver(p, m) \o SkippedKeys(turned.receive, m.number))]

\* Peer::receive, by how it ends.  Only the last two derive keys.
LEMMA ReceiveCases ==
  ASSUME NEW before \in PeerType, NEW m \in Message, NEW now \in Nat
  PROVE  LET p == Expire(before, now)
             r == Receive(before, m, now)
         IN  \/ r.result # "Ok" /\ r.peer = p
             \/ /\ r.result = "Ok"
                /\ \E i \in 1 .. Len(p.skipped) :
                     p.skipped[i].secret = m.secret /\ r.peer = AfterTaken(p, i)
             \/ /\ r.result = "Ok" /\ ~IsNone(p.receive) /\ GapResult(p, m, FALSE) = "Ok"
                /\ <<p.receive.root, m.number>> = m.secret /\ r.peer = AfterCurrent(p, m)
             \/ /\ r.result = "Ok" /\ GapResult(p, m, TRUE) = "Ok"
                /\ <<TakeTurn(p, m).receive.root, m.number>> = m.secret
                /\ r.peer = AfterNext(p, m)
<1> DEFINE p == Expire(before, now)
           r == Receive(before, m, now)
           opened == OpenHeader(p, m)
           late == \/ opened.kind = "Skipped"
                   \/ opened.kind = "Current" /\ m.number < p.receive.count
           found == Stored(p, opened.epoch, m.number)
           next == opened.kind = "Next"
           turned == IF next THEN TakeTurn(p, m) ELSE p
           left == IF next /\ ~IsNone(p.receive)
                   THEN SkippedKeys(p.receive, m.previous) ELSE <<>>
           pending == left \o SkippedKeys(turned.receive, m.number)
<1> SUFFICES \/ r.result # "Ok" /\ r.peer = p
             \/ /\ r.result = "Ok"
                /\ \E i \in 1 .. Len(p.skipped) :
                     p.skipped[i].secret = m.secret /\ r.peer = AfterTaken(p, i)
             \/ /\ r.result = "Ok" /\ ~IsNone(p.receive) /\ GapResult(p, m, FALSE) = "Ok"
                /\ <<p.receive.root, m.number>> = m.secret /\ r.peer = AfterCurrent(p, m)
             \/ /\ r.result = "Ok" /\ GapResult(p, m, TRUE) = "Ok"
                /\ <<TakeTurn(p, m).receive.root, m.number>> = m.secret
                /\ r.peer = AfterNext(p, m)
  BY ZenonT(30)
<1>1. p \in PeerType BY ExpireFacts
<1>2. found \subseteq 1 .. Len(p.skipped)
  BY <1>1 DEF Stored, PeerType, Keys
<1>3. opened.kind # "Ok" /\ (opened.kind = "Current" => ~IsNone(p.receive))
  BY DEF OpenHeader
<1>4. /\ opened.kind \notin {"Current", "Next", "Skipped"} =>
           r = [result |-> opened.kind, peer |-> p]
      /\ opened.kind \in {"Current", "Next", "Skipped"} =>
           r = IF late
               THEN IF found = {} THEN [result |-> "Record", peer |-> p]
                    ELSE IF p.skipped[CHOOSE i \in found : TRUE].secret # m.secret
                         THEN [result |-> "Mismatch", peer |-> p]
                         ELSE [result |-> "Ok",
                               peer |-> [p EXCEPT !.skipped =
                                           Without(@, CHOOSE i \in found : TRUE)]]
               ELSE IF GapResult(p, m, next) # "Ok"
                    THEN [result |-> GapResult(p, m, next), peer |-> p]
               ELSE IF <<turned.receive.root, m.number>> # m.secret
                    THEN [result |-> "Mismatch", peer |-> p]
                    ELSE [result |-> "Ok",
                          peer |-> [turned EXCEPT !.receive.count = m.number + 1,
                                                  !.skipped = Store(p, pending)]]
  BY ZenonT(30) DEF Receive
<1> HIDE DEF p, r, opened, found
<1>5. CASE opened.kind \notin {"Current", "Next", "Skipped"}
  <2>1. r = [result |-> opened.kind, peer |-> p] BY <1>4, <1>5, ZenonT(30)
  <2>2. r.result # "Ok" /\ r.peer = p BY <1>3, <2>1
  <2> QED BY <2>2, ZenonT(30)
<1>6. CASE opened.kind \in {"Current", "Next", "Skipped"} /\ late
  <2>1. CASE found = {}
    <3>1. r = [result |-> "Record", peer |-> p] BY <1>4, <1>6, <2>1, ZenonT(30)
    <3> QED BY <3>1
  <2>2. CASE found # {}
    <3>1. PICK i : i = CHOOSE j \in found : TRUE OBVIOUS
    <3>2. i \in found BY <2>2, <3>1
    <3>3. r = IF p.skipped[i].secret # m.secret
              THEN [result |-> "Mismatch", peer |-> p]
              ELSE [result |-> "Ok", peer |-> [p EXCEPT !.skipped = Without(@, i)]]
      BY <1>4, <1>6, <2>2, <3>1
    <3> QED BY <1>2, <3>2, <3>3, ZenonT(30) DEF AfterTaken
  <2> QED BY <2>1, <2>2, ZenonT(30)
<1>7. CASE opened.kind \in {"Current", "Next", "Skipped"} /\ ~late
  <2>1. r = IF GapResult(p, m, next) # "Ok"
            THEN [result |-> GapResult(p, m, next), peer |-> p]
            ELSE IF <<turned.receive.root, m.number>> # m.secret
                 THEN [result |-> "Mismatch", peer |-> p]
                 ELSE [result |-> "Ok",
                       peer |-> [turned EXCEPT !.receive.count = m.number + 1,
                                               !.skipped = Store(p, pending)]]
    BY <1>4, <1>7
  <2>2. CASE GapResult(p, m, next) # "Ok" \/ <<turned.receive.root, m.number>> # m.secret
    BY <2>1, <2>2, ZenonT(30)
  <2>3. CASE /\ GapResult(p, m, next) = "Ok" /\ <<turned.receive.root, m.number>> = m.secret
             /\ next
    BY <2>1, <2>3, ZenonT(30) DEF AfterNext, LeftOver
  <2>4. CASE /\ GapResult(p, m, next) = "Ok" /\ <<turned.receive.root, m.number>> = m.secret
             /\ ~next
    <3>1. ~IsNone(p.receive) BY <1>3, <1>7, <2>4, ZenonT(30)
    <3> QED BY <2>1, <2>4, <3>1, ZenonT(30) DEF AfterCurrent
  <2> QED BY <2>2, <2>3, <2>4, ZenonT(30)
<1> QED BY <1>5, <1>6, <1>7, ZenonT(30)

-----------------------------------------------------------------------------
(* Taking in a message.                                                    *)

\* A key that is not yet in the store.
Pending == [epoch : Nat, cipher : Ciphers, turn : Turns, number : Nat, secret : Secrets]

\* Active::skip derives one key for each message passed over.
LEMMA SkippedFacts ==
  ASSUME NEW c \in ReceiveChain, NEW until \in Nat, c.count <= until
  PROVE  /\ SkippedKeys(c, until) \in Seq(Pending)
         /\ Len(SkippedKeys(c, until)) = until - c.count
         /\ \A i \in 1 .. until - c.count :
              SkippedKeys(c, until)[i].secret = <<c.root, c.count + i - 1>>
<1> DEFINE n == until - c.count
           e(i) == [epoch |-> c.epoch, cipher |-> c.cipher, turn |-> c.turn,
                    number |-> c.count + i - 1, secret |-> <<c.root, c.count + i - 1>>]
<1>1. /\ c.count \in Nat /\ c.root \in Roots /\ c.epoch \in Nat /\ c.cipher \in Ciphers
      /\ c.turn \in Turns /\ n \in Nat
  BY DEF ReceiveChain
<1>2. ASSUME NEW i \in 1 .. n PROVE e(i) \in Pending
  <2>1. c.count + i - 1 \in Nat BY <1>1
  <2>2. <<c.root, c.count + i - 1>> \in Secrets BY <1>1, <2>1 DEF Secrets
  <2> QED BY <1>1, <2>1, <2>2 DEF Pending
<1>3. SkippedKeys(c, until) = [i \in 1 .. n |-> e(i)] BY DEF SkippedKeys, NextKeys
<1>4. \A i \in 1 .. n : e(i).secret = <<c.root, c.count + i - 1>> OBVIOUS
<1> HIDE DEF e
<1>5. [i \in 1 .. n |-> e(i)] \in Seq(Pending) /\ Len([i \in 1 .. n |-> e(i)]) = n
  BY <1>1, <1>2
<1> QED BY <1>3, <1>4, <1>5, ZenonT(30)

\* The store after a message: the newest of the keys there were, then those skipped.
LEMMA StoreFacts ==
  ASSUME NEW p \in PeerType, NEW pending \in Seq(Pending), Len(pending) <= MaxSkippedKeys
  PROVE  /\ Store(p, pending) \in Keys
         /\ \E l \in 0 .. Len(p.skipped) :
              /\ Len(Store(p, pending)) = l + Len(pending)
              /\ \A i \in 1 .. l :
                   Store(p, pending)[i] = p.skipped[i + (Len(p.skipped) - l)]
              /\ \A i \in 1 .. Len(pending) :
                   /\ Store(p, pending)[l + i].secret = pending[i].secret
                   /\ Store(p, pending)[l + i].expires =
                        IF p.client THEN 0 ELSE p.lastNow + KeyLifetime
<1> DEFINE n == Len(p.skipped)
           d == Excess(p, pending)
           a == SubSeq(p.skipped, d + 1, n)
           b == Dated(p, pending)
           expiry == IF p.client THEN 0 ELSE p.lastNow + KeyLifetime
<1>1. /\ n \in Nat /\ Len(pending) \in Nat /\ p.skipped \in Keys /\ expiry \in Nat
      /\ MaxSkippedKeys \in Nat
  BY RatchetAssumption DEF PeerType, Keys
<1>2. d \in Nat /\ d <= n
  <2> DEFINE x == n + Len(pending) - MaxSkippedKeys
  <2>1. 0 \in Int /\ x \in Int /\ x <= n BY <1>1
  <2> HIDE DEF x
  <2>2. Max({0, x}) \in {0, x} /\ 0 <= Max({0, x}) BY <2>1, MaxOfTwo, ZenonT(30)
  <2>3. d = Max({0, x}) BY DEF Excess, x
  <2> QED BY <1>1, <2>1, <2>2, <2>3
<1> HIDE DEF d
<1>3. a \in Keys /\ Len(a) = n - d /\ \A i \in 1 .. n - d : a[i] = p.skipped[i + d]
  BY <1>1, <1>2, SuffixEmbeds
<1>4. /\ b \in Keys /\ Len(b) = Len(pending)
      /\ \A i \in 1 .. Len(pending) : b[i].secret = pending[i].secret /\ b[i].expires = expiry
  <2> DEFINE e(i) == [epoch |-> pending[i].epoch, cipher |-> pending[i].cipher,
                      turn |-> pending[i].turn, number |-> pending[i].number,
                      secret |-> pending[i].secret, expires |-> expiry]
  <2>1. b = [i \in 1 .. Len(pending) |-> e(i)] BY DEF Dated
  <2>2. ASSUME NEW i \in 1 .. Len(pending)
        PROVE  e(i) \in Key /\ e(i).secret = pending[i].secret /\ e(i).expires = expiry
    <3>1. pending[i] \in Pending OBVIOUS
    <3> QED BY <1>1, <3>1 DEF Pending, Key
  <2> HIDE DEF e
  <2>3. [i \in 1 .. Len(pending) |-> e(i)] \in Seq(Key)
        /\ Len([i \in 1 .. Len(pending) |-> e(i)]) = Len(pending)
    BY <1>1, <2>2
  <2> QED BY <2>1, <2>2, <2>3 DEF Keys
<1>5. Store(p, pending) = a \o b BY DEF Store, d
<1> HIDE DEF a, b, expiry
<1> DEFINE new == a \o b
<1>6. new \in Seq(Key) /\ Len(new) = Len(a) + Len(b)
  <2>1. a \in Seq(Key) /\ b \in Seq(Key) BY <1>3, <1>4 DEF Keys
  <2> QED BY <2>1
<1>7. \A i \in 1 .. Len(a) : new[i] = a[i]
  <2>1. a \in Seq(Key) /\ b \in Seq(Key) BY <1>3, <1>4 DEF Keys
  <2> QED BY <2>1
<1>8. \A i \in 1 .. Len(b) : new[Len(a) + i] = b[i]
  <2>1. a \in Seq(Key) /\ b \in Seq(Key) BY <1>3, <1>4 DEF Keys
  <2> QED BY <2>1
<1> HIDE DEF new
<1>9. n - d \in 0 .. n /\ n - (n - d) = d BY <1>1, <1>2
<1>10. \A i \in 1 .. n - d : new[i] = p.skipped[i + (n - (n - d))]
  BY <1>3, <1>7, <1>9
<1>11. \A i \in 1 .. Len(pending) : /\ new[(n - d) + i].secret = pending[i].secret
                                    /\ new[(n - d) + i].expires = expiry
  BY <1>3, <1>4, <1>8
<1>12. Len(new) = (n - d) + Len(pending) BY <1>3, <1>4, <1>6
<1>13. Store(p, pending) = new BY <1>5 DEF new
<1> QED BY <1>6, <1>9, <1>10, <1>11, <1>12, <1>13, ZenonT(30) DEF Keys, expiry

\* New keys die last.
LEMMA StoreOrdered ==
  ASSUME NEW p \in PeerType, NEW pending \in Seq(Pending), Len(pending) <= MaxSkippedKeys,
         ~p.client, Ordered(p.skipped, p.lastNow)
  PROVE  Ordered(Store(p, pending), p.lastNow)
<1> DEFINE new == Store(p, pending)
           old == p.skipped
           now == p.lastNow
<1>1. PICK l \in 0 .. Len(old) :
        /\ Len(new) = l + Len(pending)
        /\ \A i \in 1 .. l : new[i] = old[i + (Len(old) - l)]
        /\ \A i \in 1 .. Len(pending) : new[l + i].expires = now + KeyLifetime
  BY StoreFacts, ZenonT(30)
<1>2. /\ Len(old) \in Nat /\ Len(pending) \in Nat /\ now \in Nat /\ KeyLifetime \in Nat
      /\ KeyLifetime > 0
  BY RatchetAssumption DEF PeerType, Keys
<1> HIDE DEF new
<1>3. ASSUME NEW i \in 1 .. Len(new)
      PROVE  \/ /\ i <= l /\ i + (Len(old) - l) \in 1 .. Len(old)
                /\ new[i] = old[i + (Len(old) - l)]
             \/ i > l /\ new[i].expires = now + KeyLifetime
  <2>1. CASE i <= l BY <1>1, <1>2, <2>1
  <2>2. CASE i > l
    <3>1. i - l \in 1 .. Len(pending) /\ l + (i - l) = i BY <1>1, <1>2, <2>2
    <3>2. new[l + (i - l)].expires = now + KeyLifetime BY <1>1, <3>1, ZenonT(30)
    <3> QED BY <2>2, <3>1, <3>2
  <2> QED BY <1>1, <1>2, <2>1, <2>2
<1>4. ASSUME NEW i \in 1 .. Len(new)
      PROVE  now < new[i].expires /\ new[i].expires <= now + KeyLifetime
  <2>1. CASE i <= l
    <3>1. PICK k \in 1 .. Len(old) : new[i] = old[k] BY <1>1, <1>3, <2>1
    <3> QED BY <3>1 DEF Ordered
  <2>2. CASE i > l
    <3>1. new[i].expires = now + KeyLifetime BY <1>1, <1>3, <2>2
    <3> QED BY <1>2, <3>1
  <2> QED BY <1>1, <2>1, <2>2
<1>5. ASSUME NEW i \in 1 .. Len(new), NEW j \in 1 .. Len(new), i <= j
      PROVE  new[i].expires <= new[j].expires
  <2>1. CASE i <= l /\ j <= l
    <3>1. PICK k \in 1 .. Len(old) : k = i + (Len(old) - l) /\ new[i] = old[k]
      BY <1>1, <1>3, <2>1
    <3>2. PICK h \in 1 .. Len(old) : h = j + (Len(old) - l) /\ new[j] = old[h]
      BY <1>1, <1>3, <2>1
    <3>3. k <= h BY <1>1, <1>2, <1>5, <3>1, <3>2
    <3> QED BY <3>1, <3>2, <3>3, ZenonT(30) DEF Ordered
  <2>2. CASE j > l
    <3>1. new[j].expires = now + KeyLifetime BY <1>1, <1>3, <2>2
    <3> QED BY <1>4, <3>1
  <2> QED BY <1>1, <1>2, <1>5, <2>1, <2>2
<1> QED BY <1>4, <1>5 DEF Ordered, new

\* A message that moves the ratchet on: the keys it skips and its own secret are new to
\* the ratchet, and passed by the one it leaves.
LEMMA StoreFresh ==
  ASSUME NEW p \in PeerType, NEW q \in PeerType, NEW used \in SUBSET Secrets, Fresh(p, used),
         NEW pending \in Seq(Pending), Len(pending) <= MaxSkippedKeys,
         q.skipped = Store(p, pending), NEW x \in Secrets,
         ~Passed(x, p), Passed(x, q),
         \A s \in Secrets : Passed(s, p) => Passed(s, q),
         \A i \in 1 .. Len(pending) :
           LET s == pending[i].secret IN ~Passed(s, p) /\ Passed(s, q) /\ s # x,
         \A i, j \in 1 .. Len(pending) : pending[i].secret = pending[j].secret => i = j,
         ~IsNone(q.receive) => Len(q.receive.root) <= Len(q.root)
  PROVE  Fresh(q, used \cup {x})
<1> DEFINE new == Store(p, pending)
           old == p.skipped
<1>1. PICK l \in 0 .. Len(old) :
        /\ Len(new) = l + Len(pending)
        /\ \A i \in 1 .. l : new[i] = old[i + (Len(old) - l)]
        /\ \A i \in 1 .. Len(pending) : new[l + i].secret = pending[i].secret
  BY StoreFacts, ZenonT(30)
<1>2. Len(old) \in Nat /\ Len(pending) \in Nat /\ old \in Seq(Key)
  BY DEF PeerType, Keys
<1>3. ASSUME NEW i \in 1 .. Len(new)
      PROVE  \/ i <= l /\ \E k \in 1 .. Len(old) : /\ k = i + (Len(old) - l)
                                                   /\ new[i].secret = old[k].secret
             \/ i > l /\ \E k \in 1 .. Len(pending) : /\ k = i - l
                                                      /\ new[i].secret = pending[k].secret
  <2>1. CASE i <= l
    <3>1. i + (Len(old) - l) \in 1 .. Len(old) /\ i \in 1 .. l BY <1>1, <1>2, <2>1
    <3>2. new[i] = old[i + (Len(old) - l)] BY <1>1, <3>1
    <3> QED BY <2>1, <3>1, <3>2
  <2>2. CASE i > l
    <3>1. i - l \in 1 .. Len(pending) /\ l + (i - l) = i BY <1>1, <1>2, <2>2
    <3>2. new[l + (i - l)].secret = pending[i - l].secret BY <1>1, <3>1
    <3> QED BY <2>2, <3>1, <3>2
  <2> QED BY <1>1, <1>2, <2>1, <2>2
<1>4. ASSUME NEW k \in 1 .. Len(old)
      PROVE  /\ Passed(old[k].secret, p) /\ Passed(old[k].secret, q)
             /\ old[k].secret \notin used /\ old[k].secret # x
  <2>1. old[k].secret \in Secrets
    <3>1. old[k] \in Key BY <1>2
    <3> QED BY <3>1 DEF Key
  <2>2. Passed(old[k].secret, p) /\ old[k].secret \notin used BY DEF Fresh
  <2> QED BY <2>1, <2>2
<1>5. ASSUME NEW k \in 1 .. Len(pending)
      PROVE  /\ ~Passed(pending[k].secret, p) /\ Passed(pending[k].secret, q)
             /\ pending[k].secret \notin used /\ pending[k].secret # x
  BY DEF Fresh
<1> HIDE DEF new, old
<1>6. ASSUME NEW i \in 1 .. Len(new)
      PROVE  Passed(new[i].secret, q) /\ new[i].secret \notin used \cup {x}
  BY <1>3, <1>4, <1>5, ZenonT(30)
<1>7. ASSUME NEW i \in 1 .. Len(new), NEW j \in 1 .. Len(new), new[i].secret = new[j].secret
      PROVE  i = j
  <2>1. CASE i <= l /\ j <= l
    <3>1. PICK k \in 1 .. Len(old) : k = i + (Len(old) - l) /\ new[i].secret = old[k].secret
      BY <1>1, <1>3, <2>1
    <3>2. PICK h \in 1 .. Len(old) : h = j + (Len(old) - l) /\ new[j].secret = old[h].secret
      BY <1>1, <1>3, <2>1
    <3>3. k = h BY <1>7, <3>1, <3>2, ZenonT(30) DEF Fresh, old
    <3> QED BY <1>1, <1>2, <3>1, <3>2, <3>3
  <2>2. CASE i > l /\ j > l
    <3>1. PICK k \in 1 .. Len(pending) : k = i - l /\ new[i].secret = pending[k].secret
      BY <1>1, <1>2, <1>3, <2>2
    <3>2. PICK h \in 1 .. Len(pending) : h = j - l /\ new[j].secret = pending[h].secret
      BY <1>1, <1>3, <2>2
    <3>3. k = h BY <1>7, <3>1, <3>2, ZenonT(30)
    <3> QED BY <1>1, <1>2, <3>1, <3>2, <3>3
  <2>3. CASE (i <= l /\ j > l) \/ (i > l /\ j <= l)
    <3>1. \E k \in 1 .. Len(old), h \in 1 .. Len(pending) : old[k].secret = pending[h].secret
      BY <1>1, <1>3, <1>7, <2>3
    <3> QED BY <1>4, <1>5, <3>1
  <2> QED BY <1>1, <2>1, <2>2, <2>3
<1>8. \A s \in used \cup {x} : Passed(s, q) BY DEF Fresh
<1> QED BY <1>6, <1>7, <1>8 DEF Fresh, new

\* A late message takes its key out of the store, for good.
LEMMA TakenOut ==
  ASSUME NEW p \in PeerType, NEW used \in SUBSET Secrets, Fresh(p, used),
         NEW i \in 1 .. Len(p.skipped)
  PROVE  LET q == AfterTaken(p, i)
         IN  /\ q \in PeerType /\ q.client = p.client /\ q.lastNow = p.lastNow
             /\ Embeds(q.skipped, p.skipped)
             /\ Fresh(q, used \cup {p.skipped[i].secret})
<1> DEFINE old == p.skipped
           new == Without(old, i)
           q == AfterTaken(p, i)
           x == old[i].secret
<1>1. old \in Keys /\ Len(old) \in Nat BY DEF PeerType, Keys
<1>2. PICK f \in [1 .. Len(new) -> (1 .. Len(old)) \ {i}] :
        /\ \A j \in 1 .. Len(new) : new[j] = old[f[j]]
        /\ \A j, k \in 1 .. Len(new) : j < k => f[j] < f[k]
  BY <1>1, WithoutEmbeds, ZenonT(30)
<1>3. new \in Keys BY <1>1, WithoutEmbeds
<1> HIDE DEF new
<1>4. q = [p EXCEPT !.skipped = new] BY DEF new, PeerType, AfterTaken
<1> HIDE DEF q
<1>5. q \in PeerType BY <1>3, <1>4 DEF PeerType
<1>6. /\ q.skipped = new /\ q.client = p.client /\ q.lastNow = p.lastNow
      /\ q.receive = p.receive /\ q.root = p.root
  BY <1>4 DEF PeerType
<1>7. Embeds(new, old)
  <2>1. f \in [1 .. Len(new) -> 1 .. Len(old)] OBVIOUS
  <2> QED BY <1>2, <2>1 DEF Embeds
<1>8. Fresh(q, used)
  <2>1. Len(p.root) \in Nat BY DEF PeerType, Roots
  <2> QED BY <1>5, <1>6, <1>7, <2>1, FewerFresh
<1>9. Passed(x, q) BY <1>6 DEF Fresh, Passed
<1>10. ASSUME NEW j \in 1 .. Len(new) PROVE new[j].secret # x
  <2>1. f[j] \in 1 .. Len(old) /\ f[j] # i /\ new[j] = old[f[j]] BY <1>2
  <2> QED BY <2>1 DEF Fresh
<1>11. Fresh(q, used \cup {x})
  BY <1>6, <1>8, <1>9, <1>10 DEF Fresh
<1> QED BY <1>5, <1>6, <1>7, <1>11 DEF q

\* The fields of a message are numbers, and its secret a secret.
LEMMA MessageFacts ==
  ASSUME NEW m \in Message
  PROVE  /\ m.number \in Nat /\ m.previous \in Nat /\ m.public \in Nat
         /\ m.secret \in Secrets
BY DEF Message

\* What Active::skipped_count has checked before any key is derived.
LEMMA GapFacts ==
  ASSUME NEW p \in PeerType, NEW m \in Message
  PROVE  /\ GapResult(p, m, FALSE) = "Ok" /\ ~IsNone(p.receive) =>
              /\ p.receive.count <= m.number
              /\ m.number - p.receive.count <= MaxSkippedKeys
         /\ GapResult(p, m, TRUE) = "Ok" =>
              /\ m.number <= MaxSkippedKeys
              /\ ~IsNone(p.receive) =>
                   /\ p.receive.count <= m.previous
                   /\ (m.previous - p.receive.count) + m.number <= MaxSkippedKeys
<1>1. m.number \in Nat /\ m.previous \in Nat /\ MaxSkippedKeys \in Nat /\ MaxChainMessages \in Nat
  BY MessageFacts, RatchetAssumption
<1>2. ~IsNone(p.receive) => p.receive.count \in Nat BY Chains DEF ReceiveChain
<1>3. ASSUME GapResult(p, m, FALSE) = "Ok", ~IsNone(p.receive)
      PROVE  p.receive.count <= m.number /\ m.number - p.receive.count <= MaxSkippedKeys
  BY <1>1, <1>2, <1>3 DEF GapResult
<1>4. ASSUME GapResult(p, m, TRUE) = "Ok", ~IsNone(p.receive)
      PROVE  /\ p.receive.count <= m.previous
             /\ (m.previous - p.receive.count) + m.number <= MaxSkippedKeys
  BY <1>1, <1>2, <1>4 DEF GapResult
<1>5. ASSUME GapResult(p, m, TRUE) = "Ok"
      PROVE  m.number <= MaxSkippedKeys
  <2>1. CASE IsNone(p.receive) BY <1>1, <1>5, <2>1 DEF GapResult
  <2>2. CASE ~IsNone(p.receive) BY <1>1, <1>2, <1>4, <1>5, <2>2
  <2> QED BY <2>1, <2>2
<1> QED BY <1>3, <1>4, <1>5, ZenonT(30)

\* The next messages of the turn that is being received.
LEMMA CurrentFacts ==
  ASSUME NEW p \in PeerType, NEW m \in Message, ~IsNone(p.receive),
         GapResult(p, m, FALSE) = "Ok", <<p.receive.root, m.number>> = m.secret
  PROVE  LET q == AfterCurrent(p, m)
         IN  /\ q \in PeerType /\ q.client = p.client /\ q.lastNow = p.lastNow
             /\ ~p.client /\ Ordered(p.skipped, p.lastNow) => Ordered(q.skipped, p.lastNow)
             /\ \A used \in SUBSET Secrets :
                  Fresh(p, used) => Fresh(q, used \cup {m.secret}) /\ m.secret \notin used
<1> DEFINE c == p.receive
           pending == SkippedKeys(c, m.number)
           chain == [c EXCEPT !.count = m.number + 1]
           store == Store(p, pending)
           q == AfterCurrent(p, m)
<1>1. /\ m.number \in Nat /\ m.secret \in Secrets /\ c \in ReceiveChain
      /\ c.count \in Nat /\ c.root \in Roots /\ c.root # <<>>
      /\ c.count <= m.number /\ m.number - c.count <= MaxSkippedKeys
  <2>1. c \in ReceiveChain BY Chains
  <2>2. c.root # <<>> BY DEF IsNone
  <2> QED BY <2>1, <2>2, MessageFacts, GapFacts, ZenonT(30) DEF ReceiveChain
<1>2. /\ pending \in Seq(Pending) /\ Len(pending) = m.number - c.count
      /\ \A i \in 1 .. m.number - c.count : pending[i].secret = <<c.root, c.count + i - 1>>
  BY <1>1, SkippedFacts
<1> HIDE DEF pending
<1>3. <<>> \o pending = pending BY <1>2
<1>4. chain \in ReceiveChain /\ chain.root = c.root /\ chain.count = m.number + 1
  BY <1>1 DEF ReceiveChain
<1>5. chain \in ReceiveChains BY <1>4 DEF ReceiveChains
<1>6. store \in Keys BY <1>1, <1>2, StoreFacts
<1>7. q = [p EXCEPT !.receive = chain, !.skipped = store]
  BY <1>3 DEF pending, PeerType, AfterCurrent
<1> HIDE DEF chain, store, q
<1>8. q \in PeerType BY <1>5, <1>6, <1>7, ZenonT(30) DEF PeerType
<1>9. /\ q.client = p.client /\ q.lastNow = p.lastNow /\ q.root = p.root
      /\ q.skipped = store /\ q.receive = chain
  BY <1>7 DEF PeerType
<1>10. ~p.client /\ Ordered(p.skipped, p.lastNow) => Ordered(q.skipped, p.lastNow)
  BY <1>1, <1>2, <1>9, StoreOrdered DEF store
<1>11. ASSUME NEW used \in SUBSET Secrets, Fresh(p, used)
       PROVE  Fresh(q, used \cup {m.secret}) /\ m.secret \notin used
  <2>1. Len(c.root) <= Len(p.root) /\ Len(c.root) \in Nat /\ Len(p.root) \in Nat
    <3>1. Len(c.root) <= Len(p.root) BY <1>11 DEF Fresh
    <3>2. p.root \in Roots BY DEF PeerType
    <3> QED BY <1>1, <3>1, <3>2 DEF Roots
  <2>2. ASSUME NEW k \in Nat
        PROVE  /\ k >= c.count => ~Passed(<<c.root, k>>, p)
               /\ k <= m.number => Passed(<<c.root, k>>, q)
    BY <1>1, <1>4, <1>9, <2>1 DEF Passed
  <2>3. ~Passed(m.secret, p) /\ Passed(m.secret, q)
    <3>1. m.number >= c.count /\ m.number <= m.number BY <1>1
    <3>2. m.secret = <<c.root, m.number>> OBVIOUS
    <3> QED BY <1>1, <2>2, <3>1, <3>2
  <2>4. ASSUME NEW s \in Secrets, Passed(s, p) PROVE Passed(s, q)
    <3>1. s[2] \in Nat BY DEF Secrets
    <3> QED BY <1>1, <1>4, <1>9, <2>4, <3>1 DEF Passed
  <2>5. ASSUME NEW i \in 1 .. Len(pending)
        PROVE  /\ ~Passed(pending[i].secret, p) /\ Passed(pending[i].secret, q)
               /\ pending[i].secret # m.secret
    <3>1. PICK k \in Nat : k = c.count + i - 1 BY <1>1, <1>2
    <3>2. k >= c.count /\ k < m.number BY <1>1, <1>2, <3>1
    <3>3. pending[i].secret = <<c.root, k>> BY <1>2, <3>1
    <3>4. <<c.root, k>> # <<c.root, m.number>> BY <1>1, <3>2
    <3> QED BY <1>1, <2>2, <3>2, <3>3, <3>4
  <2>6. ASSUME NEW i \in 1 .. Len(pending), NEW j \in 1 .. Len(pending),
               pending[i].secret = pending[j].secret
        PROVE  i = j
    <3>1. <<c.root, c.count + i - 1>> = <<c.root, c.count + j - 1>> BY <1>2, <2>6
    <3>2. c.count + i - 1 = c.count + j - 1 BY <3>1
    <3> QED BY <1>1, <1>2, <3>2
  <2>7. Len(pending) <= MaxSkippedKeys BY <1>1, <1>2
  <2>8. Len(q.receive.root) <= Len(q.root) BY <1>4, <1>9, <2>1
  <2>9. q.skipped = Store(p, pending) BY <1>9 DEF store
  <2>10. m.secret \notin used BY <1>11, <2>3 DEF Fresh
  <2>11. Fresh(q, used \cup {m.secret})
    BY <1>1, <1>2, <1>8, <1>11, <2>3, <2>4, <2>5, <2>6, <2>7, <2>8, <2>9, StoreFresh, ZenonT(30)
  <2> QED BY <2>10, <2>11
<1> QED BY <1>8, <1>9, <1>10, <1>11, ZenonT(30) DEF q

\* The fields that Active::receive_key writes when it takes up the next turn.
LEMMA TurnFacts ==
  ASSUME NEW p \in PeerType, NEW m \in Message
  PROVE  LET t == TakeTurn(p, m)
         IN  /\ t \in PeerType /\ t.receive \in ReceiveChain
             /\ t.root \in Roots /\ Len(t.root) = Len(p.root) + 1 /\ t.root # <<>>
             /\ t.receive.root = t.root /\ t.receive.count = 0
             /\ t.client = p.client /\ t.lastNow = p.lastNow /\ t.skipped = p.skipped
<1> DEFINE root == Advance(p, p.local, m.public)
           chain == [root |-> root, count |-> 0, cipher |-> p.nextReceive, turn |-> TurnOf(m),
                     epoch |-> IF IsNone(p.receive) THEN 0 ELSE p.receive.epoch + 1]
           sent == IF IsNone(p.send) THEN 0 ELSE p.send.count
           t == TakeTurn(p, m)
<1>1. m.public \in Nat /\ p.local \in Nat /\ TurnOf(m) \in Turns
  BY MessageFacts DEF PeerType, TurnOf, Turns
<1>2. root \in Roots /\ Len(root) = Len(p.root) + 1 /\ root # <<>> /\ CipherOf(root) \in Ciphers
  BY <1>1, AdvanceFacts
<1>3. t = [p EXCEPT !.root = root, !.local = 0, !.remote = m.public,
                    !.nextReceive = CipherOf(root), !.receive = chain,
                    !.previousSent = sent, !.send = NoChain]
  BY DEF TakeTurn
<1> HIDE DEF root, t
<1>4. p.nextReceive \in Ciphers BY DEF PeerType
<1>5. (IF IsNone(p.receive) THEN 0 ELSE p.receive.epoch + 1) \in Nat
  BY Chains DEF ReceiveChain
<1>6. chain \in ReceiveChain /\ chain.root = root /\ chain.count = 0
  BY <1>1, <1>2, <1>4, <1>5 DEF ReceiveChain
<1>7. chain \in ReceiveChains BY <1>6, ZenonT(30) DEF ReceiveChains
<1>8. sent \in Nat BY Chains DEF SendChain
<1>9. NoChain \in SendChains BY DEF SendChains
<1> HIDE DEF chain, sent
<1>10. t \in PeerType BY <1>1, <1>2, <1>3, <1>7, <1>8, <1>9, ZenonT(30) DEF PeerType
<1>11. /\ t.root = root /\ t.receive = chain /\ t.client = p.client
       /\ t.lastNow = p.lastNow /\ t.skipped = p.skipped
  BY <1>3 DEF PeerType
<1> QED BY <1>2, <1>6, <1>10, <1>11 DEF t

\* The first messages of the remote's next turn: the keys left on the old chain and the
\* ones skipped on the new chain go to the store together.
LEMMA NextFacts ==
  ASSUME NEW p \in PeerType, NEW m \in Message, GapResult(p, m, TRUE) = "Ok",
         <<TakeTurn(p, m).receive.root, m.number>> = m.secret
  PROVE  LET q == AfterNext(p, m)
         IN  /\ q \in PeerType /\ q.client = p.client /\ q.lastNow = p.lastNow
             /\ ~p.client /\ Ordered(p.skipped, p.lastNow) => Ordered(q.skipped, p.lastNow)
             /\ \A used \in SUBSET Secrets :
                  Fresh(p, used) => Fresh(q, used \cup {m.secret}) /\ m.secret \notin used
<1> DEFINE old == p.receive
           left == LeftOver(p, m)
           turned == TakeTurn(p, m)
           c == turned.receive
           new == turned.root
           right == SkippedKeys(c, m.number)
           pending == left \o right
           chain == [c EXCEPT !.count = m.number + 1]
           store == Store(p, pending)
           q == AfterNext(p, m)
<1>1. /\ m.number \in Nat /\ m.previous \in Nat /\ m.secret \in Secrets
      /\ m.number <= MaxSkippedKeys /\ MaxSkippedKeys \in Nat
  BY MessageFacts, GapFacts, RatchetAssumption, ZenonT(30)
<1>2. /\ c \in ReceiveChain /\ new \in Roots /\ Len(new) = Len(p.root) + 1 /\ new # <<>>
      /\ c.root = new /\ c.count = 0
      /\ turned.client = p.client /\ turned.lastNow = p.lastNow /\ turned \in PeerType
  BY TurnFacts, ZenonT(30)
<1>3. ASSUME ~IsNone(old)
      PROVE  /\ old.root \in Roots /\ old.count \in Nat /\ old.count <= m.previous
             /\ (m.previous - old.count) + m.number <= MaxSkippedKeys
             /\ left \in Seq(Pending) /\ Len(left) = m.previous - old.count
             /\ \A i \in 1 .. Len(left) : left[i].secret = <<old.root, old.count + i - 1>>
  <2>1. old \in ReceiveChain BY <1>3, Chains, ZenonT(30)
  <2>2. old.root \in Roots /\ old.count \in Nat BY <2>1, ZenonT(30) DEF ReceiveChain
  <2>3. old.count <= m.previous /\ (m.previous - old.count) + m.number <= MaxSkippedKeys
    BY <1>3, GapFacts, ZenonT(30)
  <2>4. left = SkippedKeys(old, m.previous) BY <1>3 DEF LeftOver
  <2>5. /\ SkippedKeys(old, m.previous) \in Seq(Pending)
        /\ Len(SkippedKeys(old, m.previous)) = m.previous - old.count
        /\ \A i \in 1 .. m.previous - old.count :
             SkippedKeys(old, m.previous)[i].secret = <<old.root, old.count + i - 1>>
    BY <1>1, <2>1, <2>3, SkippedFacts, ZenonT(30)
  <2>6. \A i \in 1 .. Len(left) : left[i].secret = <<old.root, old.count + i - 1>>
    BY <2>4, <2>5, ZenonT(30)
  <2> QED BY <2>2, <2>3, <2>4, <2>5, <2>6, ZenonT(30)
<1>4. ASSUME IsNone(old) PROVE left \in Seq(Pending) /\ Len(left) = 0
  <2>1. left = <<>> BY <1>4 DEF LeftOver
  <2>2. <<>> \in Seq(Pending) /\ Len(<<>>) = 0 OBVIOUS
  <2> QED BY <2>1, <2>2, ZenonT(30)
<1>5. left \in Seq(Pending) /\ Len(left) \in Nat BY <1>3, <1>4
<1>6. /\ right \in Seq(Pending) /\ Len(right) = m.number
      /\ \A i \in 1 .. m.number : right[i].secret = <<new, i - 1>>
  <2>1. c.count <= m.number /\ m.number - c.count = m.number BY <1>1, <1>2
  <2>2. /\ right \in Seq(Pending) /\ Len(right) = m.number - c.count
        /\ \A i \in 1 .. m.number - c.count : right[i].secret = <<c.root, c.count + i - 1>>
    BY <1>1, <1>2, <2>1, SkippedFacts, ZenonT(30)
  <2> QED BY <1>1, <1>2, <2>1, <2>2
<1> HIDE DEF right, left
<1>7. left \in Seq(Pending) /\ right \in Seq(Pending) BY <1>5, <1>6
<1>8. /\ pending \in Seq(Pending) /\ Len(pending) = Len(left) + Len(right)
      /\ \A i \in 1 .. Len(left) : pending[i] = left[i]
      /\ \A i \in 1 .. Len(right) : pending[Len(left) + i] = right[i]
  BY <1>7
<1>9. Len(pending) <= MaxSkippedKeys
  <2>1. CASE IsNone(old) BY <1>1, <1>4, <1>6, <1>8, <2>1
  <2>2. CASE ~IsNone(old) BY <1>1, <1>3, <1>6, <1>8, <2>2, ZenonT(30)
  <2> QED BY <2>1, <2>2
<1> HIDE DEF pending, turned
<1>10. chain \in ReceiveChain /\ chain.root = new /\ chain.count = m.number + 1
  BY <1>1, <1>2 DEF ReceiveChain
<1>11. chain \in ReceiveChains BY <1>10 DEF ReceiveChains
<1>12. store \in Keys BY <1>8, <1>9, StoreFacts, ZenonT(30)
<1>13. q = [turned EXCEPT !.receive = chain, !.skipped = store]
  <2>1. q = [turned EXCEPT !.receive.count = m.number + 1, !.skipped = store]
    BY DEF AfterNext, pending, left, right, turned
  <2> HIDE DEF store
  <2> QED BY <1>2, <2>1 DEF PeerType
<1> HIDE DEF chain, store, q
<1>14. q \in PeerType BY <1>2, <1>11, <1>12, <1>13, ZenonT(30) DEF PeerType
<1>15. /\ q.client = p.client /\ q.lastNow = p.lastNow /\ q.root = new
       /\ q.skipped = store /\ q.receive = chain
  BY <1>2, <1>13 DEF PeerType
<1>16. ~p.client /\ Ordered(p.skipped, p.lastNow) => Ordered(q.skipped, p.lastNow)
  BY <1>8, <1>9, <1>15, StoreOrdered, ZenonT(30) DEF store
<1>17. ASSUME NEW used \in SUBSET Secrets, Fresh(p, used)
       PROVE  Fresh(q, used \cup {m.secret}) /\ m.secret \notin used
  <2>1. p.root \in Roots BY DEF PeerType
  <2>2. Len(p.root) \in Nat /\ Len(new) \in Nat /\ Len(p.root) < Len(new)
    BY <1>2, <2>1 DEF Roots
  <2>3. ~IsNone(q.receive) BY <1>2, <1>10, <1>15 DEF IsNone
  <2>4. ASSUME NEW k \in Nat
        PROVE  ~Passed(<<new, k>>, p) /\ (k <= m.number => Passed(<<new, k>>, q))
    BY <1>1, <1>10, <1>15, <2>2 DEF Passed
  <2>5. ASSUME NEW s \in Secrets, Len(s[1]) <= Len(p.root)
        PROVE  Passed(s, q) /\ s[1] # new
    <3>1. Len(s[1]) \in Nat BY DEF Secrets, Roots
    <3>2. s[1] # new BY <2>2, <2>5, <3>1
    <3> QED BY <1>10, <1>15, <2>2, <2>5, <3>1, <3>2 DEF Passed
  <2>6. ASSUME NEW s \in Secrets, Passed(s, p) PROVE Passed(s, q)
    BY <2>5, <2>6 DEF Passed
  <2>7. m.secret = <<new, m.number>> BY <1>2 DEF turned
  <2>8. ~Passed(m.secret, p) /\ Passed(m.secret, q)
    <3>1. m.number <= m.number BY <1>1
    <3> QED BY <1>1, <2>4, <2>7, <3>1
  <2>9. ASSUME NEW i \in 1 .. Len(left)
        PROVE  \E k \in Nat : /\ ~IsNone(old) /\ old.root \in Roots /\ old.count \in Nat
                              /\ old.count <= k /\ k = old.count + i - 1
                              /\ pending[i].secret = <<old.root, k>>
                              /\ Len(old.root) <= Len(p.root)
    <3>1. ~IsNone(old) BY <1>4
    <3>2. old.root \in Roots /\ old.count \in Nat /\ left[i].secret = <<old.root, old.count + i - 1>>
      BY <1>3, <3>1
    <3>3. old.count + i - 1 \in Nat /\ old.count <= old.count + i - 1 BY <1>5, <3>2
    <3>4. Len(old.root) <= Len(p.root) BY <1>17, <3>1 DEF Fresh
    <3> QED BY <1>8, <3>1, <3>2, <3>3, <3>4
  <2>10. ASSUME NEW i \in 1 .. Len(left)
         PROVE  /\ ~Passed(pending[i].secret, p) /\ Passed(pending[i].secret, q)
                /\ pending[i].secret[1] # new
    <3>1. PICK k \in Nat : /\ ~IsNone(old) /\ old.root \in Roots /\ old.count \in Nat
                           /\ old.count <= k /\ pending[i].secret = <<old.root, k>>
                           /\ Len(old.root) <= Len(p.root)
      BY <2>9
    <3>2. <<old.root, k>> \in Secrets BY <3>1, ZenonT(30) DEF Secrets
    <3>3. ~Passed(<<old.root, k>>, p) BY <3>1 DEF Passed
    <3>4. Passed(<<old.root, k>>, q) /\ old.root # new BY <2>5, <3>1, <3>2
    <3> QED BY <3>1, <3>3, <3>4
  <2>11. ASSUME NEW i \in 1 .. Len(right)
         PROVE  LET s == pending[Len(left) + i].secret
                IN  /\ s = <<new, i - 1>> /\ s[1] = new /\ ~Passed(s, p) /\ Passed(s, q)
                    /\ s # m.secret
    <3>1. pending[Len(left) + i].secret = <<new, i - 1>> BY <1>6, <1>8, ZenonT(30)
    <3>2. i - 1 \in Nat /\ i - 1 < m.number /\ i - 1 <= m.number BY <1>1, <1>6
    <3>3. <<new, i - 1>> # <<new, m.number>> BY <1>1, <3>2
    <3> QED BY <2>4, <2>7, <3>1, <3>2, <3>3
  <2>12. ASSUME NEW i \in 1 .. Len(pending)
         PROVE  \/ i \in 1 .. Len(left)
                \/ \E k \in 1 .. Len(right) : i = Len(left) + k
    <3>1. Len(right) \in Nat BY <1>1, <1>6
    <3>2. CASE i <= Len(left) BY <1>5, <3>2
    <3>3. CASE i > Len(left)
      <4>1. i - Len(left) \in 1 .. Len(right) /\ i = Len(left) + (i - Len(left))
        BY <1>5, <1>8, <3>1, <3>3
      <4> QED BY <4>1, ZenonT(30)
    <3> QED BY <1>5, <3>2, <3>3
  <2>13. ASSUME NEW i \in 1 .. Len(pending)
         PROVE  /\ ~Passed(pending[i].secret, p) /\ Passed(pending[i].secret, q)
                /\ pending[i].secret # m.secret
    <3>1. CASE i \in 1 .. Len(left) BY <2>7, <2>10, <3>1
    <3>2. ASSUME NEW k \in 1 .. Len(right), i = Len(left) + k
          PROVE  /\ ~Passed(pending[i].secret, p) /\ Passed(pending[i].secret, q)
                 /\ pending[i].secret # m.secret
      BY <2>11, <3>2
    <3> QED BY <2>12, <3>1, <3>2, ZenonT(30)
  <2>14. ASSUME NEW i \in 1 .. Len(pending), NEW j \in 1 .. Len(pending),
                pending[i].secret = pending[j].secret
         PROVE  i = j
    <3>1. CASE i \in 1 .. Len(left) /\ j \in 1 .. Len(left)
      <4>1. PICK k \in Nat : /\ old.count \in Nat /\ k = old.count + i - 1
                             /\ pending[i].secret = <<old.root, k>>
        BY <2>9, <3>1, ZenonT(30)
      <4>2. PICK l \in Nat : l = old.count + j - 1 /\ pending[j].secret = <<old.root, l>>
        BY <2>9, <3>1, ZenonT(30)
      <4>3. <<old.root, k>> = <<old.root, l>> BY <2>14, <4>1, <4>2, ZenonT(30)
      <4>4. k = l BY <4>3
      <4> QED BY <1>5, <3>1, <4>1, <4>2, <4>4
    <3>2. CASE i \in 1 .. Len(left) /\ \E k \in 1 .. Len(right) : j = Len(left) + k
      BY <2>10, <2>11, <2>14, <3>2, ZenonT(30)
    <3>3. CASE j \in 1 .. Len(left) /\ \E k \in 1 .. Len(right) : i = Len(left) + k
      BY <2>10, <2>11, <2>14, <3>3, ZenonT(30)
    <3>4. ASSUME NEW k \in 1 .. Len(right), NEW l \in 1 .. Len(right),
                 i = Len(left) + k, j = Len(left) + l
          PROVE  i = j
      <4>1. <<new, k - 1>> = <<new, l - 1>> BY <2>11, <2>14, <3>4, ZenonT(30)
      <4>2. k - 1 = l - 1 BY <4>1
      <4> QED BY <1>1, <1>6, <3>4, <4>2
    <3> QED BY <2>12, <3>1, <3>2, <3>3, <3>4, ZenonT(30)
  <2>15. Len(q.receive.root) <= Len(q.root) BY <1>10, <1>15, <2>2
  <2>16. q.skipped = Store(p, pending) BY <1>15 DEF store
  <2>17. m.secret \notin used BY <1>17, <2>8, ZenonT(30) DEF Fresh
  <2>18. Fresh(q, used \cup {m.secret})
    BY <1>1, <1>8, <1>9, <1>14, <1>17, <2>6, <2>8, <2>13, <2>14, <2>15, <2>16, StoreFresh, ZenonT(30)
  <2> QED BY <2>17, <2>18
<1> QED BY <1>14, <1>15, <1>16, <1>17, ZenonT(30) DEF q

\* Peer::receive, whatever it answers: the store stays in order, a message that opens
\* was not used before, and afterwards it is used.
LEMMA ReceiveFacts ==
  ASSUME NEW before \in PeerType, NEW m \in Message, NEW now \in Nat,
         NEW used \in SUBSET Secrets, Fresh(before, used)
  PROVE  LET r == Receive(before, m, now)
         IN  /\ r.peer \in PeerType /\ r.peer.client = before.client
             /\ ~before.client /\ Ordered(before.skipped, before.lastNow) =>
                  Ordered(r.peer.skipped, r.peer.lastNow)
             /\ Fresh(r.peer, used)
             /\ r.result = "Ok" => /\ m.secret \notin used
                                   /\ Fresh(r.peer, used \cup {m.secret})
<1> DEFINE p == Expire(before, now)
           r == Receive(before, m, now)
           q == r.peer
           Good == /\ q \in PeerType /\ q.client = before.client
                   /\ ~before.client /\ Ordered(before.skipped, before.lastNow) =>
                        Ordered(q.skipped, q.lastNow)
                   /\ Fresh(q, used)
                   /\ r.result = "Ok" => m.secret \notin used /\ Fresh(q, used \cup {m.secret})
<1> SUFFICES Good BY ZenonT(30)
<1>1. /\ p \in PeerType /\ p.client = before.client /\ p.receive = before.receive
      /\ p.root = before.root /\ Embeds(p.skipped, before.skipped)
      /\ ~before.client /\ Ordered(before.skipped, before.lastNow) =>
           Ordered(p.skipped, p.lastNow)
  BY ExpireFacts
<1>2. \/ r.result # "Ok" /\ q = p
      \/ /\ r.result = "Ok"
         /\ \E i \in 1 .. Len(p.skipped) :
              p.skipped[i].secret = m.secret /\ q = AfterTaken(p, i)
      \/ /\ r.result = "Ok" /\ ~IsNone(p.receive) /\ GapResult(p, m, FALSE) = "Ok"
         /\ <<p.receive.root, m.number>> = m.secret /\ q = AfterCurrent(p, m)
      \/ /\ r.result = "Ok" /\ GapResult(p, m, TRUE) = "Ok"
         /\ <<TakeTurn(p, m).receive.root, m.number>> = m.secret /\ q = AfterNext(p, m)
  BY ReceiveCases, ZenonT(30)
<1> HIDE DEF p, r
<1>3. Fresh(p, used)
  <2>1. Len(p.root) >= Len(before.root) BY <1>1 DEF PeerType, Roots
  <2> QED BY <1>1, <2>1, FewerFresh
<1>4. ASSUME NEW x, Fresh(q, used \cup {x}) PROVE Fresh(q, used)
  BY <1>4, ZenonT(30) DEF Fresh
<1>5. CASE r.result # "Ok" /\ q = p BY <1>1, <1>3, <1>5
<1>6. ASSUME r.result = "Ok", NEW i \in 1 .. Len(p.skipped), p.skipped[i].secret = m.secret,
             q = AfterTaken(p, i)
      PROVE  Good
  <2> DEFINE w == AfterTaken(p, i)
  <2>5. /\ w \in PeerType /\ w.client = p.client /\ w.lastNow = p.lastNow
        /\ Embeds(w.skipped, p.skipped) /\ Fresh(w, used \cup {p.skipped[i].secret})
    BY <1>1, <1>3, TakenOut, ZenonT(30)
  <2> HIDE DEF w
  <2>1. /\ q \in PeerType /\ q.client = p.client /\ q.lastNow = p.lastNow
        /\ Embeds(q.skipped, p.skipped) /\ Fresh(q, used \cup {m.secret})
    BY <1>6, <2>5, ZenonT(30) DEF w
  <2>2. m.secret \notin used BY <1>3, <1>6, ZenonT(30) DEF Fresh
  <2>3. q.skipped \in Keys /\ p.skipped \in Keys /\ p.lastNow \in Nat BY <1>1, <2>1, ZenonT(30) DEF PeerType
  <2>4. Ordered(p.skipped, p.lastNow) => Ordered(q.skipped, p.lastNow)
    BY <2>1, <2>3, FewerOrdered, ZenonT(30)
  <2> QED BY <1>1, <1>4, <2>1, <2>2, <2>4, ZenonT(30)
<1>7. ASSUME r.result = "Ok", ~IsNone(p.receive), GapResult(p, m, FALSE) = "Ok",
             <<p.receive.root, m.number>> = m.secret, q = AfterCurrent(p, m)
      PROVE  Good
  <2> DEFINE first == AfterCurrent(p, m)
  <2>1. /\ first \in PeerType /\ first.client = p.client /\ first.lastNow = p.lastNow
        /\ ~p.client /\ Ordered(p.skipped, p.lastNow) => Ordered(first.skipped, p.lastNow)
        /\ Fresh(first, used \cup {m.secret}) /\ m.secret \notin used
    BY <1>1, <1>3, <1>7, CurrentFacts, ZenonT(30)
  <2> HIDE DEF first
  <2> QED BY <1>1, <1>4, <1>7, <2>1, ZenonT(30) DEF first
<1>8. ASSUME r.result = "Ok", GapResult(p, m, TRUE) = "Ok",
             <<TakeTurn(p, m).receive.root, m.number>> = m.secret, q = AfterNext(p, m)
      PROVE  Good
  <2> DEFINE next == AfterNext(p, m)
  <2>2. /\ next \in PeerType /\ next.client = p.client /\ next.lastNow = p.lastNow
        /\ ~p.client /\ Ordered(p.skipped, p.lastNow) => Ordered(next.skipped, p.lastNow)
        /\ Fresh(next, used \cup {m.secret}) /\ m.secret \notin used
    BY <1>1, <1>3, <1>8, NextFacts, ZenonT(30)
  <2> HIDE DEF next
  <2> QED BY <1>1, <1>4, <1>8, <2>2, ZenonT(30) DEF next
<1> HIDE DEF Good
<1> QED BY <1>2, <1>5, <1>6, <1>7, <1>8, ZenonT(30)

-----------------------------------------------------------------------------
(* The session's invariant: the two ratchets as above, with the secrets of *)
(* the admitted requests as the ones the server has used.                  *)

Spent(rq, ad) == {rq[n].secret : n \in {k \in DOMAIN rq : ad[k] > 0}}

ClientOK(c, rs) ==
  /\ c \in PeerType /\ Fresh(c, {})
  /\ \A n \in DOMAIN rs : rs[n] \in Message

ServerOK(g, rq, ad) ==
  /\ g \in PeerType /\ ~g.client
  /\ Ordered(g.skipped, g.lastNow)
  /\ \A n \in DOMAIN rq : rq[n] \in Message
  /\ Fresh(g, Spent(rq, ad))

SessionInv ==
  /\ WindowInv
  /\ ClientOK(client, responses)
  /\ ServerOK(gateway, requests, admissions)
  /\ DOMAIN requests = sealed
  /\ \A n \in Numbers : admissions[n] > 0 => n \in DOMAIN responses

\* The used secrets are secrets.
LEMMA SpentType ==
  ASSUME NEW g, NEW rq, NEW ad, ServerOK(g, rq, ad)
  PROVE  Spent(rq, ad) \in SUBSET Secrets
BY MessageFacts DEF ServerOK, Spent

\* Being fresh for some secrets is being fresh for fewer.
LEMMA FewerUsed ==
  ASSUME NEW p, NEW used, NEW fewer, fewer \subseteq used, Fresh(p, used)
  PROVE  Fresh(p, fewer)
BY ZenonT(30) DEF Fresh

\* A store embeds in itself, and the empty one in any.
LEMMA EmbedsSame ==
  ASSUME NEW keys \in Keys
  PROVE  Embeds(keys, keys) /\ Embeds(<<>>, keys)
<1> DEFINE n == Len(keys)
<1>1. n \in Nat BY DEF Keys
<1>2. [i \in 1 .. n |-> i] \in [1 .. n -> 1 .. n] OBVIOUS
<1>3. Embeds(keys, keys) BY <1>1, <1>2, ZenonT(30) DEF Embeds
<1>4. Len(<<>>) = 0 /\ 1 .. 0 = {} OBVIOUS
<1>5. [i \in {} |-> i] \in [{} -> 1 .. n] OBVIOUS
<1>6. Embeds(<<>>, keys) BY <1>4, <1>5, ZenonT(30) DEF Embeds
<1> QED BY <1>3, <1>6

\* Peer::send changes nothing of what a peer has received.
LEMMA SendFresh ==
  ASSUME NEW p \in PeerType, CanSend(p), NEW used \in SUBSET Secrets, Fresh(p, used)
  PROVE  /\ AfterSend(p) \in PeerType /\ AfterSend(p).client = p.client
         /\ Fresh(AfterSend(p), used)
         /\ Ordered(p.skipped, p.lastNow) =>
              Ordered(AfterSend(p).skipped, AfterSend(p).lastNow)
         /\ SealedStart(p) \in Message
<1>1. p.skipped \in Keys BY DEF PeerType
<1>2. Embeds(AfterSend(p).skipped, p.skipped) BY <1>1, SendFacts, EmbedsSame, ZenonT(30)
<1> QED BY <1>2, SendFacts, FewerFresh

\* expire() and a refused record keep the server as it should be.
LEMMA ExpireServerOK ==
  ASSUME NEW g, NEW rq, NEW ad, ServerOK(g, rq, ad), NEW now \in Nat
  PROVE  ServerOK(Expire(g, now), rq, ad)
<1>1. /\ g \in PeerType /\ ~g.client /\ Ordered(g.skipped, g.lastNow)
      /\ \A n \in DOMAIN rq : rq[n] \in Message
      /\ Fresh(g, Spent(rq, ad)) /\ Spent(rq, ad) \in SUBSET Secrets
  BY SpentType DEF ServerOK
<1> DEFINE p == Expire(g, now)
<1>2. /\ p \in PeerType /\ p.client = g.client /\ p.receive = g.receive /\ p.root = g.root
      /\ Embeds(p.skipped, g.skipped) /\ Ordered(p.skipped, p.lastNow)
  BY <1>1, ExpireFacts
<1> HIDE DEF p
<1>3. Len(p.root) >= Len(g.root) BY <1>1, <1>2 DEF PeerType, Roots
<1>4. Fresh(p, Spent(rq, ad)) BY <1>1, <1>2, <1>3, FewerFresh
<1>5. ServerOK(p, rq, ad) BY <1>1, <1>2, <1>4 DEF ServerOK
<1> QED BY <1>5 DEF p

\* The server takes in a request's record again: whatever comes of it, the server is as
\* it should be, and the record of an admitted request does not open.
LEMMA ReceiveServerOK ==
  ASSUME NEW g, NEW rq, NEW ad, ServerOK(g, rq, ad), NEW now \in Nat, NEW n \in DOMAIN rq
  PROVE  LET r == Receive(g, rq[n], now)
         IN  /\ ServerOK(r.peer, rq, ad)
             /\ r.result = "Ok" => /\ rq[n].secret \notin Spent(rq, ad)
                                   /\ Fresh(r.peer, Spent(rq, ad) \cup {rq[n].secret})
<1>1. /\ g \in PeerType /\ ~g.client /\ Ordered(g.skipped, g.lastNow)
      /\ \A k \in DOMAIN rq : rq[k] \in Message
      /\ Fresh(g, Spent(rq, ad)) /\ Spent(rq, ad) \in SUBSET Secrets
  BY SpentType DEF ServerOK
<1> DEFINE r == Receive(g, rq[n], now)
<1>2. /\ r.peer \in PeerType /\ r.peer.client = g.client
      /\ Ordered(r.peer.skipped, r.peer.lastNow) /\ Fresh(r.peer, Spent(rq, ad))
      /\ r.result = "Ok" => /\ rq[n].secret \notin Spent(rq, ad)
                            /\ Fresh(r.peer, Spent(rq, ad) \cup {rq[n].secret})
  BY <1>1, ReceiveFacts, ZenonT(30)
<1> HIDE DEF r
<1>3. ServerOK(r.peer, rq, ad) BY <1>1, <1>2, ZenonT(30) DEF ServerOK
<1> QED BY <1>2, <1>3 DEF r

\* A new session.
LEMMA InitSession == Init => SessionInv
<1> SUFFICES ASSUME Init PROVE SessionInv OBVIOUS
<1>1. WindowInv BY InitWindowInv DEF Init
<1> DEFINE none == <<>>
<1>2. DOMAIN none = {} OBVIOUS
<1>3. /\ <<>> \in Roots /\ <<>> \in Keys /\ NoChain \in SendChains /\ NoChain \in ReceiveChains
      /\ <<"Alice", <<>>>> \in Ciphers /\ <<"Bob", <<>>>> \in Ciphers /\ IsNone(NoChain)
  <2>1. <<>> \in Roots BY DEF Roots
  <2>2. <<>> \in Keys BY DEF Keys
  <2>3. NoChain \in SendChains /\ NoChain \in ReceiveChains BY DEF SendChains, ReceiveChains
  <2>4. <<"Alice", <<>>>> \in Ciphers /\ <<"Bob", <<>>>> \in Ciphers BY <2>1 DEF Ciphers
  <2>5. IsNone(NoChain) BY DEF NoChain, IsNone
  <2> QED BY <2>1, <2>2, <2>3, <2>4, <2>5
<1>4. ASSUME NEW flag \in BOOLEAN, NEW a \in Nat, NEW b \in Nat
      PROVE  LET p == NewPeer(flag, a, b)
             IN  /\ p \in PeerType /\ p.client = flag /\ p.skipped = none
                 /\ p.receive = NoChain
  <2> HIDE DEF NoChain
  <2> QED BY <1>3, ZenonT(30) DEF NewPeer, PeerType
<1>5. /\ client \in PeerType /\ client.skipped = none /\ client.receive = NoChain
      /\ gateway \in PeerType /\ gateway.skipped = none /\ gateway.receive = NoChain
      /\ gateway.client = FALSE
  <2>1. client = NewPeer(TRUE, 0, 1) /\ gateway = NewPeer(FALSE, 1, 0)
    BY DEF Init, Initiator, Responder
  <2>2. TRUE \in BOOLEAN /\ FALSE \in BOOLEAN /\ 0 \in Nat /\ 1 \in Nat OBVIOUS
  <2> HIDE DEF none, NoChain
  <2>3. client \in PeerType /\ client.skipped = none /\ client.receive = NoChain
    BY <1>4, <2>1, <2>2
  <2>4. /\ gateway \in PeerType /\ gateway.skipped = none /\ gateway.receive = NoChain
        /\ gateway.client = FALSE
    BY <1>4, <2>1, <2>2
  <2> QED BY <2>3, <2>4
<1>6. ASSUME NEW p \in PeerType, p.skipped = none, p.receive = NoChain
      PROVE  Fresh(p, {}) /\ Ordered(p.skipped, p.lastNow)
  <2>1. Len(none) = 0 /\ 1 .. 0 = {} OBVIOUS
  <2>2. 1 .. Len(p.skipped) = {} BY <1>6, <2>1, ZenonT(30)
  <2> QED BY <1>3, <1>6, <2>2 DEF Fresh, Ordered
<1>7. DOMAIN requests = {} /\ DOMAIN responses = {} BY <1>2 DEF Init
<1>8. Spent(requests, admissions) = {} BY <1>7 DEF Spent
<1>9. ClientOK(client, responses) BY <1>5, <1>6, <1>7, ZenonT(30) DEF ClientOK
<1>10. ServerOK(gateway, requests, admissions) BY <1>5, <1>6, <1>7, <1>8 DEF ServerOK
<1>11. sealed = {} BY DEF Init, WindowInit
<1>12. \A n \in Numbers : ~(admissions[n] > 0) BY DEF Init, WindowInit
<1> QED BY <1>1, <1>7, <1>9, <1>10, <1>11, <1>12 DEF SessionInv

\* Every step of the session keeps its invariant.
LEMMA NextSession == SessionInv /\ [Next]_vars => SessionInv'
<1> SUFFICES ASSUME SessionInv, [Next]_vars PROVE SessionInv' OBVIOUS
<1> USE TimesAssumption
<1> DEFINE Answered == \A n \in Numbers : admissions[n] > 0 => n \in DOMAIN responses
<1>1. WindowInv' BY WindowStep, NextWindowInv DEF SessionInv
<1>2. /\ WindowInv /\ ClientOK(client, responses) /\ ServerOK(gateway, requests, admissions)
      /\ DOMAIN requests = sealed /\ Answered
  BY DEF SessionInv
<1>3. client \in PeerType /\ gateway \in PeerType BY <1>2 DEF ClientOK, ServerOK
<1>4. admissions \in [Numbers -> Nat] /\ sealed \in SUBSET Numbers
  BY <1>2 DEF WindowInv, WindowTypeOK
<1>5. {} \in SUBSET Secrets OBVIOUS
<1> SUFFICES /\ ClientOK(client', responses') /\ ServerOK(gateway', requests', admissions')
             /\ DOMAIN requests' = sealed' /\ Answered'
  BY <1>1 DEF SessionInv
<1> HIDE DEF Answered
<1>6. CASE Request
  <2>1. /\ CanSend(client) /\ client' = AfterSend(client)
        /\ requests' = Put(requests, starts.next, SealedStart(client))
        /\ sealed' = sealed \cup {starts.next} /\ admissions' = admissions
        /\ gateway' = gateway /\ responses' = responses
    BY <1>6 DEF Request, TakeNumber
  <2>2. /\ AfterSend(client) \in PeerType /\ Fresh(AfterSend(client), {})
        /\ SealedStart(client) \in Message
    BY <1>2, <1>5, <2>1, SendFresh, ZenonT(30) DEF ClientOK
  <2>3. ClientOK(client', responses') BY <1>2, <2>1, <2>2, ZenonT(30) DEF ClientOK
  <2>4. /\ DOMAIN requests' = {starts.next} \cup DOMAIN requests
        /\ requests'[starts.next] = SealedStart(client)
        /\ \A x \in DOMAIN requests \ {starts.next} : requests'[x] = requests[x]
    <3> DEFINE new == Put(requests, starts.next, SealedStart(client))
    <3>1. /\ DOMAIN new = {starts.next} \cup DOMAIN requests
          /\ new[starts.next] = SealedStart(client)
          /\ \A x \in DOMAIN requests \ {starts.next} : new[x] = requests[x]
      BY ZenonT(30) DEF Put
    <3> HIDE DEF new
    <3>2. requests' = new BY <2>1 DEF new
    <3> QED BY <3>1, <3>2, ZenonT(30)
  <2>5. ~(admissions[starts.next] > 0)
    <3>1. starts.next \in Nat /\ server.next \in Nat BY <1>2, FieldTypes DEF WindowInv
    <3>2. server.next <= starts.next BY <1>2, ZenonT(30) DEF WindowInv, ClientWindow
    <3>3. starts.next \in Numbers BY <1>6, <1>1, <2>1 DEF WindowInv, WindowTypeOK
    <3>4. admissions[starts.next] > 0 => starts.next < server.next
      BY <1>2, <3>3 DEF WindowInv, ServerWindow
    <3> QED BY <3>1, <3>2, <3>4
  <2>6. Spent(requests', admissions') \subseteq Spent(requests, admissions)
    BY <2>1, <2>4, <2>5 DEF Spent
  <2>7. \A n \in DOMAIN requests' : requests'[n] \in Message
    BY <1>2, <2>2, <2>4 DEF ServerOK
  <2>8. ServerOK(gateway', requests', admissions')
    BY <1>2, <2>1, <2>6, <2>7, FewerUsed, ZenonT(30) DEF ServerOK
  <2> QED BY <1>2, <2>1, <2>3, <2>4, <2>8, ZenonT(30) DEF Answered
<1>7. CASE RequestFails
  BY <1>2, <1>7 DEF RequestFails, TakeNumberFails, Answered
<1>8. CASE CloseClient
  BY <1>2, <1>8 DEF CloseClient, LeaveClient, Answered
<1>9. CASE CloseServer
  BY <1>2, <1>9 DEF CloseServer, LeaveServer, Answered
<1>10. ASSUME NEW n \in Numbers, StartResponse(n)
       PROVE  /\ ClientOK(client', responses') /\ ServerOK(gateway', requests', admissions')
              /\ DOMAIN requests' = sealed' /\ Answered'
  <2>1. /\ admissions[n] > 0 /\ client' = Receive(client, responses[n], 0).peer
        /\ sealed' = sealed /\ admissions' = admissions /\ gateway' = gateway
        /\ requests' = requests /\ responses' = responses
    BY <1>10 DEF StartResponse, ConfirmNumber
  <2>2. responses[n] \in Message BY <1>2, <2>1 DEF ClientOK, Answered
  <2>3. client' \in PeerType /\ Fresh(client', {})
    BY <1>2, <1>5, <2>1, <2>2, ReceiveFacts, ZenonT(30) DEF ClientOK
  <2>4. ClientOK(client', responses') BY <1>2, <2>1, <2>3 DEF ClientOK
  <2> QED BY <1>2, <2>1, <2>4 DEF Answered
<1>11. ASSUME NEW n \in Numbers, ReleaseStart(n)
       PROVE  /\ ClientOK(client', responses') /\ ServerOK(gateway', requests', admissions')
              /\ DOMAIN requests' = sealed' /\ Answered'
  <2>1. /\ client' \in {client, DiscardDelayed(client)}
        /\ sealed' = sealed /\ admissions' = admissions /\ gateway' = gateway
        /\ requests' = requests /\ responses' = responses
    BY <1>11 DEF ReleaseStart, DropNumber
  <2> DEFINE q == DiscardDelayed(client)
  <2>2. <<>> \in Keys /\ client.skipped \in Keys BY <1>3 DEF Keys, PeerType
  <2>3. q \in PeerType BY <1>3, <2>2, ZenonT(30) DEF DiscardDelayed, PeerType
  <2>4. q.skipped = <<>> /\ q.receive = client.receive /\ q.root = client.root
    BY <1>3 DEF DiscardDelayed, PeerType
  <2> HIDE DEF q
  <2>5. Embeds(q.skipped, client.skipped) /\ Len(q.root) >= Len(client.root)
    <3>1. Len(client.root) \in Nat BY <1>3 DEF PeerType, Roots
    <3>2. Embeds(<<>>, client.skipped) BY <2>2, EmbedsSame
    <3>3. Embeds(q.skipped, client.skipped) BY <2>4, <3>2, ZenonT(30)
    <3> QED BY <2>4, <3>1, <3>3
  <2>6. Fresh(q, {}) BY <1>2, <1>5, <2>3, <2>4, <2>5, FewerFresh, ZenonT(30) DEF ClientOK
  <2>7. ClientOK(client', responses') BY <1>2, <2>1, <2>3, <2>6 DEF ClientOK, q
  <2> QED BY <1>2, <2>1, <2>7 DEF Answered
<1>12. ASSUME NEW n \in Numbers, NEW now \in Times, AcceptStart(n, now)
       PROVE  /\ ClientOK(client', responses') /\ ServerOK(gateway', requests', admissions')
              /\ DOMAIN requests' = sealed' /\ Answered'
  <2> DEFINE r == Receive(gateway, requests[n], now)
  <2>1. /\ n \in sealed /\ r.result = "Ok" /\ CanSend(r.peer)
        /\ gateway' = AfterSend(r.peer) /\ responses' = Put(responses, n, SealedStart(r.peer))
        /\ client' = client /\ requests' = requests /\ sealed' = sealed
        /\ admissions' = [admissions EXCEPT ![n] = @ + 1]
    BY <1>12 DEF AcceptStart, AdmitNumber
  <2>2. /\ ServerOK(r.peer, requests, admissions)
        /\ Fresh(r.peer, Spent(requests, admissions) \cup {requests[n].secret})
    BY <1>2, <2>1, ReceiveServerOK, ZenonT(30)
  <2> HIDE DEF r
  <2>3. requests[n] \in Message BY <1>2, <2>1 DEF ServerOK
  <2> DEFINE used == Spent(requests, admissions) \cup {requests[n].secret}
  <2>4. used \in SUBSET Secrets BY <2>2, <2>3, SpentType, MessageFacts
  <2>5. Spent(requests', admissions') \subseteq used
    BY <1>2, <1>4, <2>1, ZenonT(30) DEF Spent
  <2> HIDE DEF used
  <2>6. r.peer \in PeerType /\ ~r.peer.client /\ Ordered(r.peer.skipped, r.peer.lastNow)
    BY <2>2 DEF ServerOK
  <2>7. /\ gateway' \in PeerType /\ ~gateway'.client /\ Fresh(gateway', used)
        /\ Ordered(gateway'.skipped, gateway'.lastNow) /\ SealedStart(r.peer) \in Message
    <3>1. Fresh(r.peer, used) BY <2>2 DEF used
    <3> QED BY <2>1, <2>4, <2>6, <3>1, SendFresh
  <2>8. Fresh(gateway', Spent(requests', admissions')) BY <2>5, <2>7, FewerUsed
  <2>9. ServerOK(gateway', requests', admissions') BY <1>2, <2>1, <2>7, <2>8 DEF ServerOK
  <2>10. /\ DOMAIN responses' = {n} \cup DOMAIN responses
         /\ responses'[n] = SealedStart(r.peer)
         /\ \A x \in DOMAIN responses \ {n} : responses'[x] = responses[x]
    <3> DEFINE new == Put(responses, n, SealedStart(r.peer))
    <3>1. /\ DOMAIN new = {n} \cup DOMAIN responses
          /\ new[n] = SealedStart(r.peer)
          /\ \A x \in DOMAIN responses \ {n} : new[x] = responses[x]
      BY DEF Put
    <3> HIDE DEF new
    <3>2. responses' = new BY <2>1 DEF new
    <3> QED BY <3>1, <3>2, ZenonT(30)
  <2>11. ClientOK(client', responses') BY <1>2, <2>1, <2>7, <2>10, ZenonT(30) DEF ClientOK
  <2>12. Answered' BY <1>2, <1>4, <2>1, <2>10, ZenonT(30) DEF Answered
  <2> QED BY <1>2, <2>1, <2>9, <2>11, <2>12
<1>13. ASSUME NEW n \in Numbers, NEW now \in Times, RejectStart(n, now)
       PROVE  /\ ClientOK(client', responses') /\ ServerOK(gateway', requests', admissions')
              /\ DOMAIN requests' = sealed' /\ Answered'
  <2>1. /\ gateway' = Expire(gateway, now) /\ client' = client /\ requests' = requests
        /\ responses' = responses /\ sealed' = sealed /\ admissions' = admissions
    BY <1>13 DEF RejectStart, TurnAwayNumber
  <2>2. ServerOK(Expire(gateway, now), requests, admissions) BY <1>2, ExpireServerOK
  <2> QED BY <1>2, <2>1, <2>2 DEF Answered
<1>14. ASSUME NEW n \in Numbers, NEW now \in Times, RefuseStart(n, now)
       PROVE  /\ ClientOK(client', responses') /\ ServerOK(gateway', requests', admissions')
              /\ DOMAIN requests' = sealed' /\ Answered'
  <2>1. /\ n \in sealed /\ gateway' = Receive(gateway, requests[n], now).peer
        /\ client' = client /\ requests' = requests
        /\ responses' = responses /\ sealed' = sealed /\ admissions' = admissions
    BY <1>14 DEF RefuseStart, TurnAwayNumber
  <2>2. ServerOK(Receive(gateway, requests[n], now).peer, requests, admissions)
    BY <1>2, <2>1, ReceiveServerOK, ZenonT(30)
  <2> QED BY <1>2, <2>1, <2>2 DEF Answered
<1>15. ASSUME NEW now \in Times, ExpireServer(now)
       PROVE  /\ ClientOK(client', responses') /\ ServerOK(gateway', requests', admissions')
              /\ DOMAIN requests' = sealed' /\ Answered'
  <2>1. /\ gateway' = Expire(gateway, now) /\ client' = client /\ requests' = requests
        /\ responses' = responses /\ sealed' = sealed /\ admissions' = admissions
    BY <1>15 DEF ExpireServer, window
  <2>2. ServerOK(Expire(gateway, now), requests, admissions) BY <1>2, ExpireServerOK
  <2> QED BY <1>2, <2>1, <2>2 DEF Answered
<1>16. CASE UNCHANGED vars BY <1>2, <1>16 DEF vars, Answered
<1> QED
  BY <1>6, <1>7, <1>8, <1>9, <1>10, <1>11, <1>12, <1>13, <1>14, <1>15, <1>16, ZenonT(30) DEF Next

\* A key is gone once it is used or out of time: Peer::receive of the server refuses the
\* record of every admitted request by itself, however the network repeats it, and
\* expire() leaves no key past its deadline, whatever clocks its callers pass.
THEOREM UsedKeysGone == Spec => []KeysGone
<1>1. SessionInv => KeysGone
  <2> SUFFICES ASSUME SessionInv PROVE KeysGone OBVIOUS
  <2>1. ServerOK(gateway, requests, admissions) BY DEF SessionInv
  <2>2. gateway \in PeerType /\ Ordered(gateway.skipped, gateway.lastNow)
    BY <2>1 DEF ServerOK
  <2>3. gateway.lastNow \in Nat /\ gateway.skipped \in Keys BY <2>2 DEF PeerType
  <2>4. ASSUME NEW n \in DOMAIN requests, admissions[n] > 0
        PROVE  Receive(gateway, requests[n], gateway.lastNow).result # "Ok"
    <3>1. requests[n].secret \in Spent(requests, admissions) BY <2>4 DEF Spent
    <3> QED BY <2>1, <2>3, <3>1, ReceiveServerOK
  <2>5. ASSUME NEW k \in Range(gateway.skipped) PROVE k.expires > gateway.lastNow
    <3>1. PICK i \in 1 .. Len(gateway.skipped) : k = gateway.skipped[i]
      BY <2>3 DEF Range, Keys
    <3>2. k \in Key BY <2>3, <3>1 DEF Keys
    <3>3. k.expires \in Nat BY <3>2 DEF Key
    <3> QED BY <2>2, <2>3, <3>1, <3>3 DEF Ordered
  <2> QED BY <2>4, <2>5 DEF KeysGone
<1> QED BY <1>1, InitSession, NextSession, PTL DEF Spec
=============================================================================
