-------------------------- MODULE Accounts_proofs --------------------------
(***************************************************************************)
(* Accounts, their sessions and the limiters in front of the password      *)
(* hashes, for any number of requests, addresses and accounts and for any  *)
(* limits and window.                                                      *)
(*                                                                         *)
(* The rows: their two facts are inductive together.  A request that is    *)
(* still hashing may remember an account that is gone, so nothing about    *)
(* requests is needed, only what the database checks when a row is         *)
(* written.                                                                *)
(*                                                                         *)
(* The limiters: a log holds the attempts of a key in ascending order, and *)
(* for every moment t inside the window it holds at least as many attempts *)
(* since t as registrations that began at t or later are being hashed, and *)
(* at most as many as sign-ins since t still run or have failed.  The      *)
(* bound on the window as a whole is not inductive: a successful sign-in   *)
(* withdraws the most recent attempt, which need not be its own, and as    *)
(* the window moves only the counts since later moments say what is left.  *)
(***************************************************************************)
EXTENDS Accounts, SequenceTheorems, FiniteSetTheorems, WellFoundedInduction, TLAPS

RowsInv == OneAccountPerEmail /\ SessionsBelongToAccounts

LEMMA RowsInitInv == AccInit => RowsInv
  BY DEF AccInit, RowsInv, OneAccountPerEmail, SessionsBelongToAccounts

\* Steps that leave the accounts alone and add no session.
LEMMA FewerSessions ==
  ASSUME RowsInv, users' = users, sessions' \subseteq sessions
  PROVE  RowsInv'
  BY DEF RowsInv, OneAccountPerEmail, SessionsBelongToAccounts, Ids

LEMMA OpenSessionStep ==
  ASSUME RowsInv, NEW r \in Requests, OpenSession(r)
  PROVE  RowsInv'
<1>1. /\ users' = users /\ req[r].user \in Ids
      /\ \E k \in Tokens :
           sessions' = sessions \cup {[token |-> k, user |-> req[r].user, expires |-> req[r].expires]}
  BY DEF OpenSession
<1>2. OneAccountPerEmail'
  BY <1>1 DEF RowsInv, OneAccountPerEmail
<1>3. SessionsBelongToAccounts'
  <2>1. \A s \in sessions' : s \in sessions \/ s.user = req[r].user
    BY <1>1
  <2> QED BY <1>1, <2>1 DEF RowsInv, SessionsBelongToAccounts, Ids
<1> QED BY <1>2, <1>3 DEF RowsInv

LEMMA EnrolStep ==
  ASSUME RowsInv, NEW r \in Requests, Enrol(r)
  PROVE  RowsInv'
<1>1. PICK u \in UserIds, k \in Tokens :
        /\ users' = users \cup {[id |-> u, email |-> req[r].email]}
        /\ sessions' = sessions \cup {[token |-> k, user |-> u, expires |-> req[r].expires]}
  BY DEF Enrol
<1>2. \A x \in users : x.email # req[r].email
  BY DEF Enrol
<1>3. OneAccountPerEmail'
  BY <1>1, <1>2 DEF RowsInv, OneAccountPerEmail
<1>4. SessionsBelongToAccounts'
  <2> DEFINE new == [id |-> u, email |-> req[r].email]
  <2>0. new \in users' /\ new.id = u /\ users \subseteq users'
    BY <1>1
  <2>1. Ids \cup {u} \subseteq Ids'
    BY <2>0 DEF Ids
  <2>2. \A s \in sessions' : s \in sessions \/ s.user = u
    BY <1>1
  <2> QED BY <2>1, <2>2 DEF RowsInv, SessionsBelongToAccounts
<1> QED BY <1>3, <1>4 DEF RowsInv

LEMMA EraseStep ==
  ASSUME RowsInv, NEW r \in Requests, Erase(r)
  PROVE  RowsInv'
<1>1. /\ users' = {x \in users : x.id # req[r].user}
      /\ sessions' = {s \in sessions : s.user # req[r].user}
  BY DEF Erase
<1>2. OneAccountPerEmail'
  BY <1>1 DEF RowsInv, OneAccountPerEmail
<1>3. SessionsBelongToAccounts'
  BY <1>1 DEF RowsInv, SessionsBelongToAccounts, Ids
<1> QED BY <1>2, <1>3 DEF RowsInv

LEMMA RowsInvStep == RowsInv /\ [AccNext]_accVars => RowsInv'
<1> SUFFICES ASSUME RowsInv, [AccNext]_accVars PROVE RowsInv'
  OBVIOUS
<1>1. ASSUME NEW r \in Requests, NEW a \in Addresses, NEW e \in Emails, Login(r, a, e) \/ Register(r, a, e)
      PROVE  RowsInv'
  BY <1>1, FewerSessions DEF Login, Register, rows
<1>2. ASSUME NEW r \in Requests, LookUp(r) \/ Accept(r) \/ Hash(r) \/ Refuse(r)
      PROVE  RowsInv'
  BY <1>2, FewerSessions DEF LookUp, Accept, Hash, Refuse, rows
<1>3. ASSUME NEW r \in Requests, NEW s \in sessions, BeginErase(r, s)
      PROVE  RowsInv'
  BY <1>3, FewerSessions DEF BeginErase, rows
<1>4. ASSUME NEW s \in sessions, Logout(s)
      PROVE  RowsInv'
  BY <1>4, FewerSessions DEF Logout
<1>5. CASE Purge
  BY <1>5, FewerSessions DEF Purge
<1>6. CASE Restart \/ Tick
  BY <1>6, FewerSessions DEF Restart, Tick, rows
<1>7. CASE UNCHANGED accVars
  BY <1>7, FewerSessions DEF accVars
<1> QED BY <1>1, <1>2, <1>3, <1>4, <1>5, <1>6, <1>7, OpenSessionStep, EnrolStep, EraseStep DEF AccNext

LEMMA RowsInvariance == AccSpec => []RowsInv
  BY RowsInitInv, RowsInvStep, PTL DEF AccSpec

\* However registrations and deletions overlap, an e-mail address has one
\* account at most.
THEOREM EmailsStayUnique == AccSpec => []OneAccountPerEmail
<1>1. RowsInv => OneAccountPerEmail
  BY DEF RowsInv
<1> QED BY <1>1, RowsInvariance, PTL

\* A session has its account, also when a sign-in that had found the account
\* ends after its deletion: nothing of a deleted account authenticates again.
THEOREM SessionsStayOwned == AccSpec => []SessionsBelongToAccounts
<1>1. RowsInv => SessionsBelongToAccounts
  BY DEF RowsInv
<1> QED BY <1>1, RowsInvariance, PTL

-----------------------------------------------------------------------------

LEMMA SessionEnds ==
  ASSUME AccNext, NEW s \in sessions, s \notin sessions'
  PROVE  s.expires <= now \/ s.user \notin {x.id : x \in users'} \/ Logout(s)
<1>1. ASSUME NEW r \in Requests, NEW a \in Addresses, NEW e \in Emails, Login(r, a, e) \/ Register(r, a, e)
      PROVE  FALSE
  BY <1>1 DEF Login, Register, rows
<1>2. ASSUME NEW r \in Requests,
             LookUp(r) \/ Accept(r) \/ Hash(r) \/ Refuse(r) \/ OpenSession(r) \/ Enrol(r)
      PROVE  FALSE
  BY <1>2 DEF LookUp, Accept, Hash, Refuse, OpenSession, Enrol, rows
<1>3. ASSUME NEW r \in Requests, NEW z \in sessions, BeginErase(r, z)
      PROVE  FALSE
  BY <1>3 DEF BeginErase, rows
<1>4. ASSUME NEW z \in sessions, Logout(z)
      PROVE  Logout(s)
  <2>1. s = z
    BY <1>4 DEF Logout
  <2> QED BY <1>4, <2>1
<1>5. CASE Purge
  BY <1>5 DEF Purge
<1>6. CASE Restart \/ Tick
  BY <1>6 DEF Restart, Tick, rows
<1>7. ASSUME NEW r \in Requests, Erase(r)
      PROVE  s.user \notin {x.id : x \in users'}
  BY <1>7 DEF Erase
<1> QED BY <1>1, <1>2, <1>3, <1>4, <1>5, <1>6, <1>7 DEF AccNext

\* A session that has not expired ends by signing out of it or with its
\* account, in no other way.
THEOREM OnlyReasonsEndSessions == AccSpec => SessionsEndForAReason
<1>1. [AccNext]_accVars =>
        [\A s \in sessions \ sessions' :
           \/ s.expires <= now
           \/ s.user \notin {x.id : x \in users'}
           \/ Logout(s)]_accVars
  BY SessionEnds
<1> QED BY <1>1, PTL DEF AccSpec, SessionsEndForAReason

-----------------------------------------------------------------------------
(* The limiters.                                                           *)

Ascends(s) == \A i, j \in 1..Len(s) : i <= j => s[i] <= s[j]

\* The attempts recorded under one key up to the moment t, oldest first.
LogOK(s, t) == s \in Seq(0..t) /\ Ascends(s)

\* At most, at least n attempts of a log were made at t or later.
AtMostSince(s, t, n) == Len(s) > n => s[Len(s) - n] < t
AtLeastSince(s, t, n) == n > 0 => n <= Len(s) /\ s[Len(s) - n + 1] >= t

Busy == {r \in Requests : req[r] # Idle}

\* The requests of an address that began at t or later, by where they stand.
Running(f, pcs, a, t) ==
  {r \in Requests : f[r].pc \in pcs /\ f[r].address = a /\ f[r].at >= t}

LogsAscend ==
  /\ \A k \in Addresses \X Emails : LogOK(perAccount[k], now)
  /\ \A a \in Addresses : LogOK(perAddress[a], now) /\ LogOK(registrations[a], now)

StartsPast ==
  \A r \in Requests : req[r].pc \in SigningIn \cup Registering => req[r].at <= now

SignInsCounted ==
  \A a \in Addresses, t \in Times : t + Window > now =>
    AtMostSince(perAddress[a], t, Cardinality(Running(req, SigningIn, a, t)) + wasted[a][t])

RegistrationsCounted ==
  \A a \in Addresses, t \in Times : t + Window > now =>
    AtLeastSince(registrations[a], t, Cardinality(Running(req, Registering, a, t)))

RegistrationsLimited ==
  \A a \in Addresses : Len(Recent(registrations[a], now)) <= RegisterLimit

BusyFinite == IsFiniteSet(Busy)

LimitInv ==
  /\ AccTypeOK
  /\ BusyFinite
  /\ LogsAscend
  /\ StartsPast
  /\ SignInsCounted
  /\ RegistrationsCounted
  /\ RegistrationsLimited

-----------------------------------------------------------------------------

NatLess == {p \in Nat \X Nat : p[1] < p[2]}

LEMMA LeastNatural ==
  ASSUME NEW T, T \subseteq Nat, T # {}
  PROVE  \E x \in T : \A y \in T : x <= y
<1>1. IsWellFoundedOn(NatLess, Nat)
  BY NatLessThanWellFounded DEF OpToRel, NatLess
<1>2. PICK x \in T : \A y \in T : ~ (<<y, x>> \in NatLess)
  BY <1>1, WFMin, Zenon
<1>3. \A y \in Nat : y < x <=> <<y, x>> \in NatLess
  BY DEF NatLess
<1>4. \A y \in Nat : ~(y < x) => x <= y
  OBVIOUS
<1> QED BY <1>2, <1>3, <1>4

\* In an ascending log, the attempts that count are those after a cut.
LEMMA LogCut ==
  ASSUME NEW s \in Seq(Nat), Ascends(s), NEW t \in Nat
  PROVE  \E k \in 0..Len(s) : /\ \A i \in 1..k : ~(s[i] + Window > t)
                              /\ \A i \in (k + 1)..Len(s) : s[i] + Window > t
<1> USE WindowAssumption
<1> DEFINE T == {k \in 0..Len(s) : \A i \in (k + 1)..Len(s) : s[i] + Window > t}
<1>1. Len(s) \in T
  OBVIOUS
<1>2. T \subseteq Nat /\ T # {}
  BY <1>1
<1>3. PICK k \in T : \A y \in T : k <= y
  <2> HIDE DEF T
  <2> QED BY <1>2, LeastNatural
<1>4. ASSUME NEW i \in 1..k, s[i] + Window > t
      PROVE  FALSE
  <2>1. s[i] <= s[k] /\ s[i] \in Nat /\ s[k] \in Nat
    BY DEF Ascends
  <2>2. s[k] + Window > t
    BY <2>1, <1>4
  <2>3. k - 1 \in T
    <3>1. k - 1 \in 0..Len(s)
      OBVIOUS
    <3>2. \A j \in k..Len(s) : j = k \/ j \in (k + 1)..Len(s)
      OBVIOUS
    <3> QED BY <3>1, <3>2, <2>2
  <2> QED BY <1>3, <2>3
<1> QED BY <1>4

\* A function defined like the local one of Recent is the one that collects
\* the attempts after the cut.
LEMMA RecentIsTail ==
  ASSUME NEW s \in Seq(Nat), NEW t \in Nat, NEW k \in 0..Len(s),
         \A i \in 1..k : ~(s[i] + Window > t),
         \A i \in (k + 1)..Len(s) : s[i] + Window > t
  PROVE  Recent(s, t) = SubSeq(s, k + 1, Len(s))
<1> USE WindowAssumption
<1> DEFINE n == Len(s)
           Step(f, i) == IF i = 0 THEN <<>>
                         ELSE IF s[i] + Window > t THEN Append(f[i - 1], s[i])
                         ELSE f[i - 1]
           tail == [i \in 0..n |-> IF i <= k THEN <<>> ELSE SubSeq(s, k + 1, i)]
           Upto == CHOOSE f : f = [i \in 0..n |-> Step(f, i)]
<1>0. Recent(s, t) = Upto[n]
  BY DEF Recent
<1>1. ASSUME NEW i \in 0..n
      PROVE  tail[i] = Step(tail, i)
  <2>1. CASE i = 0
    BY <2>1
  <2>2. CASE i \in 1..k
    <3>1. tail[i] = <<>> /\ tail[i - 1] = <<>>
      BY <2>2
    <3>2. ~(s[i] + Window > t) /\ i # 0
      BY <2>2
    <3>3. Step(tail, i) = tail[i - 1]
      <4> HIDE DEF tail
      <4> QED BY <3>2
    <3> QED BY <3>1, <3>3
  <2>3. CASE i = k + 1
    <3>1. SubSeq(s, i, i) = <<s[i]>>
      <4>1. i \in 1..n /\ SubSeq(s, i, i - 1) = <<>>
        BY <2>3, SubSeqEmpty
      <4>2. SubSeq(s, i, i) = SubSeq(s, i, i - 1) \o <<s[i]>>
        BY <4>1, SubSeqRecursiveSecond
      <4>3. <<>> \o <<s[i]>> = <<s[i]>>
        BY <4>1, ConcatEmptySeq
      <4> QED BY <4>1, <4>2, <4>3
    <3>2. tail[i] = <<s[i]>> /\ tail[i - 1] = <<>>
      BY <2>3, <3>1
    <3>3. s[i] + Window > t /\ i # 0
      BY <2>3
    <3>4. Step(tail, i) = Append(tail[i - 1], s[i])
      <4> HIDE DEF tail
      <4> QED BY <3>3
    <3>5. Append(<<>>, s[i]) = <<s[i]>>
      OBVIOUS
    <3> HIDE DEF tail, Step
    <3> QED BY <3>2, <3>4, <3>5
  <2>4. CASE i \in (k + 2)..n
    <3>1. SubSeq(s, k + 1, i) = Append(SubSeq(s, k + 1, i - 1), s[i])
      <4>1. k + 1 \in 1..n /\ i \in (k + 1)..n /\ i - 1 \in (k + 1)..n
        BY <2>4
      <4>2. SubSeq(s, k + 1, i) = SubSeq(s, k + 1, i - 1) \o <<s[i]>>
        BY <4>1, SubSeqRecursiveSecond
      <4>3. SubSeq(s, k + 1, i - 1) \in Seq(Nat) /\ s[i] \in Nat
        BY <4>1
      <4> QED BY <4>2, <4>3, AppendIsConcat
    <3>2. tail[i] = SubSeq(s, k + 1, i) /\ tail[i - 1] = SubSeq(s, k + 1, i - 1)
      BY <2>4
    <3>3. s[i] + Window > t /\ i # 0
      BY <2>4
    <3>4. Step(tail, i) = Append(tail[i - 1], s[i])
      <4> HIDE DEF tail
      <4> QED BY <3>3
    <3> HIDE DEF tail, Step
    <3> QED BY <3>1, <3>2, <3>4
  <2> QED BY <2>1, <2>2, <2>3, <2>4
<1>2. tail = [i \in 0..n |-> Step(tail, i)]
  <2> HIDE DEF Step
  <2>1. tail = [i \in 0..n |-> tail[i]]
    OBVIOUS
  <2> HIDE DEF tail
  <2> QED BY <2>1, <1>1
<1>3. Upto = [i \in 0..n |-> Step(Upto, i)]
  <2> HIDE DEF Step, tail
  <2> QED BY <1>2
<1>4. tail[n] = SubSeq(s, k + 1, n)
  <2>1. n <= k => SubSeq(s, k + 1, n) = <<>>
    BY SubSeqEmpty
  <2> QED BY <2>1
<1>5. n \in Nat
  OBVIOUS
<1> HIDE DEF n, Upto, tail
<1>6. \A i \in 0..n : i = 0 \/ Upto[i - 1] = tail[i - 1] => Upto[i] = tail[i]
  <2> SUFFICES ASSUME NEW i \in 0..n, i = 0 \/ Upto[i - 1] = tail[i - 1]
               PROVE  Upto[i] = tail[i]
    OBVIOUS
  <2>1. Step(Upto, i) = Step(tail, i)
    OBVIOUS
  <2>2. Upto[i] = Step(Upto, i)
    <3> HIDE DEF Step
    <3> QED BY <1>3
  <2> HIDE DEF Step
  <2> QED BY <2>1, <2>2, <1>1
<1>7. Upto[n] = tail[n]
  <2> DEFINE Wrong == {i \in 0..n : Upto[i] # tail[i]}
  <2> SUFFICES ASSUME Wrong # {} PROVE FALSE
    <3>1. n \in 0..n
      BY <1>5
    <3> QED BY <3>1
  <2>1. Wrong \subseteq Nat
    BY <1>5
  <2>2. PICK m \in Wrong : \A y \in Wrong : m <= y
    <3> HIDE DEF Wrong
    <3> QED BY <2>1, LeastNatural
  <2>3. m \in 0..n /\ Upto[m] # tail[m]
    OBVIOUS
  <2>4. m = 0 \/ (m - 1 \in 0..n /\ ~(m <= m - 1))
    BY <2>3, <1>5
  <2>5. m = 0 \/ Upto[m - 1] = tail[m - 1]
    BY <2>2, <2>4
  <2> QED BY <2>3, <2>5, <1>6
<1> QED BY <1>0, <1>4, <1>7 DEF n

\* What Recent keeps of a log: its last attempts, each of which still counts,
\* and none of those it drops does.
LEMMA RecentOfLog ==
  ASSUME NEW S, S \subseteq Nat, NEW s \in Seq(S), Ascends(s), NEW t \in Nat
  PROVE  LET r == Recent(s, t)
             d == Len(s) - Len(r)
         IN /\ r \in Seq(S) /\ Ascends(r)
            /\ d \in Nat
            /\ \A i \in 1..d : ~(s[i] + Window > t)
            /\ \A i \in (d + 1)..Len(s) : s[i] + Window > t
            /\ \A i \in 1..Len(r) : r[i] = s[d + i]
<1>1. PICK k \in 0..Len(s) : /\ \A i \in 1..k : ~(s[i] + Window > t)
                             /\ \A i \in (k + 1)..Len(s) : s[i] + Window > t
  <2>1. s \in Seq(Nat)
    BY SeqMonotonic
  <2> QED BY <2>1, LogCut
<1> DEFINE r == Recent(s, t)
<1>2. r = SubSeq(s, k + 1, Len(s))
  <2>1. s \in Seq(Nat)
    BY SeqMonotonic
  <2> QED BY <1>1, <2>1, RecentIsTail
<1> HIDE DEF r
<1>3. /\ r \in Seq(S)
      /\ Len(r) = Len(s) - k
      /\ \A i \in 1..Len(r) : r[i] = s[k + i]
  <2>1. \A i \in (k + 1)..Len(s) : s[i] \in S
    OBVIOUS
  <2>2. /\ SubSeq(s, k + 1, Len(s)) \in Seq(S)
        /\ Len(SubSeq(s, k + 1, Len(s))) = IF k + 1 <= Len(s) THEN Len(s) - (k + 1) + 1 ELSE 0
        /\ \A i \in 1..(Len(s) - (k + 1) + 1) : SubSeq(s, k + 1, Len(s))[i] = s[(k + 1) + i - 1]
    BY <2>1, SubSeqProperties
  <2> QED BY <1>2, <2>2
<1>4. Ascends(r)
  <2>1. \A i \in 1..Len(r) : k + i \in 1..Len(s)
    BY <1>3
  <2>2. \A i, j \in 1..Len(r) : i <= j => s[k + i] <= s[k + j]
    BY <2>1, <1>3 DEF Ascends
  <2> QED BY <1>3, <2>2 DEF Ascends
<1> QED BY <1>1, <1>3, <1>4 DEF r
LEMMA LogGrowsOld ==
  ASSUME NEW u \in Nat, NEW t \in Nat, u <= t, NEW s, LogOK(s, u)
  PROVE  LogOK(s, t)
<1>1. 0..u \subseteq 0..t
  OBVIOUS
<1> QED BY <1>1, SeqMonotonic DEF LogOK

\* What Recent keeps of a log of the past, for the operations to build on.
LEMMA KeptOfLog ==
  ASSUME NEW t \in Nat, NEW s, LogOK(s, t)
  PROVE  LET r == Recent(s, t)
             d == Len(s) - Len(r)
         IN /\ LogOK(r, t)
            /\ d \in Nat
            /\ \A i \in 1..d : ~(s[i] + Window > t)
            /\ \A i \in (d + 1)..Len(s) : s[i] + Window > t
            /\ \A i \in 1..Len(r) : r[i] = s[d + i]
<1>1. 0..t \subseteq Nat
  OBVIOUS
<1>2. s \in Seq(0..t) /\ Ascends(s)
  BY DEF LogOK
<1> QED BY <1>1, <1>2, RecentOfLog DEF LogOK

\* More than n attempts only if the one n before the last counts.
LEMMA ManyRecent ==
  ASSUME NEW t \in Nat, NEW s, LogOK(s, t), NEW n \in Nat
  PROVE  Len(Recent(s, t)) > n <=> Len(s) > n /\ s[Len(s) - n] + Window > t
<1> DEFINE r == Recent(s, t)
           d == Len(s) - Len(r)
<1>1. /\ s \in Seq(0..t) /\ r \in Seq(0..t)
      /\ d \in Nat
      /\ \A i \in 1..d : ~(s[i] + Window > t)
      /\ \A i \in (d + 1)..Len(s) : s[i] + Window > t
  BY KeptOfLog DEF LogOK
<1>2. Len(s) \in Nat /\ Len(r) \in Nat /\ Len(s) = d + Len(r)
  BY <1>1
<1> HIDE DEF r, d
<1>3. ASSUME Len(r) > n
      PROVE  Len(s) > n /\ s[Len(s) - n] + Window > t
  <2>1. Len(s) - n \in (d + 1)..Len(s)
    BY <1>1, <1>2, <1>3
  <2> QED BY <1>1, <1>2, <1>3, <2>1
<1>4. ASSUME Len(s) > n, ~(Len(r) > n)
      PROVE  ~(s[Len(s) - n] + Window > t)
  <2>1. Len(s) - n \in 1..d
    BY <1>1, <1>2, <1>4
  <2> QED BY <1>1, <2>1
<1> QED BY <1>3, <1>4 DEF r

\* Recording an attempt at t.
LEMMA RecordedLog ==
  ASSUME NEW t \in Nat, NEW s, LogOK(s, t), NEW x \in Nat, x + Window > t, NEW n \in Nat
  PROVE  LET q == Append(Recent(s, t), t)
         IN /\ LogOK(q, t)
            /\ AtMostSince(s, x, n) => AtMostSince(q, x, n + 1)
            /\ x > t => AtMostSince(q, x, n)
            /\ AtLeastSince(s, x, n) => AtLeastSince(q, x, n)
            /\ x <= t /\ AtLeastSince(s, x, n) => AtLeastSince(q, x, n + 1)
            /\ Len(Recent(q, t)) = Len(Recent(s, t)) + 1
<1> DEFINE r == Recent(s, t)
           d == Len(s) - Len(r)
           q == Append(r, t)
<1> USE WindowAssumption
<1>1. /\ s \in Seq(0..t) /\ r \in Seq(0..t) /\ Ascends(s) /\ Ascends(r)
      /\ d \in Nat
      /\ \A i \in 1..d : ~(s[i] + Window > t)
      /\ \A i \in (d + 1)..Len(s) : s[i] + Window > t
      /\ \A i \in 1..Len(r) : r[i] = s[d + i]
  BY KeptOfLog DEF LogOK
<1>2. Len(s) \in Nat /\ Len(r) \in Nat /\ Len(s) = d + Len(r)
  BY <1>1
<1> HIDE DEF r, d
<1>3. /\ q \in Seq(0..t)
      /\ Len(q) = Len(r) + 1
      /\ \A i \in 1..Len(r) : q[i] = r[i]
      /\ q[Len(r) + 1] = t
  BY <1>1, AppendProperties
<1> HIDE DEF q
<1>4. \A i \in 1..Len(r) : q[i] = s[d + i] /\ q[i] \in 0..t
  BY <1>1, <1>3
<1>5. LogOK(q, t)
  <2>1. \A i, j \in 1..Len(q) : i <= j => q[i] <= q[j]
    <3>1. \A i \in 1..Len(q) : i \in 1..Len(r) \/ i = Len(r) + 1
      BY <1>2, <1>3
    <3>2. \A i, j \in 1..Len(r) : i <= j => q[i] <= q[j]
      BY <1>1, <1>3 DEF Ascends
    <3>3. \A i \in 1..Len(q) : q[i] <= t
      BY <1>3
    <3> QED BY <3>1, <3>2, <3>3, <1>2, <1>3
  <2> QED BY <2>1, <1>3 DEF LogOK, Ascends
<1>6. ASSUME AtMostSince(s, x, n)
      PROVE  AtMostSince(q, x, n + 1)
  <2> SUFFICES ASSUME Len(q) > n + 1 PROVE q[Len(q) - (n + 1)] < x
    BY DEF AtMostSince
  <2>1. Len(q) - (n + 1) \in 1..Len(r) /\ d + (Len(q) - (n + 1)) = Len(s) - n /\ Len(s) > n
    BY <1>1, <1>2, <1>3
  <2> QED BY <2>1, <1>4, <1>6 DEF AtMostSince
<1>7. x > t => AtMostSince(q, x, n)
  <2> SUFFICES ASSUME x > t, Len(q) > n PROVE q[Len(q) - n] < x
    BY DEF AtMostSince
  <2>1. Len(q) - n \in 1..Len(q)
    BY <1>2, <1>3
  <2>2. q[Len(q) - n] \in 0..t
    BY <2>1, <1>3
  <2> QED BY <2>2
<1>8. ASSUME AtLeastSince(s, x, n), n > 0
      PROVE  n <= Len(r) /\ \A i \in 1..Len(r) : i >= Len(r) - n + 1 => q[i] >= x
  <2>1. n <= Len(s) /\ s[Len(s) - n + 1] >= x
    BY <1>8 DEF AtLeastSince
  <2>2. Len(s) - n + 1 \in 1..Len(s) /\ s[Len(s) - n + 1] \in 0..t
    BY <2>1, <1>1, <1>2, <1>8
  <2>3. s[Len(s) - n + 1] + Window > t
    BY <2>1, <2>2
  <2>4. ~(Len(s) - n + 1 \in 1..d)
    BY <2>3, <1>1
  <2>5. n <= Len(r)
    BY <2>2, <2>4, <1>1, <1>2, <1>8
  <2>6. ASSUME NEW i \in 1..Len(r), i >= Len(r) - n + 1
        PROVE  q[i] >= x
    <3>1. d + i \in 1..Len(s) /\ Len(s) - n + 1 <= d + i
      BY <1>1, <1>2, <2>5, <2>6
    <3>2. s[Len(s) - n + 1] <= s[d + i]
      BY <3>1, <2>2, <1>1 DEF Ascends
    <3>3. s[d + i] \in 0..t
      BY <3>1, <1>1
    <3> QED BY <3>2, <3>3, <2>1, <2>2, <1>4
  <2> QED BY <2>5, <2>6
<1>9. ASSUME AtLeastSince(s, x, n)
      PROVE  AtLeastSince(q, x, n)
  <2> SUFFICES ASSUME n > 0 PROVE n <= Len(q) /\ q[Len(q) - n + 1] >= x
    BY DEF AtLeastSince
  <2>1. n <= Len(r) /\ \A i \in 1..Len(r) : i >= Len(r) - n + 1 => q[i] >= x
    BY <1>8, <1>9
  <2>2. CASE n = 1
    <3>1. Len(r) \in 1..Len(r) /\ q[Len(r)] >= x
      BY <2>1, <2>2, <1>2
    <3>2. Len(r) \in 1..Len(q) /\ Len(r) + 1 \in 1..Len(q)
      BY <3>1, <1>2, <1>3
    <3>3. q[Len(r)] <= q[Len(r) + 1]
      BY <3>2, <1>5, <1>2 DEF LogOK, Ascends
    <3>4. q[Len(r)] \in 0..t /\ q[Len(r) + 1] \in 0..t
      BY <3>2, <1>3
    <3> QED BY <3>1, <3>3, <3>4, <2>1, <2>2, <1>3, <1>2
  <2>3. CASE n # 1
    <3>1. Len(q) - n + 1 \in 1..Len(r) /\ Len(q) - n + 1 >= Len(r) - n + 1
      BY <2>3, <2>1, <1>2, <1>3
    <3> QED BY <3>1, <2>1, <1>3, <1>2
  <2> QED BY <2>2, <2>3
<1>10. ASSUME x <= t, AtLeastSince(s, x, n)
       PROVE  AtLeastSince(q, x, n + 1)
  <2>1. CASE n = 0
    BY <2>1, <1>10, <1>3, <1>2 DEF AtLeastSince
  <2>2. CASE n > 0
    <3>1. n <= Len(r) /\ \A i \in 1..Len(r) : i >= Len(r) - n + 1 => q[i] >= x
      BY <1>8, <1>10, <2>2
    <3> DEFINE i == Len(q) - (n + 1) + 1
    <3>2. i \in 1..Len(r) /\ i >= Len(r) - n + 1 /\ n + 1 <= Len(q)
      BY <3>1, <2>2, <1>2, <1>3
    <3> HIDE DEF i
    <3>3. q[i] >= x
      BY <3>1, <3>2
    <3> QED BY <3>2, <3>3 DEF AtLeastSince, i
  <2> QED BY <2>1, <2>2
<1>11. Len(Recent(q, t)) = Len(r) + 1
  <2> DEFINE m == Len(q) - Len(Recent(q, t))
  <2>1. /\ Recent(q, t) \in Seq(0..t) /\ m \in Nat
        /\ \A i \in 1..m : ~(q[i] + Window > t)
    BY <1>5, KeptOfLog DEF LogOK
  <2>2. \A i \in 1..Len(q) : q[i] + Window > t
    <3>1. \A i \in 1..Len(r) : d + i \in (d + 1)..Len(s)
      BY <1>1, <1>2
    <3>2. \A i \in 1..Len(r) : q[i] + Window > t
      BY <3>1, <1>1, <1>4
    <3>3. \A i \in 1..Len(q) : i \in 1..Len(r) \/ i = Len(r) + 1
      BY <1>2, <1>3
    <3> QED BY <3>2, <3>3, <1>3
  <2>3. Len(Recent(q, t)) \in Nat /\ Len(q) \in Nat
    BY <2>1, <1>3
  <2>4. m = 0
    <3> SUFFICES ASSUME m > 0 PROVE FALSE
      BY <2>1
    <3>1. 1 \in 1..m /\ 1 \in 1..Len(q)
      BY <2>1, <2>3
    <3> QED BY <3>1, <2>1, <2>2
  <2> QED BY <2>3, <2>4, <1>3
<1> QED BY <1>5, <1>6, <1>7, <1>9, <1>10, <1>11 DEF q, r

\* Withdrawing the most recent attempt at t.
LEMMA ReleasedLog ==
  ASSUME NEW t \in Nat, NEW s, LogOK(s, t), NEW x \in Nat, x + Window > t, NEW n \in Nat
  PROVE  LET r == Recent(s, t)
             q == IF r = <<>> THEN <<>> ELSE SubSeq(r, 1, Len(r) - 1)
         IN /\ LogOK(q, t)
            /\ AtMostSince(s, x, n) => AtMostSince(q, x, n) /\ (n > 0 => AtMostSince(q, x, n - 1))
<1> DEFINE r == Recent(s, t)
           d == Len(s) - Len(r)
           q == IF r = <<>> THEN <<>> ELSE SubSeq(r, 1, Len(r) - 1)
<1>1. /\ s \in Seq(0..t) /\ r \in Seq(0..t) /\ Ascends(s) /\ Ascends(r)
      /\ d \in Nat
      /\ \A i \in 1..Len(r) : r[i] = s[d + i]
  BY KeptOfLog DEF LogOK
<1>2. Len(s) \in Nat /\ Len(r) \in Nat /\ d \in Nat /\ Len(s) = d + Len(r)
  BY <1>1
<1> HIDE DEF r, d
<1>3. CASE r = <<>>
  <2>1. q = <<>> /\ Len(q) = 0
    BY <1>3
  <2> HIDE DEF q
  <2>2. LogOK(q, t)
    BY <2>1 DEF LogOK, Ascends
  <2>3. \A m \in Nat : AtMostSince(q, x, m)
    BY <2>1 DEF AtMostSince
  <2>4. n > 0 => n - 1 \in Nat
    OBVIOUS
  <2> QED BY <2>2, <2>3, <2>4 DEF q, r
<1>4. CASE r # <<>>
  <2>1. q = SubSeq(r, 1, Len(r) - 1) /\ Len(r) > 0
    BY <1>4, <1>1
  <2>2. /\ q \in Seq(0..t)
        /\ Len(q) = Len(r) - 1
        /\ \A i \in 1..Len(q) : q[i] = r[i]
    <3>1. \A i \in 1..(Len(r) - 1) : r[i] \in 0..t
      BY <1>1, <1>2
    <3>2. /\ SubSeq(r, 1, Len(r) - 1) \in Seq(0..t)
          /\ Len(SubSeq(r, 1, Len(r) - 1)) = IF 1 <= Len(r) - 1 THEN (Len(r) - 1) - 1 + 1 ELSE 0
          /\ \A i \in 1..((Len(r) - 1) - 1 + 1) : SubSeq(r, 1, Len(r) - 1)[i] = r[1 + i - 1]
      BY <3>1, <1>2, SubSeqProperties
    <3> HIDE DEF q
    <3>3. /\ (Len(r) - 1) - 1 + 1 = Len(r) - 1
          /\ 1 <= Len(r) - 1 \/ Len(r) - 1 = 0
          /\ \A i \in 1..(Len(r) - 1) : 1 + i - 1 = i
      <4>1. \A m \in Nat : m > 0 => (m - 1) - 1 + 1 = m - 1 /\ (1 <= m - 1 \/ m - 1 = 0)
        OBVIOUS
      <4>2. \A m \in Nat : \A i \in 1..(m - 1) : 1 + i - 1 = i
        OBVIOUS
      <4> QED BY <4>1, <4>2, <1>2, <2>1
    <3>4. Len(q) = Len(r) - 1
      BY <2>1, <3>2, <3>3
    <3> QED BY <2>1, <3>2, <3>3, <3>4
  <2> HIDE DEF q
  <2>2a. Len(q) \in Nat /\ Len(q) = Len(r) - 1
    BY <2>2
  <2>2b. \A i \in 1..Len(q) : i \in 1..Len(r) /\ q[i] = s[d + i]
    <3>1. \A i \in 1..Len(q) : i \in 1..Len(r)
      BY <2>2a, <1>2
    <3> QED BY <3>1, <2>2, <1>1
  <2>3. LogOK(q, t)
    <3>1. \A i, j \in 1..Len(q) : i <= j => q[i] <= q[j]
      BY <2>2, <2>2b, <1>1 DEF Ascends
    <3> QED BY <3>1, <2>2 DEF LogOK, Ascends
  <2>4. ASSUME AtMostSince(s, x, n)
        PROVE  AtMostSince(q, x, n)
    <3> SUFFICES ASSUME Len(q) > n PROVE q[Len(q) - n] < x
      BY DEF AtMostSince
    <3> DEFINE i == Len(q) - n
    <3>1. i \in 1..Len(q) /\ d + i = Len(s) - n - 1 /\ Len(s) > n
      BY <2>2a, <1>2
    <3>2. d + i \in 1..Len(s) /\ Len(s) - n \in 1..Len(s) /\ d + i <= Len(s) - n
      BY <3>1, <1>2
    <3>3. s[d + i] <= s[Len(s) - n] /\ s[d + i] \in 0..t /\ s[Len(s) - n] \in 0..t
      <4> HIDE DEF i
      <4> QED BY <3>2, <1>1 DEF Ascends
    <3>4. s[Len(s) - n] < x
      BY <3>1, <2>4 DEF AtMostSince
    <3>5. q[i] = s[d + i]
      <4> HIDE DEF i
      <4> QED BY <3>1, <2>2b
    <3> QED BY <3>3, <3>4, <3>5
  <2>5. ASSUME AtMostSince(s, x, n), n > 0
        PROVE  AtMostSince(q, x, n - 1)
    <3> SUFFICES ASSUME Len(q) > n - 1 PROVE q[Len(q) - (n - 1)] < x
      BY DEF AtMostSince
    <3> DEFINE i == Len(q) - (n - 1)
    <3>1. i \in 1..Len(q) /\ d + i = Len(s) - n /\ Len(s) > n
      BY <2>2a, <2>5, <1>2
    <3>2. s[Len(s) - n] < x
      BY <3>1, <2>5 DEF AtMostSince
    <3>3. q[i] = s[d + i]
      <4> HIDE DEF i
      <4> QED BY <3>1, <2>2b
    <3> QED BY <3>1, <3>2, <3>3
  <2> QED BY <2>3, <2>4, <2>5 DEF q, r
<1> QED BY <1>3, <1>4

LEMMA EmptyLog ==
  ASSUME NEW t \in Nat, NEW x \in Nat
  PROVE  /\ LogOK(<<>>, t)
         /\ \A n \in Nat : AtMostSince(<<>>, x, n)
         /\ Len(Recent(<<>>, t)) = 0
<1>1. LogOK(<<>>, t) /\ Len(<<>>) = 0
  BY DEF LogOK, Ascends
<1>2. \A n \in Nat : AtMostSince(<<>>, x, n)
  BY <1>1 DEF AtMostSince
<1>3. Recent(<<>>, t) \in Seq(0..t) /\ Len(<<>>) - Len(Recent(<<>>, t)) \in Nat
  BY <1>1, KeptOfLog DEF LogOK
<1>4. Len(Recent(<<>>, t)) \in Nat
  BY <1>3
<1> QED BY <1>1, <1>2, <1>3, <1>4

\* As time passes, fewer attempts count.
LEMMA FewerRecent ==
  ASSUME NEW t \in Nat, NEW s, LogOK(s, t)
  PROVE  Len(Recent(s, t + 1)) <= Len(Recent(s, t))
<1> USE WindowAssumption
<1> DEFINE n == Len(Recent(s, t))
           m == Len(Recent(s, t + 1))
<1>0. LogOK(s, t + 1)
  BY LogGrowsOld
<1>1. n \in Nat /\ m \in Nat /\ s \in Seq(0..t)
  BY <1>0, KeptOfLog DEF LogOK
<1> HIDE DEF n, m
<1>2. ~(n > n)
  BY <1>1
<1>3. Len(s) > n => ~(s[Len(s) - n] + Window > t)
  BY <1>1, <1>2, ManyRecent DEF n
<1>4. m > n => Len(s) > n /\ s[Len(s) - n] + Window > t + 1
  BY <1>0, <1>1, ManyRecent DEF m
<1>5. Len(s) > n => s[Len(s) - n] \in Nat
  <2>1. Len(s) > n => Len(s) - n \in 1..Len(s)
    BY <1>1
  <2> QED BY <2>1, <1>1
<1> QED BY <1>1, <1>3, <1>4, <1>5 DEF n, m

LEMMA LessSince ==
  ASSUME NEW t \in Nat, NEW s, LogOK(s, t), NEW x \in Nat,
         NEW n \in Nat, AtLeastSince(s, x, n), NEW m \in Nat, m <= n
  PROVE  AtLeastSince(s, x, m)
<1> SUFFICES ASSUME m > 0 PROVE m <= Len(s) /\ s[Len(s) - m + 1] >= x
  BY DEF AtLeastSince
<1>1. n <= Len(s) /\ s[Len(s) - n + 1] >= x
  BY DEF AtLeastSince
<1>2. Len(s) \in Nat /\ s \in Seq(0..t)
  BY DEF LogOK
<1>3. /\ Len(s) - n + 1 \in 1..Len(s) /\ Len(s) - m + 1 \in 1..Len(s)
      /\ Len(s) - n + 1 <= Len(s) - m + 1
  BY <1>1, <1>2
<1>4. s[Len(s) - n + 1] <= s[Len(s) - m + 1]
  BY <1>3 DEF LogOK, Ascends
<1>5. s[Len(s) - n + 1] \in 0..t /\ s[Len(s) - m + 1] \in 0..t
  BY <1>2, <1>3
<1> QED BY <1>1, <1>2, <1>4, <1>5

\* An attempt is allowed exactly when fewer than the limit count.
LEMMA AllowedBelowLimit ==
  ASSUME NEW t \in Nat, NEW s, LogOK(s, t), NEW limit \in Nat \ {0}
  PROVE  /\ RetryAfter(s, limit, t) \in Nat
         /\ RetryAfter(s, limit, t) = 0 <=> Len(Recent(s, t)) < limit
<1> USE WindowAssumption
<1> DEFINE r == Recent(s, t)
           d == Len(s) - Len(r)
           i == Len(r) - limit + 1
<1>1. /\ s \in Seq(0..t) /\ r \in Seq(0..t)
      /\ d \in Nat
      /\ \A j \in (d + 1)..Len(s) : s[j] + Window > t
      /\ \A j \in 1..Len(r) : r[j] = s[d + j]
  BY KeptOfLog DEF LogOK
<1>2. Len(s) \in Nat /\ Len(r) \in Nat /\ Len(s) = d + Len(r)
  BY <1>1
<1>3. RetryAfter(s, limit, t) = IF Len(r) < limit THEN 0 ELSE (r[i] + Window) - t
  BY DEF RetryAfter
<1> HIDE DEF r, d
<1>4. ~(Len(r) < limit) => i \in 1..Len(r) /\ d + i \in (d + 1)..Len(s)
  BY <1>1, <1>2
<1> HIDE DEF i
<1>5. ~(Len(r) < limit) => r[i] + Window > t /\ r[i] \in 0..t
  <2>1. ~(Len(r) < limit) => r[i] = s[d + i] /\ s[d + i] + Window > t
    BY <1>1, <1>4
  <2>2. ~(Len(r) < limit) => r[i] \in 0..t
    BY <1>1, <1>4
  <2> QED BY <2>1, <2>2
<1>6. ~(Len(r) < limit) => (r[i] + Window) - t \in Nat /\ (r[i] + Window) - t # 0
  BY <1>5
<1> QED BY <1>3, <1>6 DEF r

-----------------------------------------------------------------------------
(* The requests between two of their steps.                                *)

InRun(x, pcs, a, t) == x.pc \in pcs /\ x.address = a /\ x.at >= t

LEMMA Kinds ==
  ASSUME AccTypeOK, NEW r \in Requests, req[r].pc \in SigningIn \cup Registering
  PROVE  req[r].address \in Addresses /\ req[r].email \in Emails /\ req[r].at \in Times
<1>1. req[r] \in ReqState
  BY DEF AccTypeOK
<1> QED BY <1>1 DEF ReqState, Idle, SigningIn, Registering

LEMMA RunningFinite ==
  ASSUME BusyFinite, NEW pcs, "idle" \notin pcs, NEW a, NEW t
  PROVE  IsFiniteSet(Running(req, pcs, a, t)) /\ Cardinality(Running(req, pcs, a, t)) \in Nat
<1>1. Running(req, pcs, a, t) \in SUBSET Busy
  BY DEF Running, Busy, Idle
<1>2. IsFiniteSet(Running(req, pcs, a, t))
  BY <1>1, FS_Subset, Zenon DEF BusyFinite
<1> QED BY <1>2, FS_CardinalityType

\* One request moves: it enters or leaves what is counted, or it does not.
LEMMA CountStep ==
  ASSUME NEW r \in Requests, NEW f, NEW g, \A q \in Requests \ {r} : g[q] = f[q],
         NEW pcs, NEW a, NEW t, IsFiniteSet(Running(f, pcs, a, t))
  PROVE  LET n == Cardinality(Running(f, pcs, a, t))
             m == Cardinality(Running(g, pcs, a, t))
         IN /\ n \in Nat /\ m \in Nat
            /\ ~InRun(f[r], pcs, a, t) /\ InRun(g[r], pcs, a, t) => m = n + 1
            /\ InRun(f[r], pcs, a, t) /\ ~InRun(g[r], pcs, a, t) => m = n - 1 /\ n > 0
            /\ (InRun(f[r], pcs, a, t) <=> InRun(g[r], pcs, a, t)) => m = n
<1> DEFINE R == Running(f, pcs, a, t)
           Q == Running(g, pcs, a, t)
<1>2. r \in R <=> InRun(f[r], pcs, a, t)
  BY DEF Running, InRun
<1>3. InRun(g[r], pcs, a, t) => Q = R \cup {r}
  BY DEF Running, InRun
<1>4. ~InRun(g[r], pcs, a, t) => Q = R \ {r}
  BY DEF Running, InRun
<1>5. IsFiniteSet(R) /\ Cardinality(R) \in Nat
  BY FS_CardinalityType
<1> HIDE DEF R, Q
<1>6. /\ IsFiniteSet(R \cup {r})
      /\ Cardinality(R \cup {r}) = IF r \in R THEN Cardinality(R) ELSE Cardinality(R) + 1
  BY <1>5, FS_AddElement
<1>7. /\ IsFiniteSet(R \ {r})
      /\ Cardinality(R \ {r}) = IF r \in R THEN Cardinality(R) - 1 ELSE Cardinality(R)
  BY <1>5, FS_RemoveElement
<1>8. Cardinality(R \cup {r}) \in Nat /\ Cardinality(R \ {r}) \in Nat
  BY <1>6, <1>7, FS_CardinalityType
<1>9. CASE InRun(g[r], pcs, a, t)
  BY <1>2, <1>3, <1>5, <1>6, <1>8, <1>9 DEF R, Q
<1>10. CASE ~InRun(g[r], pcs, a, t)
  <2>1. Cardinality(Q) = IF r \in R THEN Cardinality(R) - 1 ELSE Cardinality(R)
    BY <1>4, <1>7, <1>10
  <2>2. r \in R => Cardinality(R) > 0
    BY <1>5, <1>7, <1>8
  <2>3. Cardinality(Q) \in Nat
    BY <1>4, <1>8, <1>10
  <2> QED BY <1>2, <1>5, <1>10, <2>1, <2>2, <2>3 DEF R, Q
<1> QED BY <1>9, <1>10

\* The same for the requests of a step, of which finitely many are busy.
LEMMA CountsMove ==
  ASSUME AccTypeOK, BusyFinite, NEW r \in Requests, req' = [req EXCEPT ![r] = req'[r]],
         NEW pcs, "idle" \notin pcs, NEW a, NEW t
  PROVE  LET n == Cardinality(Running(req, pcs, a, t))
             m == Cardinality(Running(req', pcs, a, t))
         IN /\ n \in Nat /\ m \in Nat
            /\ ~InRun(req[r], pcs, a, t) /\ InRun(req'[r], pcs, a, t) => m = n + 1
            /\ InRun(req[r], pcs, a, t) /\ ~InRun(req'[r], pcs, a, t) => m = n - 1 /\ n > 0
            /\ (InRun(req[r], pcs, a, t) <=> InRun(req'[r], pcs, a, t)) => m = n
<1>1. \A q \in Requests \ {r} : req'[q] = req[q]
  BY DEF AccTypeOK
<1>2. IsFiniteSet(Running(req, pcs, a, t))
  BY RunningFinite
<1> QED BY <1>1, <1>2, CountStep

LEMMA RequestMoves ==
  ASSUME LimitInv, NEW r \in Requests, req' = [req EXCEPT ![r] = req'[r]], now' = now,
         req'[r].pc \in SigningIn \cup Registering => req'[r].at <= now
  PROVE  BusyFinite' /\ StartsPast'
<1>1. \A q \in Requests \ {r} : req'[q] = req[q]
  BY DEF LimitInv, AccTypeOK
<1>2. BusyFinite'
  <2>1. Busy' \in SUBSET (Busy \cup {r})
    BY <1>1 DEF Busy
  <2>2. IsFiniteSet(Busy \cup {r})
    BY FS_AddElement DEF LimitInv, BusyFinite
  <2> QED BY <2>1, <2>2, FS_Subset, Zenon DEF BusyFinite
<1>3. StartsPast'
  BY <1>1 DEF LimitInv, StartsPast
<1> QED BY <1>2, <1>3

Logs == LogsAscend /\ SignInsCounted /\ RegistrationsCounted /\ RegistrationsLimited

\* The limiters are left alone and no registration begins.
LEMMA LimitersKept ==
  ASSUME LimitInv, UNCHANGED <<now, limiters, wasted>>, BusyFinite',
         \A a \in Addresses, t \in Times :
           /\ Cardinality(Running(req', SigningIn, a, t)) = Cardinality(Running(req, SigningIn, a, t))
           /\ Cardinality(Running(req', Registering, a, t)) <= Cardinality(Running(req, Registering, a, t))
  PROVE  Logs'
<1> USE AccountsAssumption
<1>1. UNCHANGED <<now, perAccount, perAddress, registrations, wasted>>
  BY DEF limiters
<1>2. LogsAscend' /\ RegistrationsLimited'
  BY <1>1 DEF LimitInv, LogsAscend, RegistrationsLimited
<1>3. SignInsCounted'
  BY <1>1 DEF LimitInv, SignInsCounted
<1>4. ASSUME NEW a \in Addresses, NEW t \in Times, t + Window > now
      PROVE  AtLeastSince(registrations[a], t, Cardinality(Running(req', Registering, a, t)))
  <2>1. now \in Nat /\ t \in Nat
    BY DEF LimitInv, AccTypeOK, Times
  <2>2. LogOK(registrations[a], now)
    BY DEF LimitInv, LogsAscend
  <2>3. AtLeastSince(registrations[a], t, Cardinality(Running(req, Registering, a, t)))
    BY <1>4 DEF LimitInv, RegistrationsCounted
  <2>4. "idle" \notin Registering
    BY DEF Registering
  <2>5. Cardinality(Running(req, Registering, a, t)) \in Nat
    BY <2>4, RunningFinite DEF LimitInv
  <2>6. Cardinality(Running(req', Registering, a, t)) \in Nat
    <3>1. Running(req', Registering, a, t) \in SUBSET Busy'
      BY DEF Running, Busy, Idle, Registering
    <3>2. IsFiniteSet(Running(req', Registering, a, t))
      BY <3>1, FS_Subset, Zenon DEF BusyFinite
    <3> QED BY <3>2, FS_CardinalityType
  <2> QED BY <2>1, <2>2, <2>3, <2>5, <2>6, LessSince
<1>5. RegistrationsCounted'
  BY <1>1, <1>4 DEF RegistrationsCounted
<1> QED BY <1>2, <1>3, <1>5 DEF Logs

LEMMA Clock ==
  ASSUME AccTypeOK
  PROVE  /\ now \in Nat /\ Times \subseteq Nat /\ Window \in Nat \ {0}
         /\ AccountLimit \in Nat \ {0} /\ AddressLimit \in Nat \ {0} /\ RegisterLimit \in Nat \ {0}
         /\ "idle" \notin SigningIn /\ "idle" \notin Registering
         /\ SigningIn \cap Registering = {}
  BY AccountsAssumption, WindowAssumption DEF AccTypeOK, Times, SigningIn, Registering

\* Requests that wait, or that go on with the same attempt.
LEMMA SameAttemptStep ==
  ASSUME LimitInv, NEW r \in Requests, LookUp(r) \/ Accept(r) \/ Hash(r)
  PROVE  BusyFinite' /\ StartsPast' /\ Logs'
<1>1. req \in [Requests -> ReqState] /\ AccTypeOK /\ BusyFinite /\ StartsPast
  BY DEF LimitInv, AccTypeOK
<1>2. /\ req' = [req EXCEPT ![r] = req'[r]]
      /\ req'[r].address = req[r].address /\ req'[r].at = req[r].at
      /\ \/ req[r].pc \in SigningIn /\ req'[r].pc \in SigningIn
         \/ req[r].pc \in Registering /\ req'[r].pc \in Registering
      /\ UNCHANGED <<now, limiters, wasted>>
  <2>1. CASE LookUp(r)
    <3>1. \E u : req' = [req EXCEPT ![r] = [pc |-> "verify", address |-> req[r].address,
                            email |-> req[r].email, at |-> req[r].at, user |-> u]]
      BY <1>1, <2>1 DEF LookUp
    <3> QED BY <1>1, <2>1, <3>1 DEF LookUp, SigningIn
  <2>2. CASE Accept(r)
    BY <1>1, <2>2 DEF Accept, SigningIn
  <2>3. CASE Hash(r)
    BY <1>1, <2>3 DEF Hash, Registering
  <2> QED BY <2>1, <2>2, <2>3
<1>3. req[r].at <= now
  BY <1>1, <1>2 DEF StartsPast
<1>4. now' = now
  BY <1>2
<1>5. BusyFinite' /\ StartsPast'
  BY <1>2, <1>3, <1>4, RequestMoves
<1>6. ASSUME NEW a \in Addresses, NEW t \in Times, NEW pcs, pcs = SigningIn \/ pcs = Registering
      PROVE  Cardinality(Running(req', pcs, a, t)) = Cardinality(Running(req, pcs, a, t))
  <2>1. "idle" \notin pcs
    BY <1>1, <1>6, Clock
  <2>2. InRun(req[r], pcs, a, t) <=> InRun(req'[r], pcs, a, t)
    BY <1>1, <1>2, <1>6, Clock DEF InRun
  <2> QED BY <1>1, <1>2, <2>1, <2>2, CountsMove
<1>7. ASSUME NEW a \in Addresses, NEW t \in Times
      PROVE  Cardinality(Running(req, Registering, a, t)) \in Nat
  BY <1>1, Clock, RunningFinite
<1> QED BY <1>2, <1>5, <1>6, <1>7, LimitersKept

\* Requests that end, or that begin outside what is limited.
LEMMA UncountedStep ==
  ASSUME LimitInv, NEW r \in Requests,
         Enrol(r) \/ Erase(r) \/ (\E s \in sessions : BeginErase(r, s))
           \/ (Refuse(r) /\ req[r].pc \notin SigningIn)
  PROVE  BusyFinite' /\ StartsPast' /\ Logs'
<1>1. req \in [Requests -> ReqState] /\ AccTypeOK /\ BusyFinite /\ StartsPast
  BY DEF LimitInv, AccTypeOK
<1>2. /\ req' = [req EXCEPT ![r] = req'[r]]
      /\ req'[r].pc \notin SigningIn \cup Registering
      /\ req[r].pc \notin SigningIn
      /\ UNCHANGED <<now, limiters, wasted>>
  BY <1>1 DEF Enrol, Erase, BeginErase, Refuse, Idle, SigningIn, Registering
<1>4. now' = now
  BY <1>2
<1>5. BusyFinite' /\ StartsPast'
  BY <1>2, <1>4, RequestMoves
<1>6. ASSUME NEW a \in Addresses, NEW t \in Times
      PROVE  Cardinality(Running(req', SigningIn, a, t)) = Cardinality(Running(req, SigningIn, a, t))
  <2>2. ~InRun(req[r], SigningIn, a, t) /\ ~InRun(req'[r], SigningIn, a, t)
    BY <1>2 DEF InRun
  <2>3. "idle" \notin SigningIn
    BY <1>1, Clock
  <2> QED BY <1>1, <1>2, <2>2, <2>3, CountsMove
<1>7. ASSUME NEW a \in Addresses, NEW t \in Times
      PROVE  Cardinality(Running(req', Registering, a, t)) <= Cardinality(Running(req, Registering, a, t))
  <2> DEFINE n == Cardinality(Running(req, Registering, a, t))
             m == Cardinality(Running(req', Registering, a, t))
  <2>1. ~InRun(req'[r], Registering, a, t)
    BY <1>2 DEF InRun
  <2>2. n \in Nat /\ m \in Nat /\ (m = n - 1 \/ m = n)
    BY <1>1, <1>2, <2>1, Clock, CountsMove
  <2> HIDE DEF n, m
  <2>3. m <= n
    BY <2>2
  <2> QED BY <2>3 DEF n, m
<1> QED BY <1>2, <1>5, <1>6, <1>7, LimitersKept

LEMMA LoginStep ==
  ASSUME LimitInv, NEW r \in Requests, NEW a \in Addresses, NEW e \in Emails, Login(r, a, e)
  PROVE  BusyFinite' /\ StartsPast' /\ Logs'
<1> DEFINE q == Append(Recent(perAddress[a], now), now)
<1>1. AccTypeOK /\ BusyFinite /\ LogsAscend
  BY DEF LimitInv
<1>2. /\ req' = [req EXCEPT ![r] = req'[r]]
      /\ req[r].pc = "idle"
      /\ now' = now /\ wasted' = wasted /\ registrations' = registrations
      /\ perAccount' = Record(perAccount, <<a, e>>, now)
      /\ perAddress' = [perAddress EXCEPT ![a] = q]
  BY <1>1 DEF Login, Record, Idle, AccTypeOK
<1>3. req'[r].pc = "login" /\ req'[r].address = a /\ req'[r].at = now
  BY <1>1 DEF Login, AccTypeOK
<1> HIDE DEF q
<1>4. BusyFinite' /\ StartsPast'
  BY <1>1, <1>2, <1>3, Clock, RequestMoves
<1>5. /\ perAccount \in [Addresses \X Emails -> Seq(Times)]
      /\ perAddress \in [Addresses -> Seq(Times)]
      /\ wasted \in [Addresses -> [Times -> Nat]]
  BY <1>1 DEF AccTypeOK
<1>6. LogsAscend'
  <2>1. LogOK(q, now)
    <3>1. now + Window > now
      BY <1>1, Clock
    <3> QED BY <1>1, <3>1, Clock, RecordedLog DEF LogsAscend, q
  <2>2. LogOK(Append(Recent(perAccount[<<a, e>>], now), now), now)
    <3>1. now + Window > now
      BY <1>1, Clock
    <3>2. LogOK(perAccount[<<a, e>>], now)
      BY <1>1 DEF LogsAscend
    <3> QED BY <1>1, <3>1, <3>2, Clock, RecordedLog
  <2>3. \A k \in Addresses \X Emails : LogOK(perAccount[k], now)'
    BY <1>1, <1>2, <1>5, <2>2 DEF LogsAscend, Record
  <2>4. \A b \in Addresses : LogOK(perAddress[b], now)' /\ LogOK(registrations[b], now)'
    BY <1>1, <1>2, <1>5, <2>1 DEF LogsAscend
  <2> QED BY <2>3, <2>4 DEF LogsAscend
<1>7. ASSUME NEW b \in Addresses, NEW t \in Times, t + Window > now
      PROVE  AtMostSince(perAddress'[b], t, Cardinality(Running(req', SigningIn, b, t)) + wasted[b][t])
  <2> DEFINE n == Cardinality(Running(req, SigningIn, b, t))
             m == Cardinality(Running(req', SigningIn, b, t))
             w == wasted[b][t]
  <2>1. AtMostSince(perAddress[b], t, n + w)
    BY <1>7 DEF LimitInv, SignInsCounted
  <2>2. ~InRun(req[r], SigningIn, b, t) /\ (InRun(req'[r], SigningIn, b, t) <=> a = b /\ now >= t)
    BY <1>2, <1>3 DEF InRun, SigningIn
  <2>3. n \in Nat /\ m \in Nat /\ IF a = b /\ now >= t THEN m = n + 1 ELSE m = n
    BY <1>1, <1>2, <2>2, Clock, CountsMove
  <2>4. w \in Nat /\ now \in Nat /\ t \in Nat
    BY <1>1, <1>5, Clock
  <2>5. LogOK(perAddress[b], now)
    BY <1>1 DEF LogsAscend
  <2> HIDE DEF n, m, w
  <2>6. CASE a # b
    <3>1. perAddress'[b] = perAddress[b] /\ m = n
      BY <1>2, <1>5, <2>3, <2>6
    <3> QED BY <3>1, <2>1 DEF n, m, w
  <2>7. CASE a = b /\ now >= t
    <3>1. perAddress'[b] = q /\ m + w = (n + w) + 1 /\ n + w \in Nat
      BY <1>2, <1>5, <2>3, <2>4, <2>7
    <3>2. AtMostSince(q, t, (n + w) + 1)
      BY <2>1, <2>4, <2>5, <2>7, <3>1, <1>7, RecordedLog DEF q
    <3>3. AtMostSince(q, t, m + w)
      BY <3>1, <3>2
    <3> QED BY <3>1, <3>3 DEF m, w
  <2>8. CASE a = b /\ ~(now >= t)
    <3>1. perAddress'[b] = q /\ m + w \in Nat /\ t > now
      BY <1>2, <1>5, <2>3, <2>4, <2>8
    <3>2. AtMostSince(q, t, m + w)
      BY <2>4, <2>5, <2>8, <3>1, <1>7, RecordedLog DEF q
    <3> QED BY <3>1, <3>2 DEF m, w
  <2> QED BY <2>6, <2>7, <2>8
<1>8. SignInsCounted'
  BY <1>2, <1>7 DEF SignInsCounted
<1>9. RegistrationsCounted'
  <2> SUFFICES ASSUME NEW b \in Addresses, NEW t \in Times, t + Window > now
               PROVE  AtLeastSince(registrations[b], t, Cardinality(Running(req', Registering, b, t)))
    BY <1>2 DEF RegistrationsCounted
  <2>1. ~InRun(req[r], Registering, b, t) /\ ~InRun(req'[r], Registering, b, t)
    BY <1>2, <1>3 DEF InRun, Registering
  <2>2. Cardinality(Running(req', Registering, b, t)) = Cardinality(Running(req, Registering, b, t))
    BY <1>1, <1>2, <2>1, Clock, CountsMove
  <2> QED BY <2>2 DEF LimitInv, RegistrationsCounted
<1>10. RegistrationsLimited'
  BY <1>2 DEF LimitInv, RegistrationsLimited
<1> QED BY <1>4, <1>6, <1>8, <1>9, <1>10 DEF Logs

LEMMA RegisterStep ==
  ASSUME LimitInv, NEW r \in Requests, NEW a \in Addresses, NEW e \in Emails, Register(r, a, e)
  PROVE  BusyFinite' /\ StartsPast' /\ Logs'
<1> DEFINE q == Append(Recent(registrations[a], now), now)
<1>1. AccTypeOK /\ BusyFinite /\ LogsAscend
  BY DEF LimitInv
<1>2. /\ req' = [req EXCEPT ![r] = req'[r]]
      /\ req[r].pc = "idle"
      /\ now' = now /\ wasted' = wasted /\ perAccount' = perAccount /\ perAddress' = perAddress
      /\ registrations' = [registrations EXCEPT ![a] = q]
      /\ RetryAfter(registrations[a], RegisterLimit, now) = 0
  BY <1>1 DEF Register, Record, Idle, AccTypeOK
<1>3. req'[r].pc = "register" /\ req'[r].address = a /\ req'[r].at = now
  BY <1>1 DEF Register, AccTypeOK
<1> HIDE DEF q
<1>4. BusyFinite' /\ StartsPast'
  BY <1>1, <1>2, <1>3, Clock, RequestMoves
<1>5. registrations \in [Addresses -> Seq(Times)]
  BY <1>1 DEF AccTypeOK
<1>6. now + Window > now /\ LogOK(registrations[a], now)
  BY <1>1, Clock DEF LogsAscend
<1>7. LogOK(q, now) /\ Len(Recent(q, now)) = Len(Recent(registrations[a], now)) + 1
  BY <1>1, <1>6, Clock, RecordedLog DEF q
<1>8. LogsAscend'
  BY <1>1, <1>2, <1>5, <1>7 DEF LogsAscend
<1>9. RegistrationsLimited'
  <2>1. Len(Recent(registrations[a], now)) < RegisterLimit
    BY <1>1, <1>2, <1>6, Clock, AllowedBelowLimit
  <2>2. Len(Recent(registrations[a], now)) \in Nat
    BY <1>1, <1>6, Clock, KeptOfLog DEF LogOK
  <2>3. Len(Recent(q, now)) <= RegisterLimit
    BY <1>1, <1>7, <2>1, <2>2, Clock
  <2>4. \A b \in Addresses : b # a => Len(Recent(registrations[b], now)) <= RegisterLimit
    BY DEF LimitInv, RegistrationsLimited
  <2> QED BY <1>2, <1>5, <2>3, <2>4 DEF RegistrationsLimited
<1>10. ASSUME NEW b \in Addresses, NEW t \in Times, t + Window > now
       PROVE  AtLeastSince(registrations'[b], t, Cardinality(Running(req', Registering, b, t)))
  <2> DEFINE n == Cardinality(Running(req, Registering, b, t))
             m == Cardinality(Running(req', Registering, b, t))
  <2>1. AtLeastSince(registrations[b], t, n)
    BY <1>10 DEF LimitInv, RegistrationsCounted
  <2>2. ~InRun(req[r], Registering, b, t) /\ (InRun(req'[r], Registering, b, t) <=> a = b /\ now >= t)
    BY <1>2, <1>3 DEF InRun, Registering
  <2>3. n \in Nat /\ m \in Nat /\ IF a = b /\ now >= t THEN m = n + 1 ELSE m = n
    BY <1>1, <1>2, <2>2, Clock, CountsMove
  <2>4. now \in Nat /\ t \in Nat
    BY <1>1, Clock
  <2>5. LogOK(registrations[b], now)
    BY <1>1 DEF LogsAscend
  <2> HIDE DEF n, m
  <2>6. CASE a # b
    <3>1. registrations'[b] = registrations[b] /\ m = n
      BY <1>2, <1>5, <2>3, <2>6
    <3> QED BY <3>1, <2>1 DEF m
  <2>7. CASE a = b /\ now >= t
    <3>1. registrations'[b] = q /\ m = n + 1 /\ t <= now
      BY <1>2, <1>5, <2>3, <2>4, <2>7
    <3>2. AtLeastSince(q, t, n + 1)
      BY <2>1, <2>3, <2>4, <2>5, <2>7, <3>1, <1>10, RecordedLog DEF q
    <3> QED BY <3>1, <3>2 DEF m
  <2>8. CASE a = b /\ ~(now >= t)
    <3>1. registrations'[b] = q /\ m = n
      BY <1>2, <1>5, <2>3, <2>8
    <3>2. AtLeastSince(q, t, n)
      BY <2>1, <2>3, <2>4, <2>5, <2>8, <1>10, RecordedLog DEF q
    <3> QED BY <3>1, <3>2 DEF m
  <2> QED BY <2>6, <2>7, <2>8
<1>11. RegistrationsCounted'
  BY <1>2, <1>10 DEF RegistrationsCounted
<1>12. SignInsCounted'
  <2> SUFFICES ASSUME NEW b \in Addresses, NEW t \in Times, t + Window > now
               PROVE  AtMostSince(perAddress[b], t, Cardinality(Running(req', SigningIn, b, t)) + wasted[b][t])
    BY <1>2 DEF SignInsCounted
  <2>1. ~InRun(req[r], SigningIn, b, t) /\ ~InRun(req'[r], SigningIn, b, t)
    BY <1>2, <1>3 DEF InRun, SigningIn
  <2>2. Cardinality(Running(req', SigningIn, b, t)) = Cardinality(Running(req, SigningIn, b, t))
    BY <1>1, <1>2, <2>1, Clock, CountsMove
  <2> QED BY <2>2 DEF LimitInv, SignInsCounted
<1> QED BY <1>4, <1>8, <1>9, <1>11, <1>12 DEF Logs

LEMMA OpenSessionLimits ==
  ASSUME LimitInv, NEW r \in Requests, OpenSession(r)
  PROVE  BusyFinite' /\ StartsPast' /\ Logs'
<1> DEFINE a == req[r].address
           kept == Recent(perAddress[a], now)
           q == IF kept = <<>> THEN <<>> ELSE SubSeq(kept, 1, Len(kept) - 1)
<1>1. AccTypeOK /\ BusyFinite /\ LogsAscend
  BY DEF LimitInv
<1>2. /\ req' = [req EXCEPT ![r] = req'[r]]
      /\ req'[r].pc = "idle" /\ req[r].pc = "open"
      /\ now' = now /\ wasted' = wasted /\ registrations' = registrations
      /\ perAccount' = [perAccount EXCEPT ![<<a, req[r].email>>] = <<>>]
      /\ perAddress' = [perAddress EXCEPT ![a] = q]
  BY <1>1 DEF OpenSession, Reset, Release, Key, Idle, AccTypeOK
<1>3. a \in Addresses
  BY <1>1, <1>2, Kinds DEF SigningIn
<1> HIDE DEF a, q
<1>4. BusyFinite' /\ StartsPast'
  BY <1>1, <1>2, Clock, RequestMoves
<1>5. /\ perAccount \in [Addresses \X Emails -> Seq(Times)]
      /\ perAddress \in [Addresses -> Seq(Times)]
      /\ wasted \in [Addresses -> [Times -> Nat]]
  BY <1>1 DEF AccTypeOK
<1>6. LogsAscend'
  <2>1. LogOK(q, now)
    <3>1. now + Window > now
      BY <1>1, Clock
    <3>2. LogOK(perAddress[a], now)
      BY <1>1, <1>3 DEF LogsAscend
    <3> QED BY <1>1, <3>1, <3>2, Clock, ReleasedLog DEF q
  <2>2. LogOK(<<>>, now)
    BY <1>1, Clock, EmptyLog
  <2>3. \A k \in Addresses \X Emails : LogOK(perAccount[k], now)'
    BY <1>1, <1>2, <1>5, <2>2 DEF LogsAscend
  <2>4. \A b \in Addresses : LogOK(perAddress[b], now)' /\ LogOK(registrations[b], now)'
    BY <1>1, <1>2, <1>5, <2>1 DEF LogsAscend
  <2> QED BY <2>3, <2>4 DEF LogsAscend
<1>7. ASSUME NEW b \in Addresses, NEW t \in Times, t + Window > now
      PROVE  AtMostSince(perAddress'[b], t, Cardinality(Running(req', SigningIn, b, t)) + wasted[b][t])
  <2> DEFINE n == Cardinality(Running(req, SigningIn, b, t))
             m == Cardinality(Running(req', SigningIn, b, t))
             w == wasted[b][t]
  <2>1. AtMostSince(perAddress[b], t, n + w)
    BY <1>7 DEF LimitInv, SignInsCounted
  <2>2. ~InRun(req'[r], SigningIn, b, t) /\ (InRun(req[r], SigningIn, b, t) <=> a = b /\ req[r].at >= t)
    BY <1>2 DEF InRun, SigningIn, a
  <2>3. n \in Nat /\ m \in Nat /\ IF a = b /\ req[r].at >= t THEN m = n - 1 /\ n > 0 ELSE m = n
    BY <1>1, <1>2, <2>2, Clock, CountsMove
  <2>4. w \in Nat /\ now \in Nat /\ t \in Nat
    BY <1>1, <1>5, Clock
  <2>5. LogOK(perAddress[b], now)
    BY <1>1 DEF LogsAscend
  <2> HIDE DEF n, m, w
  <2>6. CASE a # b
    <3>1. perAddress'[b] = perAddress[b] /\ m = n
      BY <1>2, <1>5, <2>3, <2>6
    <3> QED BY <3>1, <2>1 DEF m, w
  <2>7. CASE a = b
    <3>1. perAddress'[b] = q /\ n + w \in Nat
      BY <1>2, <1>5, <2>3, <2>4, <2>7
    <3>2. AtMostSince(q, t, n + w) /\ (n + w > 0 => AtMostSince(q, t, (n + w) - 1))
      BY <2>1, <2>4, <2>5, <2>7, <3>1, <1>7, ReleasedLog DEF q
    <3>3. m + w = n + w \/ (n + w > 0 /\ m + w = (n + w) - 1)
      BY <2>3, <2>4
    <3>4. AtMostSince(q, t, m + w)
      BY <3>2, <3>3
    <3> QED BY <3>1, <3>4 DEF m, w
  <2> QED BY <2>6, <2>7
<1>8. SignInsCounted'
  BY <1>2, <1>7 DEF SignInsCounted
<1>9. RegistrationsCounted'
  <2> SUFFICES ASSUME NEW b \in Addresses, NEW t \in Times, t + Window > now
               PROVE  AtLeastSince(registrations[b], t, Cardinality(Running(req', Registering, b, t)))
    BY <1>2 DEF RegistrationsCounted
  <2>1. ~InRun(req[r], Registering, b, t) /\ ~InRun(req'[r], Registering, b, t)
    BY <1>2 DEF InRun, Registering
  <2>2. Cardinality(Running(req', Registering, b, t)) = Cardinality(Running(req, Registering, b, t))
    BY <1>1, <1>2, <2>1, Clock, CountsMove
  <2> QED BY <2>2 DEF LimitInv, RegistrationsCounted
<1>10. RegistrationsLimited'
  BY <1>2 DEF LimitInv, RegistrationsLimited
<1> QED BY <1>4, <1>6, <1>8, <1>9, <1>10 DEF Logs

\* A failed sign-in moves from those running to those wasted.
LEMMA RefuseSignIn ==
  ASSUME LimitInv, NEW r \in Requests, Refuse(r), req[r].pc \in SigningIn
  PROVE  BusyFinite' /\ StartsPast' /\ Logs'
<1> DEFINE a == req[r].address
<1>1. AccTypeOK /\ BusyFinite /\ LogsAscend
  BY DEF LimitInv
<1>2. /\ req' = [req EXCEPT ![r] = req'[r]]
      /\ req'[r].pc = "idle"
      /\ now' = now /\ perAddress' = perAddress
      /\ perAccount' = perAccount /\ registrations' = registrations
      /\ wasted' = [wasted EXCEPT ![a] = [t \in Times |-> wasted[a][t] + IF t <= req[r].at THEN 1 ELSE 0]]
  BY <1>1 DEF Refuse, Idle, AccTypeOK, limiters
<1>3. a \in Addresses /\ req[r].at \in Nat
  BY <1>1, <1>2, Kinds, Clock
<1>4. BusyFinite' /\ StartsPast'
  BY <1>1, <1>2, Clock, RequestMoves
<1>5. wasted \in [Addresses -> [Times -> Nat]]
  BY <1>1 DEF AccTypeOK
<1>6. LogsAscend' /\ RegistrationsLimited'
  BY <1>2 DEF LimitInv, LogsAscend, RegistrationsLimited
<1> HIDE DEF a
<1>7. ASSUME NEW b \in Addresses, NEW t \in Times, t + Window > now
      PROVE  AtMostSince(perAddress[b], t, Cardinality(Running(req', SigningIn, b, t)) + wasted'[b][t])
  <2> DEFINE n == Cardinality(Running(req, SigningIn, b, t))
             m == Cardinality(Running(req', SigningIn, b, t))
             w == wasted[b][t]
             v == wasted'[b][t]
  <2>1. AtMostSince(perAddress[b], t, n + w)
    BY <1>7 DEF LimitInv, SignInsCounted
  <2>2. ~InRun(req'[r], SigningIn, b, t) /\ (InRun(req[r], SigningIn, b, t) <=> a = b /\ req[r].at >= t)
    <3>1. "idle" \notin SigningIn
      BY DEF SigningIn
    <3> QED BY <1>2, <3>1 DEF InRun, a
  <2>3. n \in Nat /\ m \in Nat /\ IF a = b /\ req[r].at >= t THEN m = n - 1 /\ n > 0 ELSE m = n
    BY <1>1, <1>2, <2>2, Clock, CountsMove
  <2>4. w \in Nat /\ t \in Nat
    BY <1>1, <1>5, Clock
  <2>5. IF a = b /\ req[r].at >= t THEN v = w + 1 ELSE v = w
    <3>1. t <= req[r].at <=> req[r].at >= t
      BY <2>4, <1>3
    <3> QED BY <1>2, <1>5, <2>4, <3>1
  <2> HIDE DEF n, m, w, v
  <2>6. m + v = n + w
    BY <2>3, <2>4, <2>5
  <2> QED BY <2>1, <2>6 DEF m, v
<1>8. SignInsCounted'
  BY <1>2, <1>7 DEF SignInsCounted
<1>9. RegistrationsCounted'
  <2> SUFFICES ASSUME NEW b \in Addresses, NEW t \in Times, t + Window > now
               PROVE  AtLeastSince(registrations[b], t, Cardinality(Running(req', Registering, b, t)))
    BY <1>2 DEF RegistrationsCounted
  <2>1. ~InRun(req[r], Registering, b, t) /\ ~InRun(req'[r], Registering, b, t)
    BY <1>2 DEF InRun, Registering, SigningIn
  <2>2. Cardinality(Running(req', Registering, b, t)) = Cardinality(Running(req, Registering, b, t))
    BY <1>1, <1>2, <2>1, Clock, CountsMove
  <2> QED BY <2>2 DEF LimitInv, RegistrationsCounted
<1> QED BY <1>4, <1>6, <1>8, <1>9 DEF Logs

\* With nothing recorded, nothing running and nothing wasted.
LEMMA EmptyLimiters ==
  now \in Nat /\ NoAttempts /\ req = [r \in Requests |-> Idle] => BusyFinite /\ StartsPast /\ Logs
<1> SUFFICES ASSUME now \in Nat, NoAttempts, req = [r \in Requests |-> Idle]
             PROVE  BusyFinite /\ StartsPast /\ Logs
  OBVIOUS
<1> USE AccountsAssumption
<1>1. /\ \A k \in Addresses \X Emails : perAccount[k] = <<>>
      /\ \A a \in Addresses : perAddress[a] = <<>> /\ registrations[a] = <<>>
      /\ \A a \in Addresses : \A t \in Times : wasted[a][t] = 0
      /\ \A r \in Requests : req[r].pc = "idle" /\ req[r] = Idle
  BY DEF NoAttempts, Idle
<1>2. BusyFinite
  <2>1. Busy = {}
    BY <1>1 DEF Busy
  <2> QED BY <2>1, FS_EmptySet DEF BusyFinite
<1>3. StartsPast
  BY <1>1 DEF StartsPast, SigningIn, Registering
<1>4. LogsAscend
  BY <1>1, EmptyLog DEF LogsAscend
<1>5. RegistrationsLimited
  <2>1. Len(Recent(<<>>, now)) = 0
    BY EmptyLog
  <2> QED BY <1>1, <2>1 DEF RegistrationsLimited
<1>6. \A a \in Addresses, t \in Times :
        Running(req, SigningIn, a, t) = {} /\ Running(req, Registering, a, t) = {}
  BY <1>1 DEF Running, SigningIn, Registering
<1>7. Cardinality({}) = 0
  BY FS_EmptySet
<1>8. SignInsCounted
  <2>1. \A t \in Times : AtMostSince(<<>>, t, 0)
    BY EmptyLog DEF Times
  <2>2. 0 + 0 = 0
    OBVIOUS
  <2> QED BY <1>1, <1>6, <1>7, <2>1, <2>2 DEF SignInsCounted
<1>9. RegistrationsCounted
  <2>1. \A s, t : AtLeastSince(s, t, 0)
    BY DEF AtLeastSince
  <2> QED BY <1>6, <1>7, <2>1 DEF RegistrationsCounted
<1> QED BY <1>2, <1>3, <1>4, <1>5, <1>8, <1>9 DEF Logs

LEMMA TickStep ==
  ASSUME LimitInv, Tick
  PROVE  BusyFinite' /\ StartsPast' /\ Logs'
<1>1. /\ now' = now + 1 /\ req' = req /\ wasted' = wasted /\ perAccount' = perAccount
      /\ perAddress' = perAddress /\ registrations' = registrations
  BY DEF Tick, limiters
<1>2. now \in Nat /\ Times \subseteq Nat /\ Window \in Nat /\ RegisterLimit \in Nat
  BY Clock DEF LimitInv
<1>3. BusyFinite'
  BY <1>1 DEF LimitInv, BusyFinite, Busy
<1>4. StartsPast'
  <2>1. \A r \in Requests : req[r].pc \in SigningIn \cup Registering => req[r].at \in Times
    BY Kinds DEF LimitInv
  <2>2. \A r \in Requests : req[r].pc \in SigningIn \cup Registering => req[r].at <= now + 1
    <3> SUFFICES ASSUME NEW r \in Requests, req[r].pc \in SigningIn \cup Registering
                 PROVE  req[r].at <= now + 1
      OBVIOUS
    <3>1. req[r].at \in Nat /\ req[r].at <= now
      BY <1>2, <2>1 DEF LimitInv, StartsPast
    <3> QED BY <1>2, <3>1
  <2> QED BY <1>1, <2>2 DEF StartsPast
<1>5. \A s : LogOK(s, now) => LogOK(s, now + 1) /\ Len(Recent(s, now + 1)) <= Len(Recent(s, now))
  BY <1>2, LogGrowsOld, FewerRecent
<1>6. LogsAscend'
  BY <1>1, <1>5 DEF LimitInv, LogsAscend
<1>7. RegistrationsLimited'
  <2> SUFFICES ASSUME NEW a \in Addresses PROVE Len(Recent(registrations[a], now + 1)) <= RegisterLimit
    BY <1>1 DEF RegistrationsLimited
  <2> DEFINE n == Len(Recent(registrations[a], now))
             m == Len(Recent(registrations[a], now + 1))
  <2>1. m <= n /\ n <= RegisterLimit /\ LogOK(registrations[a], now) /\ LogOK(registrations[a], now + 1)
    BY <1>5 DEF LimitInv, LogsAscend, RegistrationsLimited
  <2>2. n \in Nat /\ m \in Nat
    BY <1>2, <2>1, KeptOfLog DEF LogOK
  <2> HIDE DEF n, m
  <2>3. m <= RegisterLimit
    BY <2>1, <2>2, <1>2
  <2> QED BY <2>3 DEF m
<1>8. \A t \in Times : t + Window > now + 1 => t + Window > now
  BY <1>2
<1>9. SignInsCounted'
  BY <1>1, <1>8 DEF LimitInv, SignInsCounted
<1>10. RegistrationsCounted'
  BY <1>1, <1>8 DEF LimitInv, RegistrationsCounted
<1> QED BY <1>3, <1>4, <1>6, <1>7, <1>9, <1>10 DEF Logs

LEMMA RestartLimits ==
  ASSUME LimitInv, Restart
  PROVE  BusyFinite' /\ StartsPast' /\ Logs'
<1>1. (now \in Nat /\ NoAttempts /\ req = [r \in Requests |-> Idle])'
  <2>1. now' = now /\ now \in Nat
    BY Clock DEF LimitInv, Restart
  <2> QED BY <2>1 DEF Restart, NoAttempts
<1> QED BY <1>1, EmptyLimiters, PTL

LEMMA LimitsStep == LimitInv /\ [AccNext]_accVars => BusyFinite' /\ StartsPast' /\ Logs'
<1> SUFFICES ASSUME LimitInv, [AccNext]_accVars PROVE BusyFinite' /\ StartsPast' /\ Logs'
  OBVIOUS
<1>1. ASSUME NEW r \in Requests, NEW a \in Addresses, NEW e \in Emails, Login(r, a, e) \/ Register(r, a, e)
      PROVE  BusyFinite' /\ StartsPast' /\ Logs'
  BY <1>1, LoginStep, RegisterStep
<1>2. ASSUME NEW r \in Requests, LookUp(r) \/ Accept(r) \/ Hash(r)
      PROVE  BusyFinite' /\ StartsPast' /\ Logs'
  BY <1>2, SameAttemptStep
<1>3. ASSUME NEW r \in Requests,
             Enrol(r) \/ Erase(r) \/ Refuse(r) \/ (\E s \in sessions : BeginErase(r, s))
      PROVE  BusyFinite' /\ StartsPast' /\ Logs'
  BY <1>3, UncountedStep, RefuseSignIn
<1>4. ASSUME NEW r \in Requests, OpenSession(r)
      PROVE  BusyFinite' /\ StartsPast' /\ Logs'
  BY <1>4, OpenSessionLimits
<1>5. CASE (\E s \in sessions : Logout(s)) \/ Purge \/ UNCHANGED accVars
  <2>1. UNCHANGED <<now, perAccount, perAddress, registrations, req, wasted>>
    BY <1>5 DEF Logout, Purge, accVars, limiters
  <2>2. BusyFinite' /\ StartsPast'
    BY <2>1 DEF LimitInv, BusyFinite, Busy, StartsPast
  <2>3. Logs'
    BY <2>1 DEF LimitInv, Logs, LogsAscend, SignInsCounted, RegistrationsCounted, RegistrationsLimited
  <2> QED BY <2>2, <2>3
<1>6. CASE Restart
  BY <1>6, RestartLimits
<1>7. CASE Tick
  BY <1>7, TickStep
<1> QED BY <1>1, <1>2, <1>3, <1>4, <1>5, <1>6, <1>7 DEF AccNext

-----------------------------------------------------------------------------
(* Types.                                                                  *)

LEMMA AttemptTypes ==
  ASSUME AccTypeOK, LogsAscend'
  PROVE  now' \in Times => /\ \A k \in Addresses \X Emails : perAccount'[k] \in Seq(Times)
                           /\ \A a \in Addresses : perAddress'[a] \in Seq(Times)
                           /\ \A a \in Addresses : registrations'[a] \in Seq(Times)
<1> SUFFICES ASSUME now' \in Times
             PROVE  \A s : LogOK(s, now') => s \in Seq(Times)
  BY DEF LogsAscend
<1>1. 0..now' \subseteq Times
  BY AccountsAssumption DEF Times
<1> QED BY <1>1, SeqMonotonic DEF LogOK

LEMMA InitTypes == AccInit => AccTypeOK
<1> SUFFICES ASSUME AccInit PROVE AccTypeOK
  OBVIOUS
<1>1. now \in Times
  BY AccountsAssumption DEF AccInit, Times
<1>2. req \in [Requests -> ReqState]
  BY DEF AccInit, ReqState
<1>3. /\ perAccount \in [Addresses \X Emails -> Seq(Times)]
      /\ perAddress \in [Addresses -> Seq(Times)]
      /\ registrations \in [Addresses -> Seq(Times)]
      /\ wasted \in [Addresses -> [Times -> Nat]]
  BY DEF AccInit, NoAttempts
<1> QED BY <1>1, <1>2, <1>3 DEF AccTypeOK, AccInit

\* The rows, the requests and the functions the limiters are.
RowTypes == users \subseteq User /\ sessions \subseteq Session /\ spent \subseteq UserIds \cup Tokens

LimiterShapes ==
  /\ \E f : perAccount = [k \in Addresses \X Emails |-> f[k]]
  /\ \E f : perAddress = [a \in Addresses |-> f[a]]
  /\ \E f : registrations = [a \in Addresses |-> f[a]]

LEMMA TypesFromLogs ==
  ASSUME AccTypeOK, LogsAscend', RowTypes', now' \in Times, LimiterShapes',
         req' \in [Requests -> ReqState], wasted' \in [Addresses -> [Times -> Nat]]
  PROVE  AccTypeOK'
<1>1. /\ \A k \in Addresses \X Emails : perAccount'[k] \in Seq(Times)
      /\ \A a \in Addresses : perAddress'[a] \in Seq(Times)
      /\ \A a \in Addresses : registrations'[a] \in Seq(Times)
  BY AttemptTypes
<1>2. /\ perAccount' \in [Addresses \X Emails -> Seq(Times)]
      /\ perAddress' \in [Addresses -> Seq(Times)]
      /\ registrations' \in [Addresses -> Seq(Times)]
  BY <1>1 DEF LimiterShapes
<1> QED BY <1>2 DEF RowTypes, AccTypeOK

StepTypes ==
  /\ RowTypes /\ LimiterShapes /\ now \in Times
  /\ req \in [Requests -> ReqState]
  /\ wasted \in [Addresses -> [Times -> Nat]]

LEMMA RowsOfTypes ==
  ASSUME AccTypeOK
  PROVE  RowTypes /\ StepTypes
<1>1. LimiterShapes
  BY DEF AccTypeOK, LimiterShapes
<1> QED BY <1>1 DEF AccTypeOK, RowTypes, StepTypes

LEMMA SignInTypes ==
  ASSUME AccTypeOK, NEW r \in Requests, LookUp(r) \/ Accept(r) \/ OpenSession(r)
  PROVE  StepTypes'
<1>1. RowTypes /\ LimiterShapes /\ now \in Times /\ req \in [Requests -> ReqState]
      /\ wasted \in [Addresses -> [Times -> Nat]]
  BY RowsOfTypes DEF StepTypes
<1>2. req[r].pc \in SigningIn
  BY DEF LookUp, Accept, OpenSession, SigningIn
<1>3. req[r].address \in Addresses /\ req[r].email \in Emails /\ req[r].at \in Times
  BY <1>2, Kinds
<1>4. req[r] \in ReqState
  BY <1>1
<1>5. now \in Nat /\ SessionTtl \in Nat
  BY <1>1, AccountsAssumption DEF Times
<1>6. CASE LookUp(r)
  <2>1. ASSUME NEW u \in IF FoundBy(req[r].email) = {} THEN {NoUser} ELSE FoundBy(req[r].email)
        PROVE  u \in UserIds \cup {NoUser}
    BY <1>1 DEF FoundBy, RowTypes, User
  <2>2. ASSUME NEW u \in UserIds \cup {NoUser}
        PROVE  [pc |-> "verify", address |-> req[r].address, email |-> req[r].email,
                at |-> req[r].at, user |-> u] \in ReqState
    BY <1>3 DEF ReqState
  <2>3. PICK u \in UserIds \cup {NoUser} :
          req' = [req EXCEPT ![r] = [pc |-> "verify", address |-> req[r].address,
                    email |-> req[r].email, at |-> req[r].at, user |-> u]]
    BY <1>6, <2>1 DEF LookUp
  <2>4. req' \in [Requests -> ReqState]
    BY <1>1, <2>2, <2>3
  <2>5. UNCHANGED <<now, users, sessions, spent, perAccount, perAddress, registrations, wasted>>
    BY <1>6 DEF LookUp, rows, limiters
  <2> QED BY <1>1, <2>4, <2>5 DEF StepTypes, RowTypes, LimiterShapes
<1>7. CASE Accept(r)
  <2>1. req[r].user \in UserIds
    BY <1>4, <1>7 DEF Accept, ReqState, Idle
  <2>2. [pc |-> "open", address |-> req[r].address, email |-> req[r].email, at |-> req[r].at,
         user |-> req[r].user, expires |-> now + SessionTtl] \in ReqState
    BY <1>3, <1>5, <2>1 DEF ReqState
  <2>3. req' = [req EXCEPT ![r] = [pc |-> "open", address |-> req[r].address, email |-> req[r].email,
                  at |-> req[r].at, user |-> req[r].user, expires |-> now + SessionTtl]]
    BY <1>7 DEF Accept
  <2>4. req' \in [Requests -> ReqState]
    BY <1>1, <2>2, <2>3
  <2>5. UNCHANGED <<now, users, sessions, spent, perAccount, perAddress, registrations, wasted>>
    BY <1>7 DEF Accept, rows, limiters
  <2> QED BY <1>1, <2>4, <2>5 DEF StepTypes, RowTypes, LimiterShapes
<1>8. CASE OpenSession(r)
  <2>1. req[r].user \in UserIds /\ req[r].expires \in Nat
    BY <1>4, <1>8 DEF OpenSession, ReqState, Idle
  <2>2. PICK k \in Tokens :
          /\ sessions' = sessions \cup {[token |-> k, user |-> req[r].user, expires |-> req[r].expires]}
          /\ spent' = spent \cup {k}
    BY <1>8 DEF OpenSession
  <2>3. [token |-> k, user |-> req[r].user, expires |-> req[r].expires] \in Session
    BY <2>1 DEF Session
  <2>4. users' = users /\ now' = now /\ wasted' = wasted /\ registrations' = registrations
    BY <1>8 DEF OpenSession
  <2>5. RowTypes'
    BY <1>1, <2>2, <2>3, <2>4 DEF RowTypes
  <2>6. req' \in [Requests -> ReqState]
    BY <1>1, <1>8 DEF OpenSession, ReqState
  <2>7. LimiterShapes'
    <3>1. /\ perAccount' = [k2 \in Addresses \X Emails |-> perAccount'[k2]]
          /\ perAddress' = [a \in Addresses |-> perAddress'[a]]
      BY <1>1, <1>8 DEF OpenSession, Reset, Release, LimiterShapes
    <3> QED BY <1>1, <2>4, <3>1 DEF LimiterShapes
  <2> QED BY <1>1, <2>4, <2>5, <2>6, <2>7 DEF StepTypes
<1> QED BY <1>6, <1>7, <1>8

LEMMA BeginTypes ==
  ASSUME AccTypeOK, NEW r \in Requests, NEW a \in Addresses, NEW e \in Emails,
         Login(r, a, e) \/ Register(r, a, e)
  PROVE  StepTypes'
<1>1. RowTypes /\ LimiterShapes /\ now \in Times /\ req \in [Requests -> ReqState]
      /\ wasted \in [Addresses -> [Times -> Nat]]
  BY RowsOfTypes DEF StepTypes
<1>2. req' \in [Requests -> ReqState]
  <2>1. /\ [pc |-> "login", address |-> a, email |-> e, at |-> now] \in ReqState
        /\ [pc |-> "register", address |-> a, email |-> e, at |-> now] \in ReqState
    BY <1>1 DEF ReqState
  <2> QED BY <1>1, <2>1 DEF Login, Register
<1>3. UNCHANGED <<now, users, sessions, spent, wasted>>
  BY DEF Login, Register, rows
<1>4. LimiterShapes'
  <2>1. /\ perAccount' = [k \in Addresses \X Emails |-> perAccount'[k]]
        /\ perAddress' = [b \in Addresses |-> perAddress'[b]]
        /\ registrations' = [b \in Addresses |-> registrations'[b]]
    BY <1>1 DEF Login, Register, Record, LimiterShapes
  <2> QED BY <2>1 DEF LimiterShapes
<1> QED BY <1>1, <1>2, <1>3, <1>4 DEF StepTypes, RowTypes

LEMMA EnrolTypes ==
  ASSUME AccTypeOK, NEW r \in Requests, Hash(r) \/ Enrol(r)
  PROVE  StepTypes'
<1>1. RowTypes /\ LimiterShapes /\ now \in Times /\ req \in [Requests -> ReqState]
      /\ wasted \in [Addresses -> [Times -> Nat]]
  BY RowsOfTypes DEF StepTypes
<1>2. req[r].pc \in Registering
  BY DEF Hash, Enrol, Registering
<1>3. req[r].address \in Addresses /\ req[r].email \in Emails /\ req[r].at \in Times
  BY <1>2, Kinds
<1>4. req[r] \in ReqState /\ now \in Nat /\ SessionTtl \in Nat
  BY <1>1, AccountsAssumption DEF Times
<1>5. CASE Hash(r)
  <2>1. [pc |-> "enrol", address |-> req[r].address, email |-> req[r].email,
         at |-> req[r].at, expires |-> now + SessionTtl] \in ReqState
    BY <1>3, <1>4 DEF ReqState
  <2>2. req' \in [Requests -> ReqState]
    BY <1>1, <1>5, <2>1 DEF Hash
  <2>3. UNCHANGED <<now, users, sessions, spent, perAccount, perAddress, registrations, wasted>>
    BY <1>5 DEF Hash, rows, limiters
  <2> QED BY <1>1, <2>2, <2>3 DEF StepTypes, RowTypes, LimiterShapes
<1>6. CASE Enrol(r)
  <2>1. req[r].expires \in Nat
    BY <1>4, <1>6 DEF Enrol, ReqState, Idle
  <2>2. PICK u \in UserIds, k \in Tokens :
          /\ users' = users \cup {[id |-> u, email |-> req[r].email]}
          /\ sessions' = sessions \cup {[token |-> k, user |-> u, expires |-> req[r].expires]}
          /\ spent' = spent \cup {u, k}
    BY <1>6 DEF Enrol
  <2>3. /\ [id |-> u, email |-> req[r].email] \in User
        /\ [token |-> k, user |-> u, expires |-> req[r].expires] \in Session
    BY <1>3, <2>1 DEF User, Session
  <2>4. RowTypes'
    BY <1>1, <2>2, <2>3 DEF RowTypes
  <2>5. req' \in [Requests -> ReqState]
    BY <1>1, <1>6 DEF Enrol, ReqState
  <2>6. UNCHANGED <<now, perAccount, perAddress, registrations, wasted>>
    BY <1>6 DEF Enrol, limiters
  <2> QED BY <1>1, <2>4, <2>5, <2>6 DEF StepTypes, LimiterShapes
<1> QED BY <1>5, <1>6

LEMMA EndTypes ==
  ASSUME AccTypeOK, NEW r \in Requests,
         Erase(r) \/ Refuse(r) \/ (\E s \in sessions : BeginErase(r, s))
  PROVE  StepTypes'
<1>1. RowTypes /\ LimiterShapes /\ now \in Times /\ req \in [Requests -> ReqState]
      /\ wasted \in [Addresses -> [Times -> Nat]]
  BY RowsOfTypes DEF StepTypes
<1>2. now' = now /\ perAccount' = perAccount /\ perAddress' = perAddress /\ registrations' = registrations
  BY DEF Erase, Refuse, BeginErase, limiters
<1>3. RowTypes'
  BY <1>1 DEF RowTypes, Erase, Refuse, BeginErase, rows
<1>4. req' \in [Requests -> ReqState]
  <2>1. CASE Erase(r) \/ Refuse(r)
    BY <1>1, <2>1 DEF Erase, Refuse, ReqState
  <2>2. CASE \E s \in sessions : BeginErase(r, s)
    <3>1. PICK s \in sessions : BeginErase(r, s)
      BY <2>2
    <3>2. s.user \in UserIds
      BY <1>1 DEF RowTypes, Session
    <3>3. [pc |-> "erase", user |-> s.user] \in ReqState
      BY <3>2 DEF ReqState
    <3> QED BY <1>1, <3>1, <3>3 DEF BeginErase
  <2> QED BY <2>1, <2>2
<1>5. wasted' \in [Addresses -> [Times -> Nat]]
  <2>1. CASE Refuse(r) /\ req[r].pc \in SigningIn
    <3>1. req[r].address \in Addresses
      BY <2>1, Kinds
    <3> DEFINE f == [t \in Times |-> wasted[req[r].address][t] + IF t <= req[r].at THEN 1 ELSE 0]
    <3>2. f \in [Times -> Nat]
      BY <1>1, <3>1
    <3>3. wasted' = [wasted EXCEPT ![req[r].address] = f]
      BY <2>1 DEF Refuse
    <3> HIDE DEF f
    <3> QED BY <1>1, <3>2, <3>3
  <2>2. CASE ~(Refuse(r) /\ req[r].pc \in SigningIn)
    <3>1. wasted' = wasted
      BY <2>2 DEF Erase, Refuse, BeginErase
    <3> QED BY <1>1, <3>1
  <2> QED BY <2>1, <2>2
<1> QED BY <1>1, <1>2, <1>3, <1>4, <1>5 DEF StepTypes, LimiterShapes

LEMMA OtherTypes ==
  ASSUME AccTypeOK,
         (\E s \in sessions : Logout(s)) \/ Purge \/ Restart \/ Tick \/ UNCHANGED accVars
  PROVE  StepTypes'
<1>1. RowTypes /\ LimiterShapes /\ now \in Times /\ req \in [Requests -> ReqState]
      /\ wasted \in [Addresses -> [Times -> Nat]]
  BY RowsOfTypes DEF StepTypes
<1>2. RowTypes'
  BY <1>1 DEF RowTypes, Logout, Purge, Restart, Tick, accVars, rows
<1>3. now' \in Times
  <2>1. now' = now \/ (now < MaxTime /\ now' = now + 1)
    BY DEF Logout, Purge, Restart, Tick, accVars
  <2> QED BY <1>1, <2>1, AccountsAssumption DEF Times
<1>4. CASE ~Restart
  <2>1. UNCHANGED <<perAccount, perAddress, registrations, req, wasted>>
    BY <1>4 DEF Logout, Purge, Tick, accVars, limiters
  <2> QED BY <1>1, <1>2, <1>3, <2>1 DEF StepTypes, LimiterShapes
<1>5. CASE Restart
  <2>1. req' \in [Requests -> ReqState] /\ wasted' \in [Addresses -> [Times -> Nat]]
    BY <1>5 DEF Restart, ReqState
  <2>2. LimiterShapes'
    <3>1. /\ perAccount' = [k \in Addresses \X Emails |-> perAccount'[k]]
          /\ perAddress' = [a \in Addresses |-> perAddress'[a]]
          /\ registrations' = [a \in Addresses |-> registrations'[a]]
      BY <1>5 DEF Restart
    <3> QED BY <3>1 DEF LimiterShapes
  <2> QED BY <1>2, <1>3, <2>1, <2>2 DEF StepTypes
<1> QED BY <1>4, <1>5

LEMMA TypesStep == LimitInv /\ [AccNext]_accVars => AccTypeOK'
<1> SUFFICES ASSUME LimitInv, [AccNext]_accVars PROVE AccTypeOK'
  OBVIOUS
<1>1. AccTypeOK
  BY DEF LimitInv
<1>2. StepTypes'
  <2>1. ASSUME NEW r \in Requests, NEW a \in Addresses, NEW e \in Emails, Login(r, a, e) \/ Register(r, a, e)
        PROVE  StepTypes'
    BY <1>1, <2>1, BeginTypes
  <2>2. ASSUME NEW r \in Requests, LookUp(r) \/ Accept(r) \/ OpenSession(r)
        PROVE  StepTypes'
    BY <1>1, <2>2, SignInTypes
  <2>3. ASSUME NEW r \in Requests, Hash(r) \/ Enrol(r)
        PROVE  StepTypes'
    BY <1>1, <2>3, EnrolTypes
  <2>4. ASSUME NEW r \in Requests, Erase(r) \/ Refuse(r) \/ (\E s \in sessions : BeginErase(r, s))
        PROVE  StepTypes'
    BY <1>1, <2>4, EndTypes
  <2>5. CASE (\E s \in sessions : Logout(s)) \/ Purge \/ Restart \/ Tick \/ UNCHANGED accVars
    BY <1>1, <2>5, OtherTypes
  <2> QED BY <2>1, <2>2, <2>3, <2>4, <2>5 DEF AccNext
<1>3. LogsAscend'
  BY LimitsStep DEF Logs
<1> QED BY <1>1, <1>2, <1>3, TypesFromLogs DEF StepTypes

LEMMA LimitInvInit == AccInit => LimitInv
<1> SUFFICES ASSUME AccInit PROVE LimitInv
  OBVIOUS
<1>1. AccTypeOK
  BY InitTypes
<1>2. now \in Nat /\ NoAttempts /\ req = [r \in Requests |-> Idle]
  BY DEF AccInit
<1> QED BY <1>1, <1>2, EmptyLimiters DEF LimitInv, Logs

LEMMA LimitInvariance == AccSpec => []LimitInv
<1>1. LimitInv /\ [AccNext]_accVars => LimitInv'
  BY TypesStep, LimitsStep DEF LimitInv, Logs
<1> QED BY <1>1, LimitInvInit, PTL DEF AccSpec

\* Rows, requests and limiters keep their shape for any number of each.
THEOREM AccountsTypes == AccSpec => []AccTypeOK
<1>1. LimitInv => AccTypeOK
  BY DEF LimitInv
<1> QED BY <1>1, LimitInvariance, PTL

LEMMA HashingBound == LimitInv => HashingIsBounded
<1> SUFFICES ASSUME LimitInv, NEW a \in Addresses
             PROVE  Cardinality({r \in Requests : /\ req[r].pc \in Registering
                                                  /\ req[r].address = a
                                                  /\ req[r].at + Window > now}) <= RegisterLimit
  BY DEF HashingIsBounded
<1> DEFINE first == IF now < Window THEN 0 ELSE now - Window + 1
           hashing == Running(req, Registering, a, first)
           n == Cardinality(hashing)
           s == registrations[a]
<1>1. AccTypeOK /\ BusyFinite /\ LogOK(s, now) /\ Len(Recent(s, now)) <= RegisterLimit
  BY DEF LimitInv, LogsAscend, RegistrationsLimited
<1>2. now \in Times /\ now \in Nat /\ Window \in Nat \ {0} /\ RegisterLimit \in Nat \ {0}
  BY <1>1, Clock DEF AccTypeOK
<1>3. first \in Times /\ first \in Nat /\ first + Window > now
  <2>1. CASE now < Window
    BY <1>2, <2>1, AccountsAssumption DEF Times
  <2>2. CASE ~(now < Window)
    BY <1>2, <2>2, AccountsAssumption DEF Times
  <2> QED BY <2>1, <2>2
<1>4. \A t \in Nat : t >= first <=> t + Window > now
  BY <1>2
<1>5. {r \in Requests : req[r].pc \in Registering /\ req[r].address = a /\ req[r].at + Window > now} = hashing
  <2>1. \A r \in Requests : req[r].pc \in Registering => req[r].at \in Nat
    BY <1>1, Kinds, Clock
  <2> HIDE DEF first
  <2> QED BY <1>4, <2>1 DEF Running
<1>6. AtLeastSince(s, first, n)
  <2> HIDE DEF first
  <2> QED BY <1>3 DEF LimitInv, RegistrationsCounted
<1>7. n \in Nat
  BY <1>1, Clock, RunningFinite
<1> HIDE DEF first, hashing, s, n
<1>8. Len(Recent(s, now)) \in Nat /\ s \in Seq(0..now)
  BY <1>1, <1>2, KeptOfLog DEF LogOK
<1>9. n > 0 => Len(Recent(s, now)) > n - 1
  <2> SUFFICES ASSUME n > 0 PROVE Len(Recent(s, now)) > n - 1
    OBVIOUS
  <2>1. n <= Len(s) /\ s[Len(s) - n + 1] >= first
    BY <1>6 DEF AtLeastSince
  <2>2. n - 1 \in Nat /\ Len(s) > n - 1 /\ Len(s) - (n - 1) = Len(s) - n + 1 /\ Len(s) - n + 1 \in 1..Len(s)
    BY <1>7, <1>8, <2>1
  <2>3. s[Len(s) - n + 1] \in 0..now
    BY <1>8, <2>2, ElementOfSeq
  <2>4. s[Len(s) - (n - 1)] + Window > now
    BY <1>2, <1>4, <2>1, <2>2, <2>3
  <2> QED BY <1>1, <1>2, <2>2, <2>4, ManyRecent
<1>10. n <= RegisterLimit
  BY <1>1, <1>2, <1>7, <1>8, <1>9
<1> QED BY <1>5, <1>10 DEF n

\* However many registrations of an address arrive while the first is being
\* hashed, those that are hashed within a window never exceed its limit.
THEOREM HashesStayBounded == AccSpec => []HashingIsBounded
  BY HashingBound, LimitInvariance, PTL

LEMMA SuccessesFree == LimitInv => SuccessesCostNothing
<1> SUFFICES ASSUME LimitInv, NEW a \in Addresses
             PROVE  LET first == IF now < Window THEN 0 ELSE now - Window + 1
                        running == {r \in Requests : /\ req[r].pc \in SigningIn
                                                     /\ req[r].address = a
                                                     /\ req[r].at >= first}
                    IN Len(Recent(perAddress[a], now)) <= Cardinality(running) + wasted[a][first]
  BY DEF SuccessesCostNothing
<1> DEFINE first == IF now < Window THEN 0 ELSE now - Window + 1
           running == Running(req, SigningIn, a, first)
           n == Cardinality(running) + wasted[a][first]
           s == perAddress[a]
<1>1. AccTypeOK /\ BusyFinite /\ LogOK(s, now)
  BY DEF LimitInv, LogsAscend
<1>2. now \in Times /\ now \in Nat /\ Window \in Nat \ {0}
  BY <1>1, Clock DEF AccTypeOK
<1>3. first \in Times /\ first \in Nat /\ first + Window > now
  <2>1. CASE now < Window
    BY <1>2, <2>1, AccountsAssumption DEF Times
  <2>2. CASE ~(now < Window)
    BY <1>2, <2>2, AccountsAssumption DEF Times
  <2> QED BY <2>1, <2>2
<1>4. \A t \in Nat : t + Window > now => t >= first
  BY <1>2
<1>5. {r \in Requests : req[r].pc \in SigningIn /\ req[r].address = a /\ req[r].at >= first} = running
  BY DEF Running
<1> HIDE DEF first
<1>6. AtMostSince(s, first, n)
  BY <1>3 DEF LimitInv, SignInsCounted
<1>7. n \in Nat
  <2>1. Cardinality(running) \in Nat
    BY <1>1, Clock, RunningFinite
  <2>2. wasted[a][first] \in Nat
    BY <1>1, <1>3 DEF AccTypeOK
  <2> QED BY <2>1, <2>2
<1> HIDE DEF running, s, n
<1>8. Len(Recent(s, now)) \in Nat /\ s \in Seq(0..now)
  BY <1>1, <1>2, KeptOfLog DEF LogOK
<1>9. ~(Len(Recent(s, now)) > n)
  <2> SUFFICES ASSUME Len(Recent(s, now)) > n PROVE FALSE
    OBVIOUS
  <2>1. Len(s) > n /\ s[Len(s) - n] + Window > now
    BY <1>1, <1>2, <1>7, ManyRecent
  <2>2. Len(s) - n \in 1..Len(s)
    BY <2>1, <1>7, <1>8
  <2>3. s[Len(s) - n] \in Nat
    <3>1. s[Len(s) - n] \in 0..now
      BY <1>8, <2>2, ElementOfSeq
    <3> QED BY <1>2, <3>1
  <2>4. s[Len(s) - n] < first
    BY <2>1, <1>6 DEF AtMostSince
  <2> QED BY <1>3, <1>4, <2>1, <2>3, <2>4
<1>10. Len(Recent(s, now)) <= n
  BY <1>7, <1>8, <1>9
<1> QED BY <1>5, <1>10 DEF first, n, s

\* Sign-ins that overlap withdraw each other's attempts, and still an address
\* is charged for nothing but what failed or has not ended.
THEOREM SuccessesStayFree == AccSpec => []SuccessesCostNothing
  BY SuccessesFree, LimitInvariance, PTL

LEMMA ExactRefusals == LimitInv => RefusalsAreExact
<1> SUFFICES ASSUME LimitInv, NEW a \in Addresses, RetryAfter(perAddress[a], AddressLimit, now) > 0
             PROVE  LET wait == RetryAfter(perAddress[a], AddressLimit, now)
                    IN /\ RetryAfter(perAddress[a], AddressLimit, now + wait) = 0
                       /\ RetryAfter(perAddress[a], AddressLimit, (now + wait) - 1) > 0
  BY DEF RefusalsAreExact
<1> DEFINE s == perAddress[a]
           wait == RetryAfter(s, AddressLimit, now)
           p == Len(s) - AddressLimit + 1
           free == now + wait
<1>1. AccTypeOK /\ LogOK(s, now)
  BY DEF LimitInv, LogsAscend
<1>1a. wait = RetryAfter(s, AddressLimit, now) /\ wait > 0
  OBVIOUS
<1> HIDE DEF s, wait
<1>2. now \in Nat /\ Window \in Nat \ {0} /\ AddressLimit \in Nat \ {0}
  BY <1>1, Clock
<1>3. /\ s \in Seq(0..now) /\ Len(s) \in Nat /\ Len(Recent(s, now)) \in Nat
      /\ Len(s) - Len(Recent(s, now)) \in Nat
      /\ \A i \in 1..Len(Recent(s, now)) : Recent(s, now)[i] = s[(Len(s) - Len(Recent(s, now))) + i]
  BY <1>1, <1>2, KeptOfLog DEF LogOK
<1>4. wait \in Nat /\ wait > 0 /\ ~(Len(Recent(s, now)) < AddressLimit)
  BY <1>1, <1>1a, <1>2, AllowedBelowLimit
<1>5. wait = (Recent(s, now)[Len(Recent(s, now)) - AddressLimit + 1] + Window) - now
  BY <1>1a, <1>4 DEF RetryAfter
<1>6. /\ p \in 1..Len(s) /\ Len(s) > AddressLimit - 1 /\ AddressLimit - 1 \in Nat
      /\ Len(s) - (AddressLimit - 1) = p
  BY <1>2, <1>3, <1>4
<1>7. Recent(s, now)[Len(Recent(s, now)) - AddressLimit + 1] = s[p]
  <2> DEFINE i == Len(Recent(s, now)) - AddressLimit + 1
  <2>1. i \in 1..Len(Recent(s, now)) /\ (Len(s) - Len(Recent(s, now))) + i = p
    BY <1>2, <1>3, <1>4
  <2> HIDE DEF i
  <2>2. Recent(s, now)[i] = s[(Len(s) - Len(Recent(s, now))) + i]
    BY <1>3, <2>1
  <2> QED BY <2>1, <2>2 DEF i
<1> HIDE DEF p
<1>8. s[p] \in Nat /\ free = s[p] + Window
  <2>1. s[p] \in 0..now
    BY <1>3, <1>6, ElementOfSeq
  <2> QED BY <2>1, <1>2, <1>4, <1>5, <1>7
<1>9. free \in Nat /\ free - 1 \in Nat /\ now <= free /\ now <= free - 1
  BY <1>2, <1>4
<1> HIDE DEF free
<1>10. LogOK(s, free) /\ LogOK(s, free - 1)
  BY <1>1, <1>2, <1>9, LogGrowsOld
<1>11. ~(Len(Recent(s, free)) > AddressLimit - 1)
  <2>1. ~(s[p] + Window > free)
    BY <1>8, <1>9
  <2> QED BY <1>6, <1>9, <1>10, <2>1, ManyRecent
<1>12. Len(Recent(s, free - 1)) > AddressLimit - 1
  <2>1. s[p] + Window > free - 1
    BY <1>8, <1>9
  <2> QED BY <1>6, <1>9, <1>10, <2>1, ManyRecent
<1>13. Len(Recent(s, free)) \in Nat /\ Len(Recent(s, free - 1)) \in Nat
  BY <1>9, <1>10, KeptOfLog DEF LogOK
<1>14. Len(Recent(s, free)) < AddressLimit /\ ~(Len(Recent(s, free - 1)) < AddressLimit)
  BY <1>2, <1>11, <1>12, <1>13
<1>15. RetryAfter(s, AddressLimit, free) = 0
  BY <1>2, <1>9, <1>10, <1>14, AllowedBelowLimit
<1>16. RetryAfter(s, AddressLimit, free - 1) \in Nat /\ RetryAfter(s, AddressLimit, free - 1) # 0
  BY <1>2, <1>9, <1>10, <1>14, AllowedBelowLimit
<1>17. RetryAfter(s, AddressLimit, free - 1) > 0
  BY <1>16
<1> QED BY <1>15, <1>17 DEF free, wait, s

\* Whoever waits as long as the refusal says may try again, and nobody was
\* made to wait one tick too long.
THEOREM RefusalsStayExact == AccSpec => []RefusalsAreExact
  BY ExactRefusals, LimitInvariance, PTL

=============================================================================
