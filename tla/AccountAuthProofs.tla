------------------------- MODULE AccountAuthProofs -------------------------
(***************************************************************************)
(* Proofs of the safety properties of AccountAuth, for any accounts, users *)
(* and jobs and any number of tokens.                                      *)
(***************************************************************************)
EXTENDS AccountAuth, WellFoundedInduction, TLAPS

USE AccountsAssumption, NamesAssumption, TokenAssumption DEF NoAccount

(***************************************************************************)
(* A nonempty set of natural numbers has a smallest element: what Advance  *)
(* chooses exists.                                                         *)
(***************************************************************************)
LEMMA Smallest ==
    ASSUME NEW S \in SUBSET Nat, S # {}
    PROVE  \E m \in S : \A n \in S : m <= n
<1> DEFINE Less == {p \in Nat \X Nat : p[1] < p[2]}
<1>1. IsWellFoundedOn(Less, Nat)
  BY NatLessThanWellFounded DEF OpToRel
<1>2. \E m \in S : \A n \in S : ~ (<<n, m>> \in Less)
  BY <1>1, WFMin
<1>3. \A m, n \in S : ~ (<<n, m>> \in Less) => m <= n
  OBVIOUS
<1> QED
  BY <1>2, <1>3

(***************************************************************************)
(* Type correctness.                                                       *)
(***************************************************************************)
LEMMA AuthTypeInit == Init => AuthTypeOK
BY DEF Init, AuthTypeOK, NoRow, IdleJob, JobRecords, Kinds, Steps, NoHealth, HealthRecords,
       Tokens

\* The helpers of the actions keep to the types.
LEMMA LoggedOutType ==
    ASSUME AuthTypeOK, NEW a
    PROVE  LoggedOut(account, a) \in [Accounts -> [user: Users \union {NoUser}, ok: BOOLEAN,
                                                   token: 0..MaxToken]]
BY DEF AuthTypeOK, LoggedOut

LEMMA JoinLoginType ==
    ASSUME AuthTypeOK, NEW j \in Jobs, NEW a, NEW begun \in JobRecords, JoinLogin(j, a, begun)
    PROVE  job' \in [Jobs -> JobRecords]
<1>1. \A b, l \in BOOLEAN : [begun EXCEPT !.beside = b, !.late = l] \in JobRecords
  BY DEF JobRecords
<1>2. \A i \in Jobs : [job[i] EXCEPT !.beside = TRUE] \in JobRecords
  BY DEF AuthTypeOK, JobRecords
<1>3. job' = [i \in Jobs |-> job'[i]]
  BY DEF JoinLogin
<1>4. ASSUME NEW i \in Jobs
      PROVE  job'[i] \in JobRecords
  <2> DEFINE others == {k \in Jobs \ {j} : a # NoAccount /\ LoginOf(k, a)}
  <2>1. job'[i] = IF i = j THEN [begun EXCEPT !.beside = others # {}, !.late = a \in deleting]
                  ELSE IF i \in others THEN [job[i] EXCEPT !.beside = TRUE] ELSE job[i]
    BY Zenon DEF JoinLogin
  <2>2. (others # {}) \in BOOLEAN /\ (a \in deleting) \in BOOLEAN
    OBVIOUS
  <2>3. CASE i = j
    <3> HIDE DEF others
    <3> QED
      BY <1>1, <2>1, <2>3, <2>2, Zenon
  <2>4. CASE i # j
    BY <1>2, <2>1, <2>4 DEF AuthTypeOK
  <2> QED
    BY <2>3, <2>4
<1> QED
  BY <1>3, <1>4

LEMMA KeyType == \A j \in Jobs : AuthTypeOK => Key(j) \in Keys
BY DEF AuthTypeOK, JobRecords, Key, Keys

\* Steps and kinds as members of their sets.
LEMMA Names ==
    /\ {"none", "authorize", "refresh"} \subseteq Kinds
    /\ {"idle", "created", "browser", "validating", "calling", "queued"} \subseteq Steps
BY DEF Kinds, Steps

LEMMA IdleJobType == IdleJob \in JobRecords
BY DEF IdleJob, JobRecords, Kinds, Steps

LEMMA FailType ==
    ASSUME AuthTypeOK, NEW j \in Jobs, Fail(j)
    PROVE  /\ account' \in [Accounts -> [user: Users \union {NoUser}, ok: BOOLEAN,
                                         token: 0..MaxToken]]
           /\ job' \in [Jobs -> JobRecords]
           /\ authMark' \subseteq Accounts
           /\ missing' \subseteq Accounts
           /\ lock' \in [Accounts -> Jobs \union {NoJob}]
BY LoggedOutType, IdleJobType DEF Fail, Unmark, AuthTypeOK

LEMMA AdvanceType ==
    ASSUME AuthTypeOK,
           NEW table \in [Accounts -> [user: Users \union {NoUser}, ok: BOOLEAN,
                                       token: 0..MaxToken]],
           NEW todo \in SUBSET Accounts, NEW seen \in SUBSET Accounts,
           Advance(table, todo, seen)
    PROVE  /\ account' \in [Accounts -> [user: Users \union {NoUser}, ok: BOOLEAN,
                                         token: 0..MaxToken]]
           /\ health' \in HealthRecords
<1> DEFINE asks == {a \in todo \intersect seen : table[a].user # NoUser}
           passed == {a \in todo : \A b \in asks : a < b}
           first == CHOOSE a \in asks : \A b \in asks : a <= b
<1>1. \A a \in Accounts : LoggedOut(table, a)[a] \in [user: Users \union {NoUser}, ok: BOOLEAN,
                                                       token: 0..MaxToken]
  BY DEF LoggedOut
<1>2. account' = [a \in Accounts |->
                     IF a \in passed \ seen THEN LoggedOut(table, a)[a] ELSE table[a]]
  BY DEF Advance
<1>3. asks # {} => first \in Accounts
  <2>1. asks \in SUBSET Nat
    OBVIOUS
  <2> QED
    BY <2>1, Smallest
<1>4. health' = IF asks = {} THEN NoHealth
                ELSE [asks |-> first, tok |-> table[first].token,
                      todo |-> todo \ (passed \union {first}), seen |-> seen]
  BY DEF Advance
<1>5. CASE asks = {}
  BY <1>1, <1>2, <1>4, <1>5 DEF NoHealth, HealthRecords
<1>6. CASE asks # {}
  <2>1. table[first].token \in 0..MaxToken
    BY <1>3, <1>6
  <2>2. todo \ (passed \union {first}) \in SUBSET Accounts
    OBVIOUS
  <2> HIDE DEF asks, passed, first
  <2>3. health' \in HealthRecords
    BY <1>3, <1>4, <1>6, <2>1, <2>2 DEF HealthRecords
  <2> QED
    BY <1>1, <1>2, <2>3
<1> QED
  BY <1>5, <1>6

LEMMA AuthTypeNext == AuthTypeOK /\ [Next]_vars => AuthTypeOK'
<1> SUFFICES ASSUME AuthTypeOK, [Next]_vars PROVE AuthTypeOK'
  OBVIOUS
<1> USE DEF service, vk
<1>1. ASSUME NEW j \in Jobs, NEW a \in Accounts \union {NoAccount}, StartAuthorization(j, a)
      PROVE  AuthTypeOK'
  <2>1. [IdleJob EXCEPT !.kind = "authorize", !.step = "created", !.acct = a] \in JobRecords
    BY IdleJobType, Names DEF JobRecords
  <2>2. job' \in [Jobs -> JobRecords]
    BY <1>1, <2>1, JoinLoginType DEF StartAuthorization
  <2> QED
    BY <1>1, <2>2 DEF StartAuthorization, AuthTypeOK
<1>2. ASSUME NEW j \in Jobs, NEW a \in Accounts, StartCall(j, a)
      PROVE  AuthTypeOK'
  <2>1. [IdleJob EXCEPT !.kind = "refresh", !.step = "calling", !.acct = a,
                        !.tok = account[a].token] \in JobRecords
    BY DEF AuthTypeOK, IdleJob, JobRecords, Kinds, Steps
  <2> QED
    BY <1>2, <2>1 DEF StartCall, AuthTypeOK
<1>3. ASSUME NEW j \in Jobs, AuthorizationOfNoAccount(j)
      PROVE  AuthTypeOK'
  BY <1>3, IdleJobType DEF AuthorizationOfNoAccount, AuthTypeOK
<1>4. ASSUME NEW j \in Jobs, BeginAuthorization(j)
      PROVE  AuthTypeOK'
  <2>1. CASE Fail(j) /\ UNCHANGED active
    BY <1>4, <2>1, FailType DEF BeginAuthorization, AuthTypeOK
  <2>2. CASE Key(j) \notin active
    <3>1. \A u \in Users \union {NoUser} :
             [job[j] EXCEPT !.step = "browser", !.who = u] \in JobRecords
      BY DEF AuthTypeOK, JobRecords, Steps
    <3>2. (IF job[j].acct = NoAccount THEN NoUser ELSE account[job[j].acct].user)
             \in Users \union {NoUser}
      BY DEF AuthTypeOK, JobRecords
    <3>3. job' \in [Jobs -> JobRecords]
      BY <1>4, <2>2, <3>1, <3>2 DEF BeginAuthorization, AuthTypeOK
    <3> QED
      BY <1>4, <2>2, <3>3, KeyType DEF BeginAuthorization, AuthTypeOK
  <2> QED
    BY <1>4, <2>1, <2>2 DEF BeginAuthorization
<1>5. ASSUME NEW j \in Jobs, AcquireToken(j)
      PROVE  AuthTypeOK'
  <2>1. issued + 1 \in 1..MaxToken
    BY <1>5 DEF AcquireToken, AuthTypeOK
  <2>2. [job[j] EXCEPT !.step = "validating", !.tok = issued + 1] \in JobRecords
    <3>1. job[j] \in JobRecords /\ issued + 1 \in 0..MaxToken
      BY <2>1 DEF AuthTypeOK
    <3> QED
      BY <3>1, Names DEF JobRecords
  <2> QED
    BY <1>5, <2>1, <2>2 DEF AcquireToken, AuthTypeOK, Tokens
<1>6. ASSUME NEW j \in Jobs, AuthorizeFails(j)
      PROVE  AuthTypeOK'
  BY <1>6, FailType DEF AuthorizeFails, AuthTypeOK
<1>7. ASSUME NEW j \in Jobs, TokenRejected(j)
      PROVE  AuthTypeOK'
  BY <1>7 DEF TokenRejected, AuthTypeOK, JobRecords, Steps
<1>8. ASSUME NEW j \in Jobs, NEW u \in Users, StoreLogin(j, u)
      PROVE  AuthTypeOK'
  <2> DEFINE a == Target(j, u)
  <2>1. CASE Fail(j)
    BY <1>8, <2>1, FailType DEF StoreLogin, AuthTypeOK
  <2>2. CASE ~ (a \in Rows /\ account[a].user # u)
    <3>1. job[j].tok \in 0..MaxToken /\ a \in Accounts
      BY <1>8 DEF StoreLogin, AuthTypeOK, JobRecords
    <3> HIDE DEF a
    <3>2. account' = [account EXCEPT ![a] = [user |-> u, ok |-> TRUE, token |-> job[j].tok]]
      BY <1>8, <2>2 DEF StoreLogin, a
    <3> QED
      BY <1>8, <2>2, <3>1, <3>2, IdleJobType DEF StoreLogin, Unmark, AuthTypeOK, a
  <2> QED
    BY <1>8, <2>1, <2>2 DEF StoreLogin
<1>9. ASSUME NEW j \in Jobs, CallAnswered(j)
      PROVE  AuthTypeOK'
  <2>1. [job[j] EXCEPT !.step = "queued"] \in JobRecords
    BY Names DEF AuthTypeOK, JobRecords
  <2> QED
    BY <1>9, <2>1, IdleJobType DEF CallAnswered, AuthTypeOK
<1>10. ASSUME NEW j \in Jobs, EnterRefresh(j)
       PROVE  AuthTypeOK'
  <2>1. CASE Spared(j)
    BY <1>10, <2>1, IdleJobType DEF EnterRefresh, AuthTypeOK
  <2>2. CASE Fail(j) /\ UNCHANGED active
    BY <1>10, <2>2, FailType DEF EnterRefresh, AuthTypeOK
  <2>3. CASE ~Spared(j) /\ Key(j) \notin active
    <3> DEFINE a == job[j].acct
               begun == [job[j] EXCEPT !.step = "browser", !.who = account[a].user]
    <3>1. a \in Accounts
      BY <2>3 DEF Spared, Rows
    <3>2. begun \in JobRecords
      <4>1. job[j] \in JobRecords /\ account[a].user \in Users \union {NoUser}
        BY <3>1 DEF AuthTypeOK
      <4> QED
        BY <4>1, Names DEF JobRecords
    <3>3. JoinLogin(j, a, begun) /\ lock' = [lock EXCEPT ![a] = j]
          /\ authMark' = authMark \union {a} /\ active' = active \union {Key(j)}
          /\ UNCHANGED <<account, missing, deleting, health, openMark, issued, alive>>
      BY <1>10, <2>3, Zenon DEF EnterRefresh
    <3>4. job' \in [Jobs -> JobRecords]
      <4> HIDE DEF begun, a
      <4> QED
        BY <3>2, <3>3, JoinLoginType
    <3> QED
      BY <3>1, <3>3, <3>4, KeyType DEF AuthTypeOK
  <2> QED
    BY <1>10, <2>1, <2>2, <2>3 DEF EnterRefresh
<1>11. ASSUME NEW a \in Accounts,
              OpenMessages(a) \/ CloseMessages(a) \/ StartDelete(a)
       PROVE  AuthTypeOK'
  BY <1>11 DEF OpenMessages, CloseMessages, StartDelete, AuthTypeOK
<1>12. ASSUME NEW a \in Accounts, CommitDelete(a)
       PROVE  AuthTypeOK'
  BY <1>12 DEF CommitDelete, NoRow, AuthTypeOK
<1>13. CASE StartHealth
  <2> DEFINE ok == {a \in Rows : account[a].ok}
  <2>1. Rows \in SUBSET Accounts /\ ok \in SUBSET Accounts
    BY DEF Rows
  <2>2. account \in [Accounts -> [user: Users \union {NoUser}, ok: BOOLEAN, token: 0..MaxToken]]
    BY DEF AuthTypeOK
  <2>3. Advance(account, Rows, ok)
    BY <1>13 DEF StartHealth
  <2>4. UNCHANGED <<service, job, deleting, missing, vk>>
    BY <2>3 DEF Advance
  <2> HIDE DEF ok
  <2>5. /\ account' \in [Accounts -> [user: Users \union {NoUser}, ok: BOOLEAN,
                                      token: 0..MaxToken]]
        /\ health' \in HealthRecords
    BY <2>1, <2>2, <2>3, AdvanceType
  <2> QED
    BY <2>4, <2>5 DEF AuthTypeOK
<1>14. CASE HealthAnswer
  <2>1. PICK verdict \in Verdicts :
           Advance(IF verdict = "requires_login" THEN LoggedOut(account, health.asks)
                   ELSE account, health.todo, health.seen)
    BY <1>14 DEF HealthAnswer
  <2>2. health.todo \in SUBSET Accounts /\ health.seen \in SUBSET Accounts
    BY DEF AuthTypeOK, HealthRecords
  <2>3. account \in [Accounts -> [user: Users \union {NoUser}, ok: BOOLEAN, token: 0..MaxToken]]
    BY DEF AuthTypeOK
  <2> DEFINE table == IF verdict = "requires_login" THEN LoggedOut(account, health.asks)
                      ELSE account
  <2>4. table \in [Accounts -> [user: Users \union {NoUser}, ok: BOOLEAN, token: 0..MaxToken]]
    BY <2>3, LoggedOutType
  <2>5. UNCHANGED <<service, job, deleting, missing, vk>>
    BY <2>1 DEF Advance
  <2> HIDE DEF table
  <2>6. /\ account' \in [Accounts -> [user: Users \union {NoUser}, ok: BOOLEAN,
                                      token: 0..MaxToken]]
        /\ health' \in HealthRecords
    BY <2>1, <2>2, <2>4, AdvanceType DEF table
  <2> QED
    BY <2>5, <2>6 DEF AuthTypeOK
<1>15. CASE Revoke
  BY <1>15 DEF Revoke, AuthTypeOK
<1>16. CASE Restart
  BY <1>16, IdleJobType DEF Restart, AuthTypeOK, NoHealth, HealthRecords
<1>17. CASE UNCHANGED vars
  BY <1>17 DEF vars, AuthTypeOK
<1> QED
  BY <1>1, <1>2, <1>3, <1>4, <1>5, <1>6, <1>7, <1>8, <1>9, <1>10, <1>11, <1>12, <1>13, <1>14,
     <1>15, <1>16, <1>17 DEF Next, Requests, JobStep

\* The tables, the service's sets and every job stay well typed.
THEOREM AuthTypeCorrect == Spec => []AuthTypeOK
BY AuthTypeInit, AuthTypeNext, PTL DEF Spec

-----------------------------------------------------------------------------
(***************************************************************************)
(* What the steps do to the jobs.  The invariants below look at who is in  *)
(* a login of which account; a job enters one by StartAuthorization or     *)
(* EnterRefresh, both through JoinLogin, and leaves it only to rest.       *)
(***************************************************************************)
LEMMA JoinLoginEffect ==
    ASSUME AuthTypeOK, NEW j \in Jobs, NEW a, NEW begun \in JobRecords, JoinLogin(j, a, begun)
    PROVE  /\ \A i \in Jobs \ {j} :
                 /\ job'[i].kind = job[i].kind /\ job'[i].step = job[i].step
                 /\ job'[i].acct = job[i].acct /\ job'[i].tok = job[i].tok
                 /\ job'[i].late = job[i].late
                 /\ job[i].beside => job'[i].beside
                 /\ a # NoAccount /\ LoginOf(i, a) => job'[i].beside /\ job'[j].beside
           /\ job'[j].kind = begun.kind /\ job'[j].step = begun.step
           /\ job'[j].acct = begun.acct /\ job'[j].tok = begun.tok
           /\ job'[j].late <=> a \in deleting
<1> DEFINE others == {k \in Jobs \ {j} : a # NoAccount /\ LoginOf(k, a)}
<1>1. \A i \in Jobs :
         job'[i] = IF i = j THEN [begun EXCEPT !.beside = (others # {}), !.late = (a \in deleting)]
                   ELSE IF i \in others THEN [job[i] EXCEPT !.beside = TRUE] ELSE job[i]
  BY Zenon DEF JoinLogin
<1>2. \A i \in Jobs : job[i] \in JobRecords
  BY DEF AuthTypeOK
<1>3. ASSUME NEW i \in Jobs \ {j}
      PROVE  /\ job'[i].kind = job[i].kind /\ job'[i].step = job[i].step
             /\ job'[i].acct = job[i].acct /\ job'[i].tok = job[i].tok
             /\ job'[i].late = job[i].late
             /\ job[i].beside = TRUE => job'[i].beside = TRUE
             /\ i \in others => job'[i].beside = TRUE
  <2> HIDE DEF others
  <2>1. CASE i \in others
    <3>1. job'[i] = [job[i] EXCEPT !.beside = TRUE]
      BY <1>1, <2>1
    <3> QED
      BY <1>2, <2>1, <3>1 DEF JobRecords
  <2>2. CASE i \notin others
    <3>1. job'[i] = job[i]
      BY <1>1, <2>2
    <3> QED
      BY <2>2, <3>1
  <2> QED
    BY <2>1, <2>2
<1>5. \A i \in Jobs : job'[i] \in JobRecords
  BY JoinLoginType
<1>6. \A i \in Jobs : job[i].beside \in BOOLEAN /\ job'[i].beside \in BOOLEAN
  BY <1>2, <1>5 DEF JobRecords
<1>4. /\ job'[j].kind = begun.kind /\ job'[j].step = begun.step
      /\ job'[j].acct = begun.acct /\ job'[j].tok = begun.tok
      /\ job'[j].late <=> a \in deleting
      /\ job'[j].beside <=> others # {}
  <2> HIDE DEF others
  <2>1. job'[j] = [begun EXCEPT !.beside = (others # {}), !.late = (a \in deleting)]
    BY <1>1
  <2> DEFINE b == (others # {})
             l == (a \in deleting)
  <2>2. job'[j] = [begun EXCEPT !.beside = b, !.late = l]
    BY <2>1, Zenon
  <2> HIDE DEF b, l
  <2>3. /\ job'[j].kind = begun.kind /\ job'[j].step = begun.step
        /\ job'[j].acct = begun.acct /\ job'[j].tok = begun.tok
        /\ job'[j].late = l /\ job'[j].beside = b
    BY <2>2 DEF JobRecords
  <2> QED
    BY <2>3, Zenon DEF b, l
<1> QED
  BY <1>3, <1>4, <1>6

(***************************************************************************)
(* authorize holds the key of everyone who works on a profile, and no two  *)
(* work on one.  This is what makes the refinement to ProfileLock hold.    *)
(***************************************************************************)
KeysHeld ==
    /\ \A j \in Jobs : Authorizing(j) => Key(j) \in active
    /\ \A i, j \in Jobs : Authorizing(i) /\ Authorizing(j) /\ Key(i) = Key(j) => i = j

LEMMA KeysNext == AuthTypeOK /\ KeysHeld /\ [Next]_vars => KeysHeld'
<1> SUFFICES ASSUME AuthTypeOK, KeysHeld, [Next]_vars PROVE KeysHeld'
  OBVIOUS
<1> USE DEF service, vk, KeysHeld, Authorizing, Key
<1>0. job \in [Jobs -> JobRecords] /\ IdleJob.step = "idle"
  BY DEF AuthTypeOK, IdleJob
<1>1. ASSUME NEW j \in Jobs, NEW a \in Accounts \union {NoAccount}, StartAuthorization(j, a)
      PROVE  KeysHeld'
  <2> DEFINE begun == [IdleJob EXCEPT !.kind = "authorize", !.step = "created", !.acct = a]
  <2>1. begun \in JobRecords /\ begun.step = "created"
    BY IdleJobType, Names DEF JobRecords
  <2>2. JoinLogin(j, a, begun) /\ active' = active
    BY <1>1 DEF StartAuthorization
  <2> HIDE DEF begun
  <2>3. job'[j].step = "created"
        /\ \A i \in Jobs \ {j} : job'[i].step = job[i].step /\ job'[i].acct = job[i].acct
    BY <2>1, <2>2, JoinLoginEffect
  <2> QED
    BY <2>2, <2>3
<1>2. ASSUME NEW j \in Jobs, EnterRefresh(j)
      PROVE  KeysHeld'
  <2>1. CASE Spared(j)
    BY <1>0, <1>2, <2>1 DEF EnterRefresh
  <2>2. CASE Fail(j) /\ UNCHANGED active
    BY <1>0, <2>2 DEF Fail
  <2>3. CASE ~Spared(j) /\ Key(j) \notin active
    <3> DEFINE a == job[j].acct
               begun == [job[j] EXCEPT !.step = "browser", !.who = account[a].user]
    <3>1. begun \in JobRecords /\ begun.step = "browser" /\ begun.acct = job[j].acct
      <4>1. job[j] \in JobRecords /\ account[a].user \in Users \union {NoUser}
        BY <2>3 DEF AuthTypeOK, Spared, Rows
      <4> QED
        BY <4>1, Names DEF JobRecords
    <3>2. JoinLogin(j, a, begun) /\ active' = active \union {Key(j)}
      BY <1>2, <2>3, Zenon DEF EnterRefresh
    <3> HIDE DEF begun
    <3>3. job'[j].step = "browser" /\ job'[j].acct = job[j].acct
          /\ \A i \in Jobs \ {j} : job'[i].step = job[i].step /\ job'[i].acct = job[i].acct
      BY <3>1, <3>2, JoinLoginEffect
    <3> QED
      BY <2>3, <3>2, <3>3
  <2> QED
    BY <1>2, <2>1, <2>2, <2>3 DEF EnterRefresh
<1>3. ASSUME NEW j \in Jobs, BeginAuthorization(j)
      PROVE  KeysHeld'
  <2>1. CASE Fail(j) /\ UNCHANGED active
    BY <1>0, <2>1 DEF Fail
  <2>2. CASE Key(j) \notin active
    BY <1>0, <1>3, <2>2 DEF BeginAuthorization, JobRecords
  <2> QED
    BY <1>3, <2>1, <2>2 DEF BeginAuthorization
<1>4. ASSUME NEW j \in Jobs, AuthorizeFails(j)
      PROVE  KeysHeld'
  BY <1>0, <1>4 DEF AuthorizeFails, Fail
<1>5. ASSUME NEW j \in Jobs, NEW u \in Users, StoreLogin(j, u)
      PROVE  KeysHeld'
  <2>1. job' = [job EXCEPT ![j] = IdleJob] /\ active' = active \ {Key(j)}
        /\ job[j].step = "validating"
    BY <1>5 DEF StoreLogin, Fail
  <2> QED
    BY <1>0, <2>1
<1>6. ASSUME NEW j \in Jobs, AuthorizationOfNoAccount(j) \/ AcquireToken(j) \/ TokenRejected(j)
      PROVE  KeysHeld'
  BY <1>0, <1>6 DEF AuthorizationOfNoAccount, AcquireToken, TokenRejected, JobRecords
<1>7. ASSUME NEW j \in Jobs, CallAnswered(j) \/ \E a \in Accounts : StartCall(j, a)
      PROVE  KeysHeld'
  <2>1. job'[j].step \in {"idle", "calling", "queued"} /\ active' = active
        /\ \A i \in Jobs \ {j} : job'[i] = job[i]
    <3>1. CASE CallAnswered(j)
      BY <1>0, <3>1 DEF CallAnswered, JobRecords
    <3>2. ASSUME NEW a \in Accounts, StartCall(j, a)
          PROVE  job'[j].step = "calling" /\ active' = active
                 /\ \A i \in Jobs \ {j} : job'[i] = job[i]
      <4>1. [IdleJob EXCEPT !.kind = "refresh", !.step = "calling", !.acct = a,
                            !.tok = account[a].token].step = "calling"
        BY DEF IdleJob
      <4> QED
        BY <1>0, <3>2, <4>1 DEF StartCall
    <3> QED
      BY <1>7, <3>1, <3>2
  <2> QED
    BY <2>1
<1>8. CASE Restart
  BY <1>0, <1>8 DEF Restart
<1>9. CASE UNCHANGED <<job, active>>
  BY <1>9
<1>10. ASSUME NEW a \in Accounts,
              OpenMessages(a) \/ CloseMessages(a) \/ StartDelete(a) \/ CommitDelete(a)
       PROVE  UNCHANGED <<job, active>>
  BY <1>10 DEF OpenMessages, CloseMessages, StartDelete, CommitDelete
<1>11. StartHealth \/ HealthAnswer \/ Revoke \/ UNCHANGED vars => UNCHANGED <<job, active>>
  BY DEF StartHealth, HealthAnswer, Advance, Revoke, vars
<1> QED
  BY <1>1, <1>2, <1>3, <1>4, <1>5, <1>6, <1>7, <1>8, <1>9, <1>10, <1>11
     DEF Next, Requests, JobStep

LEMMA KeysInit == Init => KeysHeld
BY DEF Init, KeysHeld, IdleJob, Authorizing

(***************************************************************************)
(* ProfileHolder means what it should: CHOOSE has no choice.               *)
(***************************************************************************)
Works(j, p) == Authorizing(j) /\ Key(j) = p

HolderRight ==
    /\ ProfileHolder = [p \in Keys |-> ProfileHolder[p]]
    /\ \A p \in Keys : \A j \in Jobs : Works(j, p) => ProfileHolder[p] = j
    /\ \A p \in Keys : (\A j \in Jobs : ~Works(j, p)) => ProfileHolder[p] = NoJob

LEMMA HolderKnown == KeysHeld => HolderRight
<1> SUFFICES ASSUME KeysHeld PROVE HolderRight
  OBVIOUS
<1>1. ProfileHolder = [p \in Keys |-> IF \E j \in Jobs : Works(j, p)
                                       THEN CHOOSE j \in Jobs : Works(j, p) ELSE NoJob]
  BY DEF ProfileHolder, Works
<1>2. \A p \in Keys : \A i, j \in Jobs : Works(i, p) /\ Works(j, p) => i = j
  BY DEF Works, KeysHeld
<1> QED
  BY <1>1, <1>2 DEF HolderRight

\* The free profiles are free, and the initial ones are.
LEMMA HolderInit == Init => Profile!LockInit
BY DEF Init, Profile!LockInit, ProfileHolder, Authorizing, IdleJob

(***************************************************************************)
(* The three ways in which the jobs' work can change, and what each is for *)
(* the lock.                                                               *)
(***************************************************************************)
SameWork == \A j \in Jobs : \A p \in Keys : Works(j, p)' <=> Works(j, p)

BeginsWork(j, k) ==
    /\ \A i \in Jobs : ~Works(i, k)
    /\ \A i \in Jobs, p \in Keys : Works(i, p)' <=> Works(i, p) \/ (i = j /\ p = k)

EndsWork(j, k) ==
    /\ Works(j, k)
    /\ \A i \in Jobs, p \in Keys : Works(i, p)' <=> Works(i, p) /\ i # j

LEMMA SameWorkStutters == HolderRight /\ HolderRight' /\ SameWork => UNCHANGED ProfileHolder
<1> SUFFICES ASSUME HolderRight, HolderRight', SameWork
             PROVE  ProfileHolder' = ProfileHolder
  OBVIOUS
<1>1. Keys' = Keys
  BY DEF Keys, KeyFor
<1>2. ASSUME NEW p \in Keys
      PROVE  ProfileHolder'[p] = ProfileHolder[p]
  <2>1. CASE \E j \in Jobs : Works(j, p)
    BY <1>1, <2>1 DEF HolderRight, SameWork
  <2>2. CASE \A j \in Jobs : ~Works(j, p)
    BY <1>1, <2>2 DEF HolderRight, SameWork
  <2> QED
    BY <2>1, <2>2
<1> QED
  BY <1>1, <1>2 DEF HolderRight

LEMMA BeginAcquires ==
    ASSUME HolderRight, HolderRight', NEW j \in Jobs, NEW k \in Keys, BeginsWork(j, k)
    PROVE  Profile!Acquire(j, k)
<1>1. Keys' = Keys
  BY DEF Keys, KeyFor
<1>2. ProfileHolder[k] = NoJob
  BY DEF HolderRight, BeginsWork
<1>3. ASSUME NEW p \in Keys
      PROVE  ProfileHolder'[p] = IF p = k THEN j ELSE ProfileHolder[p]
  <2>1. CASE p = k
    BY <1>1, <2>1 DEF HolderRight, BeginsWork
  <2>2. CASE p # k /\ \E i \in Jobs : Works(i, p)
    BY <1>1, <2>2 DEF HolderRight, BeginsWork
  <2>3. CASE p # k /\ \A i \in Jobs : ~Works(i, p)
    BY <1>1, <2>3 DEF HolderRight, BeginsWork
  <2> QED
    BY <2>1, <2>2, <2>3
<1>4. ProfileHolder' = [ProfileHolder EXCEPT ![k] = j]
  BY <1>1, <1>3 DEF HolderRight
<1> QED
  BY <1>2, <1>4 DEF Profile!Acquire

LEMMA EndReleases ==
    ASSUME KeysHeld, HolderRight, HolderRight', NEW j \in Jobs, NEW k \in Keys, EndsWork(j, k)
    PROVE  Profile!Release(k)
<1>1. Keys' = Keys
  BY DEF Keys, KeyFor
<1>2. ProfileHolder[k] = j /\ j # NoJob
  BY DEF HolderRight, EndsWork
<1>3. ASSUME NEW p \in Keys
      PROVE  ProfileHolder'[p] = IF p = k THEN NoJob ELSE ProfileHolder[p]
  <2>1. CASE p = k
    <3>1. \A i \in Jobs : ~Works(i, k)'
      BY DEF EndsWork, KeysHeld, Works
    <3> QED
      BY <1>1, <2>1, <3>1 DEF HolderRight
  <2>2. CASE p # k /\ \E i \in Jobs : Works(i, p)
    <3>1. ~Works(j, p)
      BY <2>2 DEF EndsWork, Works
    <3> QED
      BY <1>1, <2>2, <3>1 DEF HolderRight, EndsWork
  <2>3. CASE p # k /\ \A i \in Jobs : ~Works(i, p)
    BY <1>1, <2>3 DEF HolderRight, EndsWork
  <2> QED
    BY <2>1, <2>2, <2>3
<1>4. ProfileHolder' = [ProfileHolder EXCEPT ![k] = NoJob]
  BY <1>1, <1>3 DEF HolderRight
<1> QED
  BY <1>2, <1>4 DEF Profile!Release

\* A job that leaves its login ends its work; one that is not in one has none.
LEMMA LeavingEndsWork ==
    ASSUME AuthTypeOK, NEW j \in Jobs, Authorizing(j), job' = [job EXCEPT ![j] = IdleJob]
    PROVE  EndsWork(j, Key(j))
BY DEF AuthTypeOK, EndsWork, Works, Authorizing, Key, IdleJob

LEMMA RestingKeepsWork ==
    ASSUME AuthTypeOK, NEW j \in Jobs, ~Authorizing(j), job' = [job EXCEPT ![j] = IdleJob]
    PROVE  SameWork
BY DEF AuthTypeOK, SameWork, Works, Authorizing, Key, IdleJob

LEMMA LockStep ==
    ASSUME AuthTypeOK, KeysHeld, HolderRight, HolderRight', [Next]_vars
    PROVE  [Profile!LockNext]_ProfileHolder
<1> USE DEF service, vk
<1>0. job \in [Jobs -> JobRecords] /\ \A j \in Jobs : Key(j) \in Keys
  BY KeyType DEF AuthTypeOK
<1>a. SameWork => UNCHANGED ProfileHolder
  BY SameWorkStutters
<1>b. ASSUME NEW j \in Jobs, BeginsWork(j, Key(j))
      PROVE  Profile!LockNext
  BY <1>0, <1>b, BeginAcquires DEF Profile!LockNext
<1>c. ASSUME NEW j \in Jobs, EndsWork(j, Key(j))
      PROVE  Profile!LockNext
  BY <1>0, <1>c, EndReleases DEF Profile!LockNext
<1>1. ASSUME NEW j \in Jobs, NEW a \in Accounts \union {NoAccount}, StartAuthorization(j, a)
      PROVE  SameWork
  <2> DEFINE begun == [IdleJob EXCEPT !.kind = "authorize", !.step = "created", !.acct = a]
  <2>1. begun \in JobRecords /\ begun.step = "created"
    BY IdleJobType, Names DEF JobRecords
  <2>2. JoinLogin(j, a, begun) /\ job[j].step = "idle"
    BY <1>1 DEF StartAuthorization, Idle
  <2> HIDE DEF begun
  <2>3. job'[j].step = "created"
        /\ \A i \in Jobs \ {j} : job'[i].step = job[i].step /\ job'[i].acct = job[i].acct
    BY <2>1, <2>2, JoinLoginEffect
  <2> QED
    BY <2>2, <2>3 DEF SameWork, Works, Authorizing, Key
<1>2. ASSUME NEW j \in Jobs, EnterRefresh(j)
      PROVE  SameWork \/ BeginsWork(j, Key(j))
  <2>1. job[j].step = "queued"
    BY <1>2 DEF EnterRefresh
  <2>2. CASE Spared(j) \/ Fail(j)
    <3>1. job' = [job EXCEPT ![j] = IdleJob]
      BY <1>2, <2>2 DEF EnterRefresh, Fail
    <3> QED
      BY <2>1, <3>1, RestingKeepsWork DEF Authorizing
  <2>3. CASE ~Spared(j) /\ Key(j) \notin active
    <3> DEFINE a == job[j].acct
               begun == [job[j] EXCEPT !.step = "browser", !.who = account[a].user]
    <3>1. begun \in JobRecords /\ begun.step = "browser" /\ begun.acct = job[j].acct
      <4>1. job[j] \in JobRecords /\ account[a].user \in Users \union {NoUser}
        BY <2>3 DEF AuthTypeOK, Spared, Rows
      <4> QED
        BY <4>1, Names DEF JobRecords
    <3>2. JoinLogin(j, a, begun)
      BY <1>2, <2>3, Zenon DEF EnterRefresh
    <3> HIDE DEF begun
    <3>3. job'[j].step = "browser" /\ job'[j].acct = job[j].acct
          /\ \A i \in Jobs \ {j} : job'[i].step = job[i].step /\ job'[i].acct = job[i].acct
      BY <3>1, <3>2, JoinLoginEffect
    <3>4. \A i \in Jobs : ~Works(i, Key(j))
      BY <2>3 DEF KeysHeld, Works
    <3> QED
      BY <2>1, <3>3, <3>4 DEF BeginsWork, Works, Authorizing, Key
  <2> QED
    BY <1>2, <2>2, <2>3 DEF EnterRefresh
<1>3. ASSUME NEW j \in Jobs, BeginAuthorization(j)
      PROVE  SameWork \/ BeginsWork(j, Key(j))
  <2>1. job[j].step = "created"
    BY <1>3 DEF BeginAuthorization
  <2>2. CASE Fail(j)
    BY <2>1, <2>2, RestingKeepsWork DEF Fail, Authorizing
  <2>3. CASE Key(j) \notin active
    <3>1. \A i \in Jobs : ~Works(i, Key(j))
      BY <2>3 DEF KeysHeld, Works
    <3>2. job'[j].step = "browser" /\ job'[j].acct = job[j].acct
          /\ \A i \in Jobs \ {j} : job'[i] = job[i]
      BY <1>0, <1>3, <2>3 DEF BeginAuthorization, JobRecords
    <3> QED
      BY <2>1, <3>1, <3>2 DEF BeginsWork, Works, Authorizing, Key
  <2> QED
    BY <1>3, <2>2, <2>3 DEF BeginAuthorization
<1>4. ASSUME NEW j \in Jobs, AuthorizeFails(j) \/ \E u \in Users : StoreLogin(j, u)
      PROVE  EndsWork(j, Key(j))
  <2>1. Authorizing(j) /\ job' = [job EXCEPT ![j] = IdleJob]
    BY <1>4 DEF AuthorizeFails, StoreLogin, Fail, Authorizing
  <2> QED
    BY <2>1, LeavingEndsWork
<1>5. ASSUME NEW j \in Jobs, AuthorizationOfNoAccount(j)
      PROVE  SameWork
  BY <1>5, RestingKeepsWork DEF AuthorizationOfNoAccount, Authorizing
<1>6. ASSUME NEW j \in Jobs, AcquireToken(j) \/ TokenRejected(j)
      PROVE  SameWork
  <2>1. Authorizing(j) /\ job'[j].step \in {"browser", "validating"}
        /\ job'[j].acct = job[j].acct /\ \A i \in Jobs \ {j} : job'[i] = job[i]
    BY <1>0, <1>6 DEF AcquireToken, TokenRejected, JobRecords, Authorizing
  <2>2. \A i \in Jobs : /\ job'[i].step \in {"browser", "validating"}
                              <=> job[i].step \in {"browser", "validating"}
                        /\ job'[i].acct = job[i].acct
    BY <2>1 DEF Authorizing
  <2> QED
    BY <2>2 DEF SameWork, Works, Authorizing, Key
<1>7. ASSUME NEW j \in Jobs, CallAnswered(j) \/ \E a \in Accounts : StartCall(j, a)
      PROVE  SameWork
  <2>1. job[j].step \in {"idle", "calling"} /\ job'[j].step \in {"idle", "calling", "queued"}
        /\ \A i \in Jobs \ {j} : job'[i] = job[i]
    <3>1. CASE CallAnswered(j)
      <4>1. IdleJob.step = "idle"
        BY DEF IdleJob
      <4> QED
        BY <1>0, <3>1, <4>1 DEF CallAnswered, JobRecords
    <3>2. ASSUME NEW a \in Accounts, StartCall(j, a)
          PROVE  job[j].step = "idle" /\ job'[j].step = "calling"
                 /\ \A i \in Jobs \ {j} : job'[i] = job[i]
      <4>1. [IdleJob EXCEPT !.kind = "refresh", !.step = "calling", !.acct = a,
                            !.tok = account[a].token].step = "calling"
        BY DEF IdleJob
      <4> QED
        BY <1>0, <3>2, <4>1 DEF StartCall, Idle
    <3> QED
      BY <1>7, <3>1, <3>2
  <2> QED
    BY <2>1 DEF SameWork, Works, Authorizing, Key
<1>8. CASE Restart
  <2>1. \A j \in Jobs, p \in Keys : ~Works(j, p)'
    BY <1>8 DEF Restart, IdleJob, Works, Authorizing
  <2>2. Keys' = Keys
    BY DEF Keys, KeyFor
  <2>3. Profile!Forget
    BY <2>1, <2>2 DEF Profile!Forget, HolderRight
  <2> QED
    BY <2>3 DEF Profile!LockNext
<1>9. UNCHANGED job => SameWork
  BY DEF SameWork, Works, Authorizing, Key
<1>10. ASSUME NEW a \in Accounts,
              OpenMessages(a) \/ CloseMessages(a) \/ StartDelete(a) \/ CommitDelete(a)
       PROVE  UNCHANGED job
  BY <1>10 DEF OpenMessages, CloseMessages, StartDelete, CommitDelete
<1>11. StartHealth \/ HealthAnswer \/ Revoke \/ UNCHANGED vars => UNCHANGED job
  BY DEF StartHealth, HealthAnswer, Advance, Revoke, vars
<1> QED
  BY <1>a, <1>b, <1>c, <1>1, <1>2, <1>3, <1>4, <1>5, <1>6, <1>7, <1>8, <1>9, <1>10, <1>11
     DEF Next, Requests, JobStep

(***************************************************************************)
(* Authorizations and refreshes implement the lock authorize promises.     *)
(***************************************************************************)
THEOREM AuthImplementsLock == Spec => SingleFlight
<1>1. AuthTypeOK /\ KeysHeld /\ [Next]_vars => AuthTypeOK' /\ KeysHeld'
  BY AuthTypeNext, KeysNext
<1>2. KeysHeld' => HolderRight'
  BY HolderKnown, PTL
<1>3. AuthTypeOK /\ KeysHeld /\ KeysHeld' /\ [Next]_vars => [Profile!LockNext]_ProfileHolder
  BY <1>2, HolderKnown, LockStep
<1> QED
  BY <1>1, <1>3, AuthTypeInit, KeysInit, HolderInit, PTL
     DEF Spec, SingleFlight, Profile!LockSpec

-----------------------------------------------------------------------------
(***************************************************************************)
(* The marks.  Every step does one of seven things to logins, marks,       *)
(* windows, deletions and rows; the invariants follow from these alone.    *)
(***************************************************************************)
InLogin(j) == LoginOf(j, job[j].acct)
HasKind(j) == job[j].kind \in {"authorize", "refresh"}
KindInv == \A j \in Jobs : ~Idle(j) => HasKind(j)

Others(j) == \A i \in Jobs \ {j} : job'[i] = job[i]
Windows == UNCHANGED <<openMark, deleting>>

Enters(j, a) ==
    /\ a \in Accounts \union {NoAccount} /\ a \notin openMark
    /\ ~InLogin(j) /\ InLogin(j)' /\ job'[j].acct = a
    /\ job'[j].late <=> a \in deleting
    /\ job'[j].step # "created" => a \in Rows
    /\ \A i \in Jobs \ {j} :
          /\ job'[i].kind = job[i].kind /\ job'[i].step = job[i].step
          /\ job'[i].acct = job[i].acct /\ job'[i].late = job[i].late
          /\ job[i].beside => job'[i].beside
          /\ a # NoAccount /\ LoginOf(i, a) => job'[i].beside /\ job'[j].beside
    /\ authMark' = authMark \union ({a} \ {NoAccount})
    /\ Rows' = Rows /\ missing' = missing /\ Windows

Stays(j) ==
    /\ InLogin(j) /\ InLogin(j)' /\ Others(j)
    /\ job'[j].acct = job[j].acct /\ job'[j].beside = job[j].beside
    /\ job'[j].late = job[j].late
    /\ job[j].step = "created" => job[j].acct \in Rows \union {NoAccount}
    /\ Rows' = Rows /\ authMark' = authMark /\ missing' = missing /\ Windows

Leaves(j) ==
    /\ InLogin(j) /\ job'[j].step = "idle" /\ Others(j)
    /\ \/ authMark' = authMark \ {job[j].acct} /\ missing' = missing \ {job[j].acct}
       \/ /\ authMark' = authMark
          /\ missing' = missing \union ({job[j].acct} \intersect authMark)
    /\ Rows \subseteq Rows' /\ Windows

Elsewhere(j) ==
    /\ ~InLogin(j) /\ ~InLogin(j)' /\ (~Idle(j) => HasKind(j))' /\ Others(j)
    /\ authMark' = authMark
    /\ missing \intersect authMark \subseteq missing'
    /\ Rows' = Rows /\ Windows

NoJobMoves ==
    /\ job' = job /\ authMark' = authMark /\ missing' = missing
    /\ \/ /\ openMark' \subseteq openMark \union (Accounts \ authMark)
          /\ deleting' \subseteq deleting \union (Accounts \ authMark)
          /\ Rows' = Rows
       \/ \E a \in deleting : Rows' = Rows \ {a} /\ openMark' = openMark /\ deleting' = deleting \ {a}

StartsAnew ==
    /\ job' = [j \in Jobs |-> IdleJob]
    /\ authMark' = {} /\ openMark' = {} /\ deleting' = {}

Effect ==
    \/ \E j \in Jobs : \/ \E a \in Accounts \union {NoAccount} : Enters(j, a)
                        \/ Stays(j) \/ Leaves(j) \/ Elsewhere(j)
    \/ NoJobMoves
    \/ StartsAnew

\* Fail writes auth_status only, and Advance too: the rows stay.
LEMMA RowsKept ==
    /\ \A a : AuthTypeOK /\ account' = LoggedOut(account, a) => Rows' = Rows
    /\ UNCHANGED account => Rows' = Rows
BY DEF LoggedOut, Rows, AuthTypeOK

LEMMA FailRows == ASSUME AuthTypeOK, NEW j \in Jobs, Fail(j) PROVE Rows' = Rows
BY RowsKept DEF Fail

LEMMA AdvanceRows ==
    ASSUME AuthTypeOK, NEW table, table = account \/ \E a : table = LoggedOut(account, a),
           NEW todo, NEW seen, Advance(table, todo, seen)
    PROVE  Rows' = Rows
<1>1. ASSUME NEW a \in Accounts
      PROVE  account'[a].user = table[a].user
  <2>1. account'[a] = IF a \in {b \in todo : \A c \in {d \in todo \intersect seen :
                                 table[d].user # NoUser} : b < c} \ seen
                      THEN LoggedOut(table, a)[a] ELSE table[a]
    BY DEF Advance
  <2>2. LoggedOut(table, a)[a].user = table[a].user
    BY DEF LoggedOut, AuthTypeOK
  <2> QED
    BY <2>1, <2>2
<1>2. \A a \in Accounts : table[a].user = account[a].user
  BY DEF LoggedOut, AuthTypeOK
<1> QED
  BY <1>1, <1>2 DEF Rows

LEMMA EffectOfStep == AuthTypeOK /\ KindInv /\ [Next]_vars => Effect
<1> SUFFICES ASSUME AuthTypeOK, KindInv, [Next]_vars PROVE Effect
  OBVIOUS
<1> USE DEF service, vk
<1>0. job \in [Jobs -> JobRecords] /\ IdleJob \in JobRecords
      /\ IdleJob.step = "idle" /\ IdleJob.acct = NoAccount
  BY IdleJobType DEF AuthTypeOK, IdleJob
<1>1. ASSUME NEW j \in Jobs, NEW a \in Accounts \union {NoAccount}, StartAuthorization(j, a)
      PROVE  Enters(j, a)
  <2> DEFINE begun == [IdleJob EXCEPT !.kind = "authorize", !.step = "created", !.acct = a]
  <2>1. begun \in JobRecords /\ begun.step = "created" /\ begun.kind = "authorize"
        /\ begun.acct = a
    BY IdleJobType, Names DEF JobRecords
  <2>2. JoinLogin(j, a, begun) /\ job[j].step = "idle"
    BY <1>1 DEF StartAuthorization, Idle
  <2> HIDE DEF begun
  <2>3. ~InLogin(j)
    BY <2>2 DEF InLogin, LoginOf
  <2> QED
    BY <1>1, <2>1, <2>2, <2>3, JoinLoginEffect, RowsKept
       DEF StartAuthorization, Enters, InLogin, LoginOf, Windows
<1>2. ASSUME NEW j \in Jobs, NEW a \in Accounts, StartCall(j, a)
      PROVE  Elsewhere(j)
  <2> DEFINE call == [IdleJob EXCEPT !.kind = "refresh", !.step = "calling",
                                     !.acct = a, !.tok = account[a].token]
  <2>1. call.step = "calling" /\ call.kind = "refresh"
    BY DEF IdleJob
  <2> HIDE DEF call
  <2>2. job'[j] = call /\ Others(j) /\ job[j].step = "idle"
    BY <1>0, <1>2 DEF StartCall, call, Others, Idle
  <2>3. Rows' = Rows
    BY <1>2, RowsKept DEF StartCall
  <2> QED
    BY <1>2, <2>1, <2>2, <2>3
       DEF StartCall, Elsewhere, InLogin, LoginOf, Windows, Idle, HasKind
<1>3. ASSUME NEW j \in Jobs, AuthorizationOfNoAccount(j)
      PROVE  Leaves(j)
  <2>1. InLogin(j)
    BY <1>3 DEF AuthorizationOfNoAccount, KindInv, Idle, HasKind, InLogin, LoginOf
  <2>2. job'[j].step = "idle" /\ Others(j) /\ Rows' = Rows
    BY <1>0, <1>3, RowsKept DEF AuthorizationOfNoAccount, Others
  <2> QED
    BY <1>3, <2>1, <2>2 DEF AuthorizationOfNoAccount, Leaves, Windows
<1>4. ASSUME NEW j \in Jobs, Fail(j), InLogin(j), Windows
      PROVE  Leaves(j)
  <2>1. job'[j].step = "idle" /\ Others(j)
    BY <1>0, <1>4 DEF Fail, Others
  <2> QED
    BY <1>4, <2>1, FailRows DEF Leaves, Fail, Unmark
<1>5. ASSUME NEW j \in Jobs, BeginAuthorization(j)
      PROVE  Stays(j) \/ Leaves(j)
  <2>1. InLogin(j)
    BY <1>5 DEF BeginAuthorization, KindInv, Idle, HasKind, InLogin, LoginOf
  <2>2. CASE Fail(j)
    BY <1>4, <1>5, <2>1, <2>2 DEF BeginAuthorization, Windows
  <2>3. CASE Key(j) \notin active
    <3>1. /\ job'[j].kind = job[j].kind /\ job'[j].step = "browser"
          /\ job'[j].acct = job[j].acct /\ job'[j].beside = job[j].beside
          /\ job'[j].late = job[j].late /\ Others(j)
      BY <1>0, <1>5, <2>3 DEF BeginAuthorization, JobRecords, Others
    <3>2. InLogin(j)'
      BY <2>1, <3>1 DEF InLogin, LoginOf
    <3>3. Rows' = Rows
      BY <1>5, <2>3, RowsKept DEF BeginAuthorization
    <3> QED
      BY <1>5, <2>1, <2>3, <3>1, <3>2, <3>3 DEF BeginAuthorization, Stays, Windows
  <2> QED
    BY <1>5, <2>2, <2>3 DEF BeginAuthorization
<1>6. ASSUME NEW j \in Jobs, AcquireToken(j) \/ TokenRejected(j)
      PROVE  Stays(j)
  <2>1. InLogin(j) /\ job[j].step # "created"
    BY <1>6 DEF AcquireToken, TokenRejected, KindInv, Idle, HasKind, InLogin, LoginOf
  <2>2. /\ job'[j].kind = job[j].kind /\ job'[j].step \in {"browser", "validating"}
        /\ job'[j].acct = job[j].acct /\ job'[j].beside = job[j].beside
        /\ job'[j].late = job[j].late /\ Others(j)
    BY <1>0, <1>6 DEF AcquireToken, TokenRejected, JobRecords, Others
  <2>3. InLogin(j)'
    BY <2>1, <2>2 DEF InLogin, LoginOf
  <2>4. Rows' = Rows
    BY <1>6, RowsKept DEF AcquireToken, TokenRejected
  <2> QED
    BY <1>6, <2>1, <2>2, <2>3, <2>4 DEF AcquireToken, TokenRejected, Stays, Windows
<1>7. ASSUME NEW j \in Jobs, AuthorizeFails(j)
      PROVE  Leaves(j)
  <2>1. InLogin(j)
    BY <1>7 DEF AuthorizeFails, Authorizing, KindInv, Idle, HasKind, InLogin, LoginOf
  <2> QED
    BY <1>4, <1>7, <2>1 DEF AuthorizeFails, Windows
<1>8. ASSUME NEW j \in Jobs, NEW u \in Users, StoreLogin(j, u)
      PROVE  Leaves(j)
  <2>1. InLogin(j)
    BY <1>8 DEF StoreLogin, KindInv, Idle, HasKind, InLogin, LoginOf
  <2>2. CASE Fail(j)
    BY <1>4, <1>8, <2>1, <2>2 DEF StoreLogin, Windows
  <2>3. CASE ~Fail(j)
    <3> DEFINE a == Target(j, u)
    <3>1. a \in Accounts
      BY <1>8 DEF StoreLogin
    <3> HIDE DEF a
    <3>2. /\ account' = [account EXCEPT ![a] = [user |-> u, ok |-> TRUE, token |-> job[j].tok]]
          /\ job' = [job EXCEPT ![j] = IdleJob] /\ Unmark(j)
      BY <1>8, <2>3 DEF StoreLogin, a
    <3>3. job'[j].step = "idle" /\ Others(j)
      BY <1>0, <3>2 DEF Others
    <3>4. Rows \subseteq Rows'
      BY <3>1, <3>2 DEF Rows, AuthTypeOK
    <3> QED
      BY <1>8, <2>1, <3>2, <3>3, <3>4 DEF StoreLogin, Leaves, Unmark, Windows
  <2> QED
    BY <2>2, <2>3
<1>9. ASSUME NEW j \in Jobs, CallAnswered(j)
      PROVE  Elsewhere(j)
  <2>1. /\ job[j].step = "calling" /\ job'[j].step \in {"idle", "queued"} /\ Others(j)
        /\ job'[j].step # "idle" => job'[j].kind = job[j].kind
    BY <1>0, <1>9 DEF CallAnswered, JobRecords, Others
  <2>2. Rows' = Rows
    BY <1>9, RowsKept DEF CallAnswered
  <2>3. (~Idle(j) => HasKind(j))'
    BY <2>1 DEF KindInv, Idle, HasKind
  <2> QED
    BY <1>9, <2>1, <2>2, <2>3 DEF CallAnswered, Elsewhere, InLogin, LoginOf, Windows
<1>10. ASSUME NEW j \in Jobs, EnterRefresh(j)
       PROVE  Elsewhere(j) \/ \E a \in Accounts \union {NoAccount} : Enters(j, a)
  <2>1. job[j].step = "queued" /\ HasKind(j)
    BY <1>10 DEF EnterRefresh, KindInv, Idle
  <2>2. CASE Spared(j)
    <3>1. job' = [job EXCEPT ![j] = IdleJob] /\ UNCHANGED <<account, authMark, missing>>
      BY <1>10, <2>2 DEF EnterRefresh
    <3>2. job'[j].step = "idle" /\ Others(j) /\ Rows' = Rows
      BY <1>0, <3>1, RowsKept DEF Others
    <3> QED
      BY <1>10, <2>1, <3>1, <3>2
         DEF EnterRefresh, Elsewhere, InLogin, LoginOf, Windows, Idle
  <2>3. CASE ~Spared(j) /\ Fail(j)
    <3>1. job[j].acct \notin authMark
      BY <2>3 DEF Spared
    <3>2. job'[j].step = "idle" /\ Others(j) /\ Rows' = Rows
      BY <1>0, <2>3, FailRows DEF Fail, Others
    <3> QED
      BY <1>10, <2>1, <2>3, <3>1, <3>2
         DEF EnterRefresh, Fail, Unmark, Elsewhere, InLogin, LoginOf, Windows, Idle
  <2>4. CASE ~Spared(j) /\ Key(j) \notin active
    <3> DEFINE a == job[j].acct
               begun == [job[j] EXCEPT !.step = "browser", !.who = account[a].user]
    <3>1. a \in Rows /\ a \in Accounts /\ a \notin openMark
      BY <2>4 DEF Spared, Rows
    <3>2. begun \in JobRecords /\ begun.step = "browser" /\ begun.acct = a
          /\ begun.kind = job[j].kind
      <4>1. job[j] \in JobRecords /\ account[a].user \in Users \union {NoUser}
        BY <3>1 DEF AuthTypeOK
      <4> QED
        BY <4>1, Names DEF JobRecords
    <3>3. JoinLogin(j, a, begun) /\ authMark' = authMark \union {a}
          /\ UNCHANGED <<account, missing, deleting, openMark>>
      BY <1>10, <2>4, Zenon DEF EnterRefresh
    <3>4. Rows' = Rows
      BY <3>3, RowsKept
    <3> HIDE DEF begun
    <3>5. /\ \A i \in Jobs \ {j} :
                 /\ job'[i].kind = job[i].kind /\ job'[i].step = job[i].step
                 /\ job'[i].acct = job[i].acct /\ job'[i].late = job[i].late
                 /\ job[i].beside => job'[i].beside
                 /\ a # NoAccount /\ LoginOf(i, a) => job'[i].beside /\ job'[j].beside
          /\ job'[j].kind = job[j].kind /\ job'[j].step = "browser" /\ job'[j].acct = a
          /\ job'[j].late <=> a \in deleting
      BY <3>2, <3>3, JoinLoginEffect
    <3>6. ~InLogin(j) /\ InLogin(j)'
      BY <2>1, <3>5 DEF InLogin, LoginOf, HasKind
    <3>7. Enters(j, a)
      BY <3>1, <3>3, <3>4, <3>5, <3>6 DEF Enters, Windows
    <3> QED
      BY <3>1, <3>7
  <2> QED
    BY <1>10, <2>2, <2>3, <2>4 DEF EnterRefresh
<1>11. ASSUME NEW a \in Accounts,
              OpenMessages(a) \/ CloseMessages(a) \/ StartDelete(a)
       PROVE  NoJobMoves
  <2>1. account' = account
    BY <1>11 DEF OpenMessages, CloseMessages, StartDelete
  <2> QED
    BY <1>11, <2>1, RowsKept DEF OpenMessages, CloseMessages, StartDelete, NoJobMoves
<1>12. ASSUME NEW a \in Accounts, CommitDelete(a)
       PROVE  NoJobMoves
  <2>1. Rows' = Rows \ {a}
    BY <1>12 DEF CommitDelete, NoRow, Rows, AuthTypeOK
  <2> QED
    BY <1>12, <2>1 DEF CommitDelete, NoJobMoves
<1>13. CASE StartHealth
  <2>1. Advance(account, Rows, {a \in Rows : account[a].ok})
    BY <1>13 DEF StartHealth
  <2>2. Rows' = Rows
    BY <2>1, AdvanceRows
  <2>3. UNCHANGED <<service, job, deleting, missing>>
    BY <2>1 DEF Advance
  <2> QED
    BY <2>2, <2>3 DEF NoJobMoves, Effect
<1>14. CASE HealthAnswer
  <2>1. PICK verdict \in Verdicts :
           Advance(IF verdict = "requires_login" THEN LoggedOut(account, health.asks)
                   ELSE account, health.todo, health.seen)
    BY <1>14 DEF HealthAnswer
  <2> DEFINE table == IF verdict = "requires_login" THEN LoggedOut(account, health.asks)
                      ELSE account
  <2>2. table = account \/ \E a : table = LoggedOut(account, a)
    OBVIOUS
  <2>3. UNCHANGED <<service, job, deleting, missing>>
    BY <2>1 DEF Advance
  <2> HIDE DEF table
  <2>4. Rows' = Rows
    BY <2>1, <2>2, AdvanceRows DEF table
  <2> QED
    BY <2>3, <2>4 DEF NoJobMoves, Effect
<1>15. Revoke \/ UNCHANGED vars => NoJobMoves
  BY RowsKept DEF Revoke, vars, NoJobMoves
<1>16. Restart => StartsAnew
  BY DEF Restart, StartsAnew
<1> QED
  BY <1>1, <1>2, <1>3, <1>5, <1>6, <1>7, <1>8, <1>9, <1>10, <1>11, <1>12, <1>13, <1>14,
     <1>15, <1>16 DEF Next, Requests, JobStep, Effect

(***************************************************************************)
(* The invariant behind the properties.  A login that overlapped no other  *)
(* one still has its mark, and so neither a window nor a deletion of its   *)
(* account began meanwhile.  Two logins of one account overlapped.         *)
(***************************************************************************)
LonelyMarked ==
    \A j \in Jobs : InLogin(j) /\ job[j].acct # NoAccount /\ ~job[j].beside
                    => job[j].acct \in authMark
PairsBeside ==
    \A i, j \in Jobs : /\ i # j /\ InLogin(i) /\ InLogin(j)
                       /\ job[i].acct = job[j].acct /\ job[j].acct # NoAccount
                       => job[i].beside
WindowsBeside ==
    \A j \in Jobs : InLogin(j) /\ job[j].acct \in openMark => job[j].beside
LonelySafe ==
    \A j \in Jobs : /\ InLogin(j) /\ job[j].acct # NoAccount
                    /\ ~job[j].beside /\ ~job[j].late
                    => /\ job[j].acct \notin deleting
                       /\ Authorizing(j) => job[j].acct \in Rows

MarkInv ==
    /\ AuthTypeOK /\ KindInv /\ MarksHaveOwners
    /\ LonelyMarked /\ PairsBeside /\ WindowsBeside /\ LonelySafe

LEMMA MarkInit == Init => MarkInv
<1> SUFFICES ASSUME Init PROVE MarkInv
  OBVIOUS
<1>1. authMark = {} /\ \A j \in Jobs : Idle(j) /\ ~InLogin(j)
  BY DEF Init, Idle, InLogin, LoginOf, IdleJob
<1> QED
  BY <1>1, AuthTypeInit
     DEF MarkInv, KindInv, MarksHaveOwners, LonelyMarked, PairsBeside, WindowsBeside, LonelySafe

\* A job whose record keeps these fields keeps its login.
LEMMA LoginKept ==
    ASSUME NEW i \in Jobs, job'[i].kind = job[i].kind, job'[i].step = job[i].step,
           job'[i].acct = job[i].acct
    PROVE  /\ InLogin(i)' <=> InLogin(i)
           /\ Authorizing(i)' <=> Authorizing(i)
           /\ \A a : LoginOf(i, a)' <=> LoginOf(i, a)
           /\ (~Idle(i) => HasKind(i)) => (~Idle(i) => HasKind(i))'
BY DEF InLogin, LoginOf, Authorizing, Idle, HasKind

LEMMA OthersKept ==
    ASSUME NEW j \in Jobs, Others(j), NEW i \in Jobs \ {j}
    PROVE  /\ job'[i] = job[i]
           /\ InLogin(i)' <=> InLogin(i)
           /\ Authorizing(i)' <=> Authorizing(i)
           /\ \A a : LoginOf(i, a)' <=> LoginOf(i, a)
           /\ (~Idle(i) => HasKind(i)) => (~Idle(i) => HasKind(i))'
<1>1. job'[i] = job[i]
  BY DEF Others
<1> QED
  BY <1>1, LoginKept

LEMMA EntersKeeps ==
    ASSUME MarkInv, NEW j \in Jobs, NEW a \in Accounts \union {NoAccount}, Enters(j, a)
    PROVE  /\ KindInv' /\ MarksHaveOwners'
           /\ LonelyMarked' /\ PairsBeside' /\ WindowsBeside' /\ LonelySafe'
<1>1. \A i \in Jobs \ {j} :
         /\ InLogin(i)' <=> InLogin(i)
         /\ Authorizing(i)' <=> Authorizing(i)
         /\ \A b : LoginOf(i, b)' <=> LoginOf(i, b)
         /\ (~Idle(i) => HasKind(i)) => (~Idle(i) => HasKind(i))'
  BY LoginKept DEF Enters
<1>2. LoginOf(j, a)' /\ HasKind(j)'
  BY DEF Enters, InLogin, LoginOf, HasKind
<1>3. KindInv'
  BY <1>1, <1>2 DEF MarkInv, KindInv
<1>4. MarksHaveOwners'
  BY <1>1, <1>2 DEF MarkInv, MarksHaveOwners, Enters, InLogin, LoginOf
<1>5. LonelyMarked'
  BY <1>1 DEF MarkInv, LonelyMarked, Enters
<1>6. PairsBeside'
  <2>1. \A i \in Jobs \ {j} : InLogin(i) /\ job[i].acct = a => LoginOf(i, a)
    BY DEF InLogin
  <2>2. \A i \in Jobs \ {j} : InLogin(i)' /\ job'[i].acct = a /\ a # NoAccount
                               => job'[i].beside /\ job'[j].beside
    BY <1>1, <2>1 DEF Enters
  <2>3. job'[j].acct = a
    BY DEF Enters
  <2>4. \A i, k \in Jobs \ {j} : /\ i # k /\ InLogin(i)' /\ InLogin(k)'
                                 /\ job'[i].acct = job'[k].acct /\ job'[k].acct # NoAccount
                                 => job'[i].beside
    BY <1>1 DEF MarkInv, PairsBeside, Enters
  <2> QED
    BY <2>2, <2>3, <2>4 DEF PairsBeside
<1>7. WindowsBeside'
  BY <1>1 DEF MarkInv, WindowsBeside, Enters, Windows
<1>8. LonelySafe'
  <2>1. \A i \in Jobs \ {j} : /\ InLogin(i)' /\ job'[i].acct # NoAccount
                              /\ ~job'[i].beside /\ ~job'[i].late
                              => /\ job'[i].acct \notin deleting'
                                 /\ Authorizing(i)' => job'[i].acct \in Rows'
    BY <1>1 DEF MarkInv, LonelySafe, Enters, Windows
  <2>2. Authorizing(j)' => job'[j].step # "created"
    BY DEF Authorizing
  <2>3. /\ ~job'[j].late => a \notin deleting'
        /\ Authorizing(j)' => a \in Rows'
        /\ job'[j].acct = a
    BY <2>2 DEF Enters, Windows
  <2> QED
    BY <2>1, <2>3 DEF LonelySafe
<1> QED
  BY <1>3, <1>4, <1>5, <1>6, <1>7, <1>8

LEMMA StaysKeeps ==
    ASSUME MarkInv, NEW j \in Jobs, Stays(j)
    PROVE  /\ KindInv' /\ MarksHaveOwners'
           /\ LonelyMarked' /\ PairsBeside' /\ WindowsBeside' /\ LonelySafe'
<1>1. \A i \in Jobs \ {j} :
         /\ job'[i] = job[i]
         /\ InLogin(i)' <=> InLogin(i)
         /\ Authorizing(i)' <=> Authorizing(i)
         /\ \A b : LoginOf(i, b)' <=> LoginOf(i, b)
         /\ (~Idle(i) => HasKind(i)) => (~Idle(i) => HasKind(i))'
  BY OthersKept DEF Stays
<1>2. /\ InLogin(j) /\ InLogin(j)' /\ HasKind(j)'
      /\ \A b : LoginOf(j, b)' <=> LoginOf(j, b)
      /\ Authorizing(j)' => Authorizing(j) \/ job[j].acct \in Rows \union {NoAccount}
  BY DEF Stays, InLogin, LoginOf, HasKind, Authorizing
<1>3. KindInv'
  BY <1>1, <1>2 DEF MarkInv, KindInv
<1>4. MarksHaveOwners'
  BY <1>1, <1>2 DEF MarkInv, MarksHaveOwners, Stays
<1>5. LonelyMarked' /\ PairsBeside' /\ WindowsBeside'
  BY <1>1, <1>2 DEF MarkInv, LonelyMarked, PairsBeside, WindowsBeside, Stays, Windows
<1>6. LonelySafe'
  BY <1>1, <1>2 DEF MarkInv, LonelySafe, Stays, Windows
<1> QED
  BY <1>3, <1>4, <1>5, <1>6

LEMMA LeavesKeeps ==
    ASSUME MarkInv, NEW j \in Jobs, Leaves(j)
    PROVE  /\ KindInv' /\ MarksHaveOwners'
           /\ LonelyMarked' /\ PairsBeside' /\ WindowsBeside' /\ LonelySafe'
<1>1. \A i \in Jobs \ {j} :
         /\ job'[i] = job[i]
         /\ InLogin(i)' <=> InLogin(i)
         /\ Authorizing(i)' <=> Authorizing(i)
         /\ \A b : LoginOf(i, b)' <=> LoginOf(i, b)
         /\ (~Idle(i) => HasKind(i)) => (~Idle(i) => HasKind(i))'
  BY OthersKept DEF Leaves
<1>2. InLogin(j) /\ ~InLogin(j)' /\ Idle(j)'
  BY DEF Leaves, InLogin, LoginOf, Idle
<1>3. KindInv'
  BY <1>1, <1>2 DEF MarkInv, KindInv
<1>4. MarksHaveOwners'
  <2>1. ASSUME NEW a \in authMark', a # job[j].acct
        PROVE  a \in missing' \/ \E i \in Jobs : LoginOf(i, a)'
    <3>1. a \in missing \/ \E i \in Jobs : LoginOf(i, a)
      BY <2>1 DEF MarkInv, MarksHaveOwners, Leaves
    <3>2. ~LoginOf(j, a)
      BY <2>1 DEF LoginOf
    <3> QED
      BY <1>1, <2>1, <3>1, <3>2 DEF Leaves
  <2>2. job[j].acct \in authMark' => job[j].acct \in missing'
    BY DEF Leaves
  <2> QED
    BY <2>1, <2>2 DEF MarksHaveOwners
<1>5. LonelyMarked'
  <2>1. ASSUME NEW i \in Jobs \ {j}, InLogin(i), job[i].acct # NoAccount, ~job[i].beside
        PROVE  job[i].acct \in authMark'
    <3>1. job[i].acct # job[j].acct
      BY <1>2, <2>1 DEF MarkInv, PairsBeside
    <3> QED
      BY <2>1, <3>1 DEF MarkInv, LonelyMarked, Leaves
  <2> QED
    BY <1>1, <1>2, <2>1 DEF LonelyMarked
<1>6. PairsBeside' /\ WindowsBeside'
  BY <1>1, <1>2 DEF MarkInv, PairsBeside, WindowsBeside, Leaves, Windows
<1>7. LonelySafe'
  BY <1>1, <1>2 DEF MarkInv, LonelySafe, Leaves, Windows
<1> QED
  BY <1>3, <1>4, <1>5, <1>6, <1>7

LEMMA ElsewhereKeeps ==
    ASSUME MarkInv, NEW j \in Jobs, Elsewhere(j)
    PROVE  /\ KindInv' /\ MarksHaveOwners'
           /\ LonelyMarked' /\ PairsBeside' /\ WindowsBeside' /\ LonelySafe'
<1>1. \A i \in Jobs \ {j} :
         /\ job'[i] = job[i]
         /\ InLogin(i)' <=> InLogin(i)
         /\ Authorizing(i)' <=> Authorizing(i)
         /\ \A b : LoginOf(i, b)' <=> LoginOf(i, b)
         /\ (~Idle(i) => HasKind(i)) => (~Idle(i) => HasKind(i))'
  BY OthersKept DEF Elsewhere
<1>2. ~InLogin(j) /\ ~InLogin(j)' /\ (~Idle(j) => HasKind(j))'
      /\ \A b : ~LoginOf(j, b)
  BY DEF Elsewhere, InLogin, LoginOf
<1>3. KindInv'
  BY <1>1, <1>2 DEF MarkInv, KindInv
<1>4. MarksHaveOwners'
  BY <1>1, <1>2 DEF MarkInv, MarksHaveOwners, Elsewhere
<1>5. LonelyMarked' /\ PairsBeside' /\ WindowsBeside'
  BY <1>1, <1>2 DEF MarkInv, LonelyMarked, PairsBeside, WindowsBeside, Elsewhere, Windows
<1>6. LonelySafe'
  BY <1>1, <1>2 DEF MarkInv, LonelySafe, Elsewhere, Windows
<1> QED
  BY <1>3, <1>4, <1>5, <1>6

LEMMA NoJobMovesKeeps ==
    ASSUME MarkInv, NoJobMoves
    PROVE  /\ KindInv' /\ MarksHaveOwners'
           /\ LonelyMarked' /\ PairsBeside' /\ WindowsBeside' /\ LonelySafe'
<1>1. /\ job' = job /\ authMark' = authMark /\ missing' = missing
      /\ \A i \in Jobs : /\ InLogin(i)' <=> InLogin(i)
                         /\ Authorizing(i)' <=> Authorizing(i)
                         /\ \A a : LoginOf(i, a)' <=> LoginOf(i, a)
  BY LoginKept DEF NoJobMoves
<1>2. KindInv' /\ MarksHaveOwners' /\ LonelyMarked' /\ PairsBeside'
  BY <1>1 DEF MarkInv, KindInv, MarksHaveOwners, LonelyMarked, PairsBeside, Idle, HasKind
<1>3. WindowsBeside'
  <2>1. openMark' \subseteq openMark \union (Accounts \ authMark)
    BY DEF NoJobMoves
  <2>2. \A i \in Jobs : job[i].acct \in Accounts => job[i].acct # NoAccount
    OBVIOUS
  <2> QED
    BY <1>1, <2>1, <2>2 DEF MarkInv, WindowsBeside, LonelyMarked
<1>4. LonelySafe'
  <2>1. CASE deleting' \subseteq deleting \union (Accounts \ authMark) /\ Rows' = Rows
    BY <1>1, <2>1 DEF MarkInv, LonelySafe, LonelyMarked
  <2>2. ASSUME NEW a \in deleting, Rows' = Rows \ {a}, deleting' = deleting \ {a}
        PROVE  LonelySafe'
    BY <1>1, <2>2 DEF MarkInv, LonelySafe
  <2> QED
    BY <2>1, <2>2 DEF NoJobMoves
<1> QED
  BY <1>2, <1>3, <1>4

LEMMA StartsAnewKeeps ==
    ASSUME StartsAnew
    PROVE  /\ KindInv' /\ MarksHaveOwners'
           /\ LonelyMarked' /\ PairsBeside' /\ WindowsBeside' /\ LonelySafe'
<1>1. authMark' = {} /\ \A j \in Jobs : Idle(j)' /\ ~InLogin(j)'
  BY DEF StartsAnew, Idle, InLogin, LoginOf, IdleJob
<1> QED
  BY <1>1 DEF KindInv, MarksHaveOwners, LonelyMarked, PairsBeside, WindowsBeside, LonelySafe

LEMMA MarkNext == MarkInv /\ [Next]_vars => MarkInv'
<1> SUFFICES ASSUME MarkInv, [Next]_vars PROVE MarkInv'
  OBVIOUS
<1>1. AuthTypeOK' /\ Effect
  BY AuthTypeNext, EffectOfStep DEF MarkInv
<1> QED
  BY <1>1, EntersKeeps, StaysKeeps, LeavesKeeps, ElsewhereKeeps, NoJobMovesKeeps,
     StartsAnewKeeps DEF Effect, MarkInv

LEMMA MarksHold == Spec => []MarkInv
BY MarkInit, MarkNext, PTL DEF Spec

(***************************************************************************)
(* No account stays marked with nobody working on it, but for one deleted  *)
(* between the request for its authorization and the task's start.         *)
(***************************************************************************)
THEOREM MarksKeepOwners == Spec => []MarksHaveOwners
<1>1. MarkInv => MarksHaveOwners
  BY DEF MarkInv
<1> QED
  BY <1>1, MarksHold, PTL

(***************************************************************************)
(* A window and a login of one account never share the profile, unless the *)
(* login overlapped another one.                                           *)
(***************************************************************************)
THEOREM WindowsStayAlone == Spec => []WindowAlone
<1>1. MarkInv => WindowAlone
  <2> SUFFICES ASSUME MarkInv, NEW j \in Jobs, Authorizing(j), job[j].acct \in openMark
               PROVE  job[j].beside
    BY DEF WindowAlone
  <2>1. InLogin(j)
    BY DEF MarkInv, KindInv, Authorizing, Idle, HasKind, InLogin, LoginOf
  <2> QED
    BY <2>1 DEF MarkInv, WindowsBeside
<1> QED
  BY <1>1, MarksHold, PTL

(***************************************************************************)
(* A deleted account comes back only by a login that was tied to no        *)
(* account, or that overlapped the deletion or another login.              *)
(***************************************************************************)
LEMMA RowsAppear ==
    ASSUME AuthTypeOK, [Next]_vars, NEW a \in Accounts,
           account[a].user = NoUser, account'[a].user # NoUser
    PROVE  \E j \in Jobs : \E u \in Users : StoreLogin(j, u) /\ a = Target(j, u) /\ ~Fail(j)
<1>1. account' # account /\ Rows' # Rows
  BY DEF Rows
<1>2. \A j \in Jobs : Fail(j) => Rows' = Rows
  BY FailRows
<1>3. ASSUME NEW j \in Jobs, Requests(j) \/ JobStep(j)
      PROVE  \E u \in Users : StoreLogin(j, u) /\ ~Fail(j)
  BY <1>1, <1>2, <1>3 DEF Requests, JobStep, StartAuthorization, StartCall,
     AuthorizationOfNoAccount, BeginAuthorization, AcquireToken, AuthorizeFails,
     TokenRejected, CallAnswered, EnterRefresh
<1>4. ASSUME NEW j \in Jobs, NEW u \in Users, StoreLogin(j, u), ~Fail(j)
      PROVE  a = Target(j, u)
  BY <1>4 DEF StoreLogin, AuthTypeOK
<1>5. ASSUME NEW b \in Accounts,
             OpenMessages(b) \/ CloseMessages(b) \/ StartDelete(b) \/ CommitDelete(b)
      PROVE  FALSE
  BY <1>1, <1>5 DEF OpenMessages, CloseMessages, StartDelete, CommitDelete, AuthTypeOK, NoRow
<1>6. ~StartHealth
  BY <1>1, AdvanceRows DEF StartHealth
<1>7. ~HealthAnswer
  <2> SUFFICES ASSUME HealthAnswer PROVE FALSE
    OBVIOUS
  <2>1. PICK verdict \in Verdicts :
           Advance(IF verdict = "requires_login" THEN LoggedOut(account, health.asks)
                   ELSE account, health.todo, health.seen)
    BY DEF HealthAnswer
  <2> DEFINE table == IF verdict = "requires_login" THEN LoggedOut(account, health.asks)
                      ELSE account
  <2>2. table = account \/ \E b : table = LoggedOut(account, b)
    OBVIOUS
  <2> HIDE DEF table
  <2> QED
    BY <1>1, <2>1, <2>2, AdvanceRows DEF table
<1>8. ~Revoke /\ ~Restart /\ ~UNCHANGED vars
  BY <1>1 DEF Revoke, Restart, vars
<1> QED
  BY <1>3, <1>4, <1>5, <1>6, <1>7, <1>8 DEF Next

THEOREM DeletedAccountsStayDeleted == Spec => DeletedStaysDeleted
<1>1. ASSUME MarkInv, [Next]_vars, NEW a \in Accounts,
             account[a].user = NoUser, account'[a].user # NoUser
      PROVE  \E j \in Jobs : /\ Authorizing(j) /\ job'[j] # job[j]
                             /\ \/ job[j].acct = NoAccount
                                \/ job[j].beside \/ job[j].late
  <2>1. PICK j \in Jobs, u \in Users : StoreLogin(j, u) /\ a = Target(j, u) /\ ~Fail(j)
    BY <1>1, RowsAppear DEF MarkInv
  <2>2. Authorizing(j) /\ InLogin(j)
    BY <1>1, <2>1 DEF MarkInv, KindInv, StoreLogin, Authorizing, Idle, HasKind, InLogin, LoginOf
  <2>3. job'[j] # job[j]
    <3>1. job' = [job EXCEPT ![j] = IdleJob]
      BY <2>1 DEF StoreLogin
    <3>2. job'[j].step = "idle"
      BY <1>1, <3>1 DEF MarkInv, AuthTypeOK, IdleJob
    <3> QED
      BY <2>2, <3>2 DEF Authorizing
  <2>4. job[j].acct \notin Rows
    BY <1>1, <2>1 DEF Target, Rows
  <2>5. job[j].acct = NoAccount \/ job[j].beside \/ job[j].late
    BY <1>1, <2>2, <2>4 DEF MarkInv, LonelySafe
  <2> QED
    BY <2>2, <2>3, <2>5
<1>2. MarkInv /\ [Next]_vars =>
        [\A a \in Accounts :
            account[a].user = NoUser /\ account'[a].user # NoUser
            => \E j \in Jobs : /\ Authorizing(j) /\ job'[j] # job[j]
                               /\ \/ job[j].acct = NoAccount
                                  \/ job[j].beside \/ job[j].late]_vars
  BY <1>1
<1> QED
  BY <1>2, MarksHold, PTL DEF Spec, DeletedStaysDeleted

-----------------------------------------------------------------------------
(***************************************************************************)
(* The tokens.  VK numbers them upwards, so a token a job was told is no   *)
(* longer accepted never becomes accepted again, and the token a job has   *)
(* captured is stored nowhere and held by no other job.                    *)
(***************************************************************************)
TokensIssued ==
    /\ \A j \in Jobs : job[j].tok <= issued
    /\ \A a \in Accounts : account[a].token <= issued
RejectedStays ==
    \A j \in Jobs : job[j].step \in {"created", "queued", "browser"} => job[j].tok \notin alive
CapturedAlone ==
    \A j \in Jobs : job[j].step = "validating" =>
        /\ job[j].tok # 0
        /\ \A a \in Accounts : account[a].token # job[j].tok
        /\ \A i \in Jobs \ {j} : job[i].step = "validating" => job[i].tok # job[j].tok
TokenInv == AuthTypeOK /\ TokensIssued /\ RejectedStays /\ CapturedAlone

LEMMA TokenInit == Init => TokenInv
BY AuthTypeInit DEF Init, TokenInv, TokensIssued, RejectedStays, CapturedAlone, IdleJob, NoRow

(***************************************************************************)
(* The step of a job j that captures no token and stores none: the tables  *)
(* keep their tokens, and j waits with a token VK rejects, or validates    *)
(* the one it had, or does neither.                                        *)
(***************************************************************************)
TableTokens == \A a \in Accounts : account'[a].token \in {account[a].token, 0}

Quiet(j) ==
    /\ issued' = issued /\ alive' \subseteq alive /\ TableTokens
    /\ \A i \in Jobs \ {j} : job'[i].step = job[i].step /\ job'[i].tok = job[i].tok
    /\ job'[j].tok \in 0..issued
    /\ job'[j].step \in {"created", "queued", "browser"} => job'[j].tok \notin alive
    /\ job'[j].step # "validating"

LEMMA QuietKeeps ==
    ASSUME TokenInv, NEW j \in Jobs, Quiet(j)
    PROVE  TokensIssued' /\ RejectedStays' /\ CapturedAlone'
<1>1. issued \in Nat
  BY DEF TokenInv, AuthTypeOK
<1>2. TokensIssued'
  BY <1>1 DEF TokenInv, TokensIssued, Quiet, TableTokens
<1>3. RejectedStays'
  BY DEF TokenInv, RejectedStays, Quiet
<1>4. CapturedAlone'
  BY DEF TokenInv, CapturedAlone, Quiet, TableTokens
<1> QED
  BY <1>2, <1>3, <1>4

LEMMA FailQuiet ==
    ASSUME TokenInv, NEW j \in Jobs, Fail(j), UNCHANGED vk
    PROVE  Quiet(j)
<1>1. TableTokens
  BY DEF Fail, LoggedOut, TableTokens, TokenInv, AuthTypeOK
<1>2. job'[j].step = "idle" /\ job'[j].tok = 0 /\ \A i \in Jobs \ {j} : job'[i] = job[i]
  BY DEF Fail, IdleJob, TokenInv, AuthTypeOK
<1>3. issued \in Nat /\ alive' = alive /\ issued' = issued
  BY DEF TokenInv, AuthTypeOK, vk
<1> QED
  BY <1>1, <1>2, <1>3 DEF Quiet

LEMMA AdvanceTokens ==
    ASSUME AuthTypeOK, NEW table, table = account \/ \E a : table = LoggedOut(account, a),
           NEW todo, NEW seen, Advance(table, todo, seen)
    PROVE  TableTokens /\ job' = job /\ alive' = alive /\ issued' = issued
<1>1. ASSUME NEW a \in Accounts
      PROVE  account'[a].token = table[a].token
  <2>1. account'[a] = IF a \in {b \in todo : \A c \in {d \in todo \intersect seen :
                                 table[d].user # NoUser} : b < c} \ seen
                      THEN LoggedOut(table, a)[a] ELSE table[a]
    BY DEF Advance
  <2>2. LoggedOut(table, a)[a].token = table[a].token
    BY DEF LoggedOut, AuthTypeOK
  <2> QED
    BY <2>1, <2>2
<1>2. \A a \in Accounts : table[a].token = account[a].token
  BY DEF LoggedOut, AuthTypeOK
<1> QED
  BY <1>1, <1>2 DEF TableTokens, Advance, vk

LEMMA TokenNext == TokenInv /\ [Next]_vars => TokenInv'
<1> SUFFICES ASSUME TokenInv, [Next]_vars PROVE TokensIssued' /\ RejectedStays' /\ CapturedAlone'
  BY AuthTypeNext DEF TokenInv
<1> USE DEF service, vk
<1>0. /\ AuthTypeOK /\ job \in [Jobs -> JobRecords] /\ IdleJob \in JobRecords
      /\ IdleJob.step = "idle" /\ IdleJob.tok = 0
      /\ issued \in Nat /\ issued <= MaxToken /\ alive \subseteq Tokens /\ 0 \notin alive
      /\ account' = account => TableTokens
  BY IdleJobType DEF TokenInv, AuthTypeOK, IdleJob, TableTokens, Tokens
<1>1. ASSUME NEW j \in Jobs, NEW a \in Accounts \union {NoAccount}, StartAuthorization(j, a)
      PROVE  Quiet(j)
  <2> DEFINE begun == [IdleJob EXCEPT !.kind = "authorize", !.step = "created", !.acct = a]
  <2>1. begun \in JobRecords /\ begun.step = "created" /\ begun.tok = 0
    BY <1>0, Names DEF JobRecords
  <2>2. JoinLogin(j, a, begun)
    BY <1>1 DEF StartAuthorization
  <2> HIDE DEF begun
  <2>3. /\ \A i \in Jobs \ {j} : job'[i].step = job[i].step /\ job'[i].tok = job[i].tok
        /\ job'[j].step = "created" /\ job'[j].tok = 0
    BY <1>0, <2>1, <2>2, JoinLoginEffect
  <2> QED
    BY <1>0, <1>1, <2>3 DEF StartAuthorization, Quiet
<1>2. ASSUME NEW j \in Jobs, NEW a \in Accounts, StartCall(j, a)
      PROVE  Quiet(j)
  <2> DEFINE call == [IdleJob EXCEPT !.kind = "refresh", !.step = "calling",
                                     !.acct = a, !.tok = account[a].token]
  <2>1. call.step = "calling" /\ call.tok = account[a].token
    BY DEF IdleJob
  <2>2. account[a].token \in 0..issued
    BY <1>0 DEF TokenInv, TokensIssued, AuthTypeOK
  <2> HIDE DEF call
  <2>3. job'[j] = call /\ \A i \in Jobs \ {j} : job'[i] = job[i]
    BY <1>0, <1>2 DEF StartCall, call
  <2> QED
    BY <1>0, <1>2, <2>1, <2>2, <2>3 DEF StartCall, Quiet
<1>3. ASSUME NEW j \in Jobs, AuthorizationOfNoAccount(j)
      PROVE  Quiet(j)
  BY <1>0, <1>3 DEF AuthorizationOfNoAccount, Quiet
<1>4. ASSUME NEW j \in Jobs, BeginAuthorization(j)
      PROVE  Quiet(j)
  <2>1. CASE Fail(j)
    BY <1>4, <2>1, FailQuiet DEF BeginAuthorization
  <2>2. CASE Key(j) \notin active
    <3>1. /\ job'[j].step = "browser" /\ job'[j].tok = job[j].tok /\ job[j].step = "created"
          /\ \A i \in Jobs \ {j} : job'[i] = job[i]
      BY <1>0, <1>4, <2>2 DEF BeginAuthorization, JobRecords
    <3>2. job[j].tok \in 0..issued /\ job[j].tok \notin alive
      BY <1>0, <3>1 DEF TokenInv, TokensIssued, RejectedStays, JobRecords
    <3> QED
      BY <1>0, <1>4, <2>2, <3>1, <3>2 DEF BeginAuthorization, Quiet
  <2> QED
    BY <1>4, <2>1, <2>2 DEF BeginAuthorization
<1>5. ASSUME NEW j \in Jobs, AcquireToken(j)
      PROVE  TokensIssued' /\ RejectedStays' /\ CapturedAlone'
  <2>1. /\ job'[j].step = "validating" /\ job'[j].tok = issued + 1
        /\ \A i \in Jobs \ {j} : job'[i] = job[i]
    BY <1>0, <1>5 DEF AcquireToken, JobRecords
  <2>2. /\ issued' = issued + 1 /\ alive' = alive \union {issued + 1} /\ account' = account
    BY <1>5 DEF AcquireToken
  <2>3. /\ \A i \in Jobs : job[i].tok \in 0..issued
        /\ \A a \in Accounts : account[a].token \in 0..issued
    BY <1>0 DEF TokenInv, TokensIssued, JobRecords, AuthTypeOK
  <2>4. TokensIssued'
    BY <1>0, <2>1, <2>2, <2>3 DEF TokensIssued
  <2>5. RejectedStays'
    BY <1>0, <2>1, <2>2, <2>3 DEF TokenInv, RejectedStays
  <2>6. CapturedAlone'
    BY <1>0, <2>1, <2>2, <2>3 DEF TokenInv, CapturedAlone
  <2> QED
    BY <2>4, <2>5, <2>6
<1>6. ASSUME NEW j \in Jobs, AuthorizeFails(j)
      PROVE  Quiet(j)
  BY <1>6, FailQuiet DEF AuthorizeFails
<1>7. ASSUME NEW j \in Jobs, TokenRejected(j)
      PROVE  Quiet(j)
  <2>1. /\ job'[j].step = "browser" /\ job'[j].tok = job[j].tok
        /\ \A i \in Jobs \ {j} : job'[i] = job[i]
    BY <1>0, <1>7 DEF TokenRejected, JobRecords
  <2>2. job[j].tok \in 0..issued
    BY <1>0 DEF TokenInv, TokensIssued, JobRecords
  <2> QED
    BY <1>0, <1>7, <2>1, <2>2 DEF TokenRejected, Quiet
<1>8. ASSUME NEW j \in Jobs, NEW u \in Users, StoreLogin(j, u)
      PROVE  TokensIssued' /\ RejectedStays' /\ CapturedAlone'
  <2>1. CASE Fail(j)
    BY <1>8, <2>1, FailQuiet, QuietKeeps DEF StoreLogin
  <2>2. CASE ~Fail(j)
    <3> DEFINE a == Target(j, u)
    <3>1. a \in Accounts /\ job[j].step = "validating" /\ UNCHANGED vk
      BY <1>8 DEF StoreLogin
    <3> HIDE DEF a
    <3>2. /\ account' = [account EXCEPT ![a] = [user |-> u, ok |-> TRUE, token |-> job[j].tok]]
          /\ job' = [job EXCEPT ![j] = IdleJob]
      BY <1>8, <2>2 DEF StoreLogin, a
    <3>3. /\ \A b \in Accounts : account'[b].token \in {account[b].token, job[j].tok}
          /\ job'[j].step = "idle" /\ job'[j].tok = 0
          /\ \A i \in Jobs \ {j} : job'[i] = job[i]
      BY <1>0, <3>1, <3>2 DEF AuthTypeOK
    <3>4. TokensIssued'
      BY <1>0, <3>1, <3>3 DEF TokenInv, TokensIssued
    <3>5. RejectedStays'
      BY <1>0, <3>1, <3>3 DEF TokenInv, RejectedStays
    <3>6. CapturedAlone'
      BY <1>0, <3>1, <3>3 DEF TokenInv, CapturedAlone
    <3> QED
      BY <3>4, <3>5, <3>6
  <2> QED
    BY <2>1, <2>2
<1>9. ASSUME NEW j \in Jobs, CallAnswered(j)
      PROVE  Quiet(j)
  <2>1. CASE job' = [job EXCEPT ![j] = IdleJob]
    BY <1>0, <1>9, <2>1 DEF CallAnswered, Quiet
  <2>2. CASE job[j].tok \notin alive /\ job' = [job EXCEPT ![j].step = "queued"]
    <3>1. /\ job'[j].step = "queued" /\ job'[j].tok = job[j].tok
          /\ \A i \in Jobs \ {j} : job'[i] = job[i]
      BY <1>0, <2>2 DEF JobRecords
    <3>2. job[j].tok \in 0..issued
      BY <1>0 DEF TokenInv, TokensIssued, JobRecords
    <3> QED
      BY <1>0, <1>9, <2>2, <3>1, <3>2 DEF CallAnswered, Quiet
  <2> QED
    BY <1>9, <2>1, <2>2 DEF CallAnswered
<1>10. ASSUME NEW j \in Jobs, EnterRefresh(j)
       PROVE  Quiet(j)
  <2>1. CASE Spared(j)
    BY <1>0, <1>10, <2>1 DEF EnterRefresh, Quiet
  <2>2. CASE Fail(j)
    BY <1>10, <2>2, FailQuiet DEF EnterRefresh
  <2>3. CASE ~Spared(j) /\ Key(j) \notin active
    <3> DEFINE a == job[j].acct
               begun == [job[j] EXCEPT !.step = "browser", !.who = account[a].user]
    <3>1. begun \in JobRecords /\ begun.step = "browser" /\ begun.tok = job[j].tok
      <4>1. job[j] \in JobRecords /\ account[a].user \in Users \union {NoUser}
        BY <1>0, <2>3 DEF AuthTypeOK, Spared, Rows
      <4> QED
        BY <4>1, Names DEF JobRecords
    <3>2. JoinLogin(j, a, begun) /\ account' = account /\ UNCHANGED vk
      BY <1>10, <2>3, Zenon DEF EnterRefresh
    <3> HIDE DEF begun
    <3>3. /\ \A i \in Jobs \ {j} : job'[i].step = job[i].step /\ job'[i].tok = job[i].tok
          /\ job'[j].step = "browser" /\ job'[j].tok = job[j].tok
      BY <1>0, <3>1, <3>2, JoinLoginEffect
    <3>4. job[j].tok \in 0..issued /\ job[j].tok \notin alive
      BY <1>0, <1>10 DEF EnterRefresh, TokenInv, TokensIssued, RejectedStays, JobRecords
    <3> QED
      BY <1>0, <3>2, <3>3, <3>4 DEF Quiet
  <2> QED
    BY <1>10, <2>1, <2>2, <2>3 DEF EnterRefresh
<1>11. ASSUME TableTokens, job' = job, alive' \subseteq alive, issued' = issued
       PROVE  TokensIssued' /\ RejectedStays' /\ CapturedAlone'
  BY <1>0, <1>11 DEF TokenInv, TokensIssued, RejectedStays, CapturedAlone, TableTokens
<1>12. ASSUME NEW a \in Accounts,
              OpenMessages(a) \/ CloseMessages(a) \/ StartDelete(a) \/ CommitDelete(a)
       PROVE  TableTokens /\ job' = job /\ alive' \subseteq alive /\ issued' = issued
  <2>1. \A b \in Accounts : account'[b].token \in {account[b].token, 0}
    BY <1>0, <1>12 DEF OpenMessages, CloseMessages, StartDelete, CommitDelete, AuthTypeOK, NoRow
  <2> QED
    BY <1>12, <2>1 DEF OpenMessages, CloseMessages, StartDelete, CommitDelete, TableTokens
<1>13. CASE StartHealth
  <2>1. Advance(account, Rows, {a \in Rows : account[a].ok})
    BY <1>13 DEF StartHealth
  <2> QED
    BY <1>0, <1>11, <2>1, AdvanceTokens
<1>14. CASE HealthAnswer
  <2>1. PICK verdict \in Verdicts :
           Advance(IF verdict = "requires_login" THEN LoggedOut(account, health.asks)
                   ELSE account, health.todo, health.seen)
    BY <1>14 DEF HealthAnswer
  <2> DEFINE table == IF verdict = "requires_login" THEN LoggedOut(account, health.asks)
                      ELSE account
  <2>2. table = account \/ \E a : table = LoggedOut(account, a)
    OBVIOUS
  <2> HIDE DEF table
  <2> QED
    BY <1>0, <1>11, <2>1, <2>2, AdvanceTokens DEF table
<1>15. CASE Revoke \/ UNCHANGED vars
  BY <1>0, <1>11, <1>15 DEF Revoke, vars
<1>16. CASE Restart
  BY <1>0, <1>16 DEF Restart, TokenInv, TokensIssued, RejectedStays, CapturedAlone
<1> QED
  BY <1>1, <1>2, <1>3, <1>4, <1>5, <1>6, <1>7, <1>8, <1>9, <1>10, <1>11, <1>12, <1>13, <1>14,
     <1>15, <1>16, QuietKeeps DEF Next, Requests, JobStep

LEMMA TokensHold == Spec => []TokenInv
BY TokenInit, TokenNext, PTL DEF Spec

(***************************************************************************)
(* A refresh opens a browser only for a stored token that VK rejects.      *)
(***************************************************************************)
THEOREM RefreshesAreNeeded == Spec => RefreshesCoalesce
<1>1. ASSUME TokenInv, [Next]_vars, NEW j \in Jobs,
             job[j].step = "queued", job'[j].step = "browser"
      PROVE  account[job[j].acct].token \notin alive
  <2>0. job \in [Jobs -> JobRecords] /\ IdleJob.step = "idle"
    BY <1>1 DEF TokenInv, AuthTypeOK, IdleJob
  <2>1. CASE EnterRefresh(j) /\ ~Spared(j)
    BY <1>1, <2>1 DEF TokenInv, RejectedStays, Spared
  <2>2. ASSUME EnterRefresh(j), Spared(j)
        PROVE  FALSE
    BY <1>1, <2>0, <2>2 DEF EnterRefresh
  <2>3. ASSUME NEW i \in Jobs \ {j}, Requests(i) \/ JobStep(i)
        PROVE  FALSE
    <3>1. ASSUME NEW a \in Accounts \union {NoAccount}, NEW begun, JoinLogin(i, a, begun)
          PROVE  FALSE
      <4>1. job'[j].step = job[j].step
        BY <2>0, <3>1 DEF JoinLogin, JobRecords
      <4> QED
        BY <1>1, <4>1
    <3>2. ASSUME \E r : job' = [job EXCEPT ![i] = r]
          PROVE  FALSE
      BY <1>1, <2>0, <3>2
    <3>3. CASE Requests(i)
      BY <3>1, <3>2, <3>3 DEF Requests, StartAuthorization, StartCall
    <3>4. CASE EnterRefresh(i)
      <4>1. Spared(i) \/ (~Spared(i) /\ Fail(i)) \/ (~Spared(i) /\ ~Fail(i))
        OBVIOUS
      <4>2. job[i].acct \in Accounts \union {NoAccount}
        BY <2>0 DEF JobRecords
      <4> QED
        BY <3>1, <3>2, <3>4, <4>1, <4>2 DEF EnterRefresh, Fail
    <3>5. CASE JobStep(i) /\ ~EnterRefresh(i)
      <4>1. \E r : job' = [job EXCEPT ![i] = r]
        BY <3>5 DEF JobStep, AuthorizationOfNoAccount, BeginAuthorization, AcquireToken,
           AuthorizeFails, TokenRejected, StoreLogin, CallAnswered, Fail
      <4> QED
        BY <3>2, <4>1
    <3> QED
      BY <2>3, <3>3, <3>4, <3>5
  <2>4. ~Requests(j) /\ (JobStep(j) => EnterRefresh(j))
    BY <1>1 DEF Requests, JobStep, StartAuthorization, StartCall, Idle, Authorizing,
       AuthorizationOfNoAccount, BeginAuthorization, AcquireToken, AuthorizeFails,
       TokenRejected, StoreLogin, CallAnswered
  <2>5. job' # job /\ ~Restart
    BY <1>1, <2>0 DEF Restart
  <2>6. ASSUME NEW a \in Accounts,
               OpenMessages(a) \/ CloseMessages(a) \/ StartDelete(a) \/ CommitDelete(a)
        PROVE  FALSE
    BY <2>5, <2>6 DEF OpenMessages, CloseMessages, StartDelete, CommitDelete, service
  <2>7. ~StartHealth /\ ~HealthAnswer /\ ~Revoke /\ ~UNCHANGED vars
    BY <2>5 DEF StartHealth, HealthAnswer, Advance, Revoke, vars
  <2> QED
    BY <1>1, <2>1, <2>2, <2>3, <2>4, <2>5, <2>6, <2>7 DEF Next
<1>2. TokenInv /\ [Next]_vars =>
        [\A j \in Jobs : job[j].step = "queued" /\ job'[j].step = "browser"
                         => account[job[j].acct].token \notin alive]_vars
  BY <1>1
<1> QED
  BY <1>2, TokensHold, PTL DEF Spec, RefreshesCoalesce

(***************************************************************************)
(* A login that VK accepts is marked requires_login only on older evidence *)
(* than the token that is stored.                                          *)
(***************************************************************************)
Lost(a) == /\ account[a].ok /\ account[a].token \in alive
           /\ account'[a].user # NoUser /\ ~account'[a].ok

\* Only a failed refresh and the health check write requires_login.
LEMMA FailLoses ==
    ASSUME TokenInv, NEW j \in Jobs, Fail(j), ~Idle(j), NEW a \in Rows, Lost(a)
    PROVE  job'[j] # job[j] /\ job[j].acct = a
BY DEF Fail, LoggedOut, Lost, TokenInv, AuthTypeOK, Rows, Idle, IdleJob

\* The account's token at a failed refresh is not the job's, or VK rejects it.
LEMMA StepLoses ==
    ASSUME TokenInv, NEW j \in Jobs, Requests(j) \/ JobStep(j), NEW a \in Rows, Lost(a)
    PROVE  OldToken(j, a)
<1>0. /\ AuthTypeOK /\ a \in Accounts /\ account' # account
  BY DEF TokenInv, Rows, Lost
<1>1. CASE Fail(j)
  <2>1. ~Idle(j)
    <3>1. IdleJob.step = "idle" /\ job'[j] = IdleJob
      BY <1>0, <1>1 DEF Fail, IdleJob, AuthTypeOK
    <3>2. job[j] = IdleJob => account' = account
      BY <1>1 DEF Fail, IdleJob
    <3>3. ~Requests(j)
      BY <1>0 DEF Requests, StartAuthorization, StartCall
    <3> QED
      BY <1>0, <3>3 DEF JobStep, Idle, Authorizing, AuthorizationOfNoAccount,
         BeginAuthorization, AcquireToken, AuthorizeFails, TokenRejected, StoreLogin,
         CallAnswered, EnterRefresh
  <2>2. job'[j] # job[j] /\ job[j].acct = a
    BY <1>1, <2>1, FailLoses
  <2>3. job[j].step \in {"created", "queued", "browser", "validating"}
    BY <1>0 DEF Requests, JobStep, StartAuthorization, StartCall, Authorizing,
       AuthorizationOfNoAccount, BeginAuthorization, AcquireToken, AuthorizeFails,
       TokenRejected, StoreLogin, CallAnswered, EnterRefresh
  <2>4. job[j].tok # account[a].token
    BY <1>0, <2>3 DEF TokenInv, RejectedStays, CapturedAlone, Lost
  <2> QED
    BY <2>2, <2>4 DEF OldToken
<1>2. CASE ~Fail(j)
  <2>1. PICK u \in Users : StoreLogin(j, u)
    BY <1>0, <1>2 DEF Requests, JobStep, StartAuthorization, StartCall,
       AuthorizationOfNoAccount, BeginAuthorization, AcquireToken, AuthorizeFails,
       TokenRejected, CallAnswered, EnterRefresh
  <2>2. account' = [account EXCEPT ![Target(j, u)] =
                       [user |-> u, ok |-> TRUE, token |-> job[j].tok]]
    BY <1>2, <2>1 DEF StoreLogin
  <2>3. FALSE
    BY <1>0, <2>2 DEF Lost, AuthTypeOK
  <2> QED
    BY <2>3
<1> QED
  BY <1>1, <1>2

\* The health check goes by the auth_status it read, or by VK's verdict.
LEMMA AdvanceLoses ==
    ASSUME AuthTypeOK, NEW table, NEW todo, NEW seen, Advance(table, todo, seen),
           NEW a \in Accounts, table[a].ok, ~account'[a].ok
    PROVE  a \in todo \ seen
BY DEF Advance

THEOREM LoginsSurviveFreshEvidence == Spec => LoginsLostToStaleEvidence
<1>1. ASSUME TokenInv, [Next]_vars, NEW a \in Rows, Lost(a)
      PROVE  OldHealth(a) \/ \E j \in Jobs : OldToken(j, a)
  <2>0. a \in Accounts /\ AuthTypeOK /\ account' # account
    BY <1>1 DEF TokenInv, Rows, Lost
  <2>1. CASE \E j \in Jobs : Requests(j) \/ JobStep(j)
    BY <1>1, <2>1, StepLoses
  <2>2. ASSUME NEW b \in Accounts,
               OpenMessages(b) \/ CloseMessages(b) \/ StartDelete(b) \/ CommitDelete(b)
        PROVE  FALSE
    BY <1>1, <2>0, <2>2
       DEF OpenMessages, CloseMessages, StartDelete, CommitDelete, NoRow, Lost, AuthTypeOK
  <2>3. ASSUME StartHealth
        PROVE  FALSE
    <3>1. Advance(account, Rows, {b \in Rows : account[b].ok})
      BY <2>3 DEF StartHealth
    <3>2. a \in Rows \ {b \in Rows : account[b].ok}
      BY <1>1, <2>0, <3>1, AdvanceLoses DEF Lost
    <3> QED
      BY <1>1, <3>2 DEF Lost
  <2>4. CASE HealthAnswer
    <3>1. PICK verdict \in Verdicts :
             Advance(IF verdict = "requires_login" THEN LoggedOut(account, health.asks)
                     ELSE account, health.todo, health.seen)
      BY <2>4 DEF HealthAnswer
    <3>2. CASE a \in health.todo \ health.seen
      BY <3>2 DEF OldHealth
    <3>3. CASE a \notin health.todo \ health.seen
      <4>1. verdict = "requires_login" /\ ~LoggedOut(account, health.asks)[a].ok
        BY <1>1, <2>0, <3>1, <3>3, AdvanceLoses DEF Lost
      <4>2. health.asks = a
        BY <1>1, <2>0, <4>1 DEF LoggedOut, Lost, AuthTypeOK
      <4>3. health.tok \notin alive
        BY <4>1 DEF Verdicts
      <4> QED
        BY <1>1, <4>2, <4>3 DEF OldHealth, Lost
    <3> QED
      BY <3>2, <3>3
  <2>5. ~Revoke /\ ~Restart /\ ~UNCHANGED vars
    BY <2>0 DEF Revoke, Restart, vars
  <2> QED
    BY <1>1, <2>1, <2>2, <2>3, <2>4, <2>5 DEF Next
<1>2. TokenInv /\ [Next]_vars =>
        [\A a \in Rows :
           /\ account[a].ok
           /\ account[a].token \in alive
           /\ account'[a].user # NoUser
           /\ ~account'[a].ok
           => OldHealth(a) \/ \E j \in Jobs : OldToken(j, a)]_vars
  BY <1>1 DEF Lost
<1> QED
  BY <1>2, TokensHold, PTL DEF Spec, LoginsLostToStaleEvidence
=============================================================================
