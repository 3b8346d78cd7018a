------------------------- MODULE UserSettings_proofs -------------------------
(***************************************************************************)
(* Proofs about UserSettings for any names, passwords, keys and number of  *)
(* keychain jobs.  What holds once the jobs are done must be said of what  *)
(* the jobs still under way will leave in the wallet (Ends): StoreInv says *)
(* it of the users and of the keys no user has, ServeInv of what the       *)
(* server has read so far, unless it has been or will be told to restart.  *)
(***************************************************************************)
EXTENDS UserSettings, SequenceTheorems, NaturalsInduction, WellFoundedInduction, TLAPS

Values == Passwords \cup {NoPassword}
Jobs == [key : Keys, password : Values]

Typed ==
  /\ key \in [Users -> Keys] /\ users \subseteq Users
  /\ wallet \in [Keys -> Values]
  /\ jobs \in Seq(Jobs) /\ Len(jobs) <= MaxJobs
  /\ checked \in BOOLEAN /\ warning \in BOOLEAN /\ checking \in BOOLEAN
  /\ failed \in BOOLEAN /\ mixed \in BOOLEAN /\ stale \in BOOLEAN
  /\ request \in {"none", "start", "stop", "restart"}
  /\ server \in {"off", "reading", "on"} /\ reading \subseteq Users
  /\ served \in [Users -> Values] /\ intended \in [Users -> Values]

\* When the jobs are done the wallet has p under k.
Ends(k, p) ==
  \/ wallet[k] = p /\ \A i \in DOMAIN jobs : jobs[i].key # k
  \/ \E i \in DOMAIN jobs : /\ jobs[i].key = k /\ jobs[i].password = p
                            /\ \A j \in DOMAIN jobs : i < j => jobs[j].key # k

\* What the wallet will have, for those who have a user and for the others.
StoreInv ==
  /\ \A u \in Users : u \notin users => intended[u] = NoPassword
  /\ ~failed => \A k \in Keys : Ends(k, NoPassword) \/ \E u \in users : key[u] = k
  /\ ~failed /\ ~mixed =>
       /\ \A u \in users, k \in Keys, p \in Values :
            k = key[u] /\ p = intended[u] => Ends(k, p)
       /\ \A u, v \in users : key[u] = key[v] => u = v

\* What the server has, unless it stops or the settings ask to restart it.
ServeInv ==
  /\ server # "reading" => reading = {}
  /\ ~failed /\ ~mixed /\ ~stale =>
       \/ server = "off" \/ warning \/ request \in {"stop", "restart"}
       \/ reading \subseteq users /\ \A u \in Users \ reading : served[u] = intended[u]

IInv == Typed /\ StoreInv /\ ServeInv

-----------------------------------------------------------------------------
(* Jobs.                                                                    *)

\* Jobs that are started leave a key as it was, or as the last of them leaves it.
LEMMA Started ==
  ASSUME Typed, NEW js \in Seq(Jobs), jobs' = jobs \o js, UNCHANGED wallet
  PROVE  /\ \A k, p : Ends(k, p) /\ (\A i \in DOMAIN js : js[i].key # k) => Ends(k, p)'
         /\ \A k, p : (\E i \in DOMAIN js :
                         /\ js[i].key = k /\ js[i].password = p
                         /\ \A j \in DOMAIN js : i < j => js[j].key # k) => Ends(k, p)'
<1> DEFINE n == Len(jobs)
           m == Len(js)
<1>1. jobs \in Seq(Jobs) /\ n \in Nat /\ m \in Nat /\ DOMAIN jobs = 1..n /\ DOMAIN js = 1..m
  BY LenProperties DEF Typed
<1>2. /\ Len(jobs') = n + m /\ jobs' \in Seq(Jobs)
      /\ \A i \in 1..(n + m) : jobs'[i] = IF i <= n THEN jobs[i] ELSE js[i - n]
  BY <1>1, ConcatProperties
<1>3. DOMAIN jobs' = 1..(n + m)
  BY <1>2, LenProperties
<1> HIDE DEF n, m
<1>4. \A i \in DOMAIN jobs : i \in DOMAIN jobs' /\ jobs'[i] = jobs[i]
  BY <1>1, <1>2, <1>3
<1>5. \A i \in DOMAIN js : n + i \in DOMAIN jobs' /\ jobs'[n + i] = js[i]
  BY <1>1, <1>2, <1>3
<1>6. ASSUME NEW i \in DOMAIN jobs'
      PROVE  i \in DOMAIN jobs \/ (i - n \in DOMAIN js /\ jobs'[i] = js[i - n])
  BY <1>1, <1>2, <1>3
<1>7. ASSUME NEW k, NEW p, Ends(k, p), \A i \in DOMAIN js : js[i].key # k
      PROVE  Ends(k, p)'
  <2>1. CASE wallet[k] = p /\ \A i \in DOMAIN jobs : jobs[i].key # k
    <3>1. \A i \in DOMAIN jobs' : jobs'[i].key # k
      BY <2>1, <1>4, <1>6, <1>7
    <3> QED
      BY <2>1, <3>1 DEF Ends
  <2>2. CASE \E i \in DOMAIN jobs : /\ jobs[i].key = k /\ jobs[i].password = p
                                    /\ \A j \in DOMAIN jobs : i < j => jobs[j].key # k
    <3>1. PICK i \in DOMAIN jobs : /\ jobs[i].key = k /\ jobs[i].password = p
                                   /\ \A j \in DOMAIN jobs : i < j => jobs[j].key # k
      BY <2>2
    <3>2. \A j \in DOMAIN jobs' : i < j => jobs'[j].key # k
      BY <3>1, <1>4, <1>6, <1>7
    <3> QED
      BY <3>1, <3>2, <1>4 DEF Ends
  <2> QED
    BY <1>7, <2>1, <2>2 DEF Ends
<1>8. ASSUME NEW k, NEW p, NEW i \in DOMAIN js, js[i].key = k, js[i].password = p,
             \A j \in DOMAIN js : i < j => js[j].key # k
      PROVE  Ends(k, p)'
  <2>1. n + i \in DOMAIN jobs' /\ jobs'[n + i] = js[i]
    BY <1>5
  <2>2. ASSUME NEW j \in DOMAIN jobs', n + i < j PROVE jobs'[j].key # k
    <3>1. j - n \in DOMAIN js /\ i < j - n /\ jobs'[j] = js[j - n]
      BY <1>1, <1>2, <1>3, <2>2
    <3> QED
      BY <3>1, <1>8
  <2> QED
    BY <1>8, <2>1, <2>2 DEF Ends
<1> QED
  BY <1>7, <1>8

\* A job that succeeds leaves what the wallet ends with.
LEMMA Done ==
  ASSUME Typed, jobs # <<>>, jobs' = Tail(jobs),
         wallet' = [wallet EXCEPT ![Head(jobs).key] = Head(jobs).password]
  PROVE  \A k \in Keys : \A p : Ends(k, p) => Ends(k, p)'
<1> DEFINE n == Len(jobs)
           h == Head(jobs)
<1>1. jobs \in Seq(Jobs) /\ n \in Nat \ {0} /\ DOMAIN jobs = 1..n
  BY LenProperties, EmptySeq DEF Typed
<1>2. /\ h \in Jobs /\ jobs' \in Seq(Jobs) /\ Len(jobs') = n - 1
      /\ \A i \in 1..Len(jobs') : jobs'[i] = jobs[i + 1]
  BY <1>1, HeadTailProperties
<1>3. h = jobs[1]
  BY <1>1
<1>4. DOMAIN jobs' = 1..(n - 1)
  BY <1>1, <1>2, LenProperties
<1>5. wallet \in [Keys -> Values] /\ h.key \in Keys
  BY <1>2 DEF Typed, Jobs
<1> HIDE DEF n, h
<1>6. \A i \in DOMAIN jobs' : i + 1 \in DOMAIN jobs /\ jobs'[i] = jobs[i + 1] /\ i \in Nat
  BY <1>1, <1>2, <1>4
<1>7. \A i \in DOMAIN jobs : i = 1 \/ (i - 1 \in DOMAIN jobs' /\ jobs'[i - 1] = jobs[i])
  BY <1>1, <1>2, <1>4
<1>8. ASSUME NEW k \in Keys, NEW p, Ends(k, p) PROVE Ends(k, p)'
  <2>1. wallet'[k] = IF k = h.key THEN h.password ELSE wallet[k]
    BY <1>5 DEF h
  <2>2. CASE wallet[k] = p /\ \A i \in DOMAIN jobs : jobs[i].key # k
    <3>1. \A i \in DOMAIN jobs' : jobs'[i].key # k
      BY <2>2, <1>6
    <3>2. h.key # k
      BY <2>2, <1>1, <1>3
    <3> QED
      BY <2>1, <2>2, <3>1, <3>2 DEF Ends
  <2>3. ASSUME NEW i \in DOMAIN jobs, jobs[i].key = k, jobs[i].password = p,
               \A j \in DOMAIN jobs : i < j => jobs[j].key # k
        PROVE  Ends(k, p)'
    <3>1. CASE i = 1
      <4>1. \A j \in DOMAIN jobs' : jobs'[j].key # k
        <5>1. \A j \in DOMAIN jobs' : 1 < j + 1
          BY <1>4
        <5> QED
          BY <5>1, <2>3, <3>1, <1>6
      <4>2. wallet'[k] = p
        BY <2>1, <2>3, <3>1, <1>3
      <4> QED
        BY <4>1, <4>2 DEF Ends
    <3>2. CASE i # 1
      <4>1. i - 1 \in DOMAIN jobs' /\ jobs'[i - 1] = jobs[i] /\ i \in Nat
        BY <1>1, <1>7, <3>2
      <4>2. ASSUME NEW j \in DOMAIN jobs', i - 1 < j PROVE jobs'[j].key # k
        <5>1. j + 1 \in DOMAIN jobs /\ i < j + 1 /\ jobs'[j] = jobs[j + 1]
          BY <1>6, <4>1, <4>2
        <5> QED
          BY <5>1, <2>3
      <4> QED
        BY <4>1, <4>2, <2>3 DEF Ends
    <3> QED
      BY <3>1, <3>2
  <2> QED
    BY <1>8, <2>2, <2>3 DEF Ends
<1> QED
  BY <1>8

\* Of some jobs one is the last.
LEMMA LastOf ==
  ASSUME Typed, NEW S, S \subseteq DOMAIN jobs, S # {}
  PROVE  Max(S) \in S
<1> DEFINE n == Len(jobs)
           R == {n - i : i \in S}
<1>1. n \in Nat /\ DOMAIN jobs = 1..n
  BY LenProperties DEF Typed
<1> HIDE DEF n
<1>2. R \subseteq Nat /\ R # {}
  BY <1>1
<1>3. PICK r \in R : \A y \in R : <<y, r>> \notin OpToRel(<, Nat)
  BY <1>2, NatLessThanWellFounded, WFMin
<1>4. ASSUME NEW y \in R PROVE r <= y
  <2>1. y \in Nat /\ r \in Nat
    BY <1>2
  <2> HIDE DEF R
  <2>2. <<y, r>> \notin {p \in Nat \X Nat : p[1] < p[2]}
    BY <1>3 DEF OpToRel
  <2>3. <<y, r>> \in Nat \X Nat /\ <<y, r>>[1] = y /\ <<y, r>>[2] = r
    BY <2>1
  <2>4. ~ (y < r)
    BY <2>2, <2>3, Zenon
  <2> QED
    BY <2>1, <2>4
<1>5. PICK x \in S : r = n - x
  OBVIOUS
<1>6. \A y \in S : x >= y
  <2>1. SUFFICES ASSUME NEW y \in S PROVE x >= y
    OBVIOUS
  <2>2. n - y \in R
    OBVIOUS
  <2>3. n - x <= n - y
    BY <1>4, <1>5, <2>2
  <2>4. x \in Nat /\ y \in Nat
    BY <1>1
  <2> QED
    BY <1>1, <2>3, <2>4
<1> QED
  BY <1>6 DEF Max

\* What the wallet will hold for a user is a password or none.
LEMMA StoredTyped ==
  ASSUME Typed, NEW u \in Users
  PROVE  Stored(u) \in Values
<1> DEFINE mine == {i \in DOMAIN jobs : jobs[i].key = key[u]}
<1>1. mine # {} => Max(mine) \in DOMAIN jobs
  BY LastOf
<1>2. \A i \in DOMAIN jobs : jobs[i].password \in Values
  <2>1. \A i \in DOMAIN jobs : jobs[i] \in Jobs
    BY LenProperties, ElementOfSeq DEF Typed
  <2> QED
    BY <2>1 DEF Jobs
<1>3. wallet[key[u]] \in Values
  BY DEF Typed
<1>4. Stored(u) = IF mine = {} THEN wallet[key[u]] ELSE jobs[Max(mine)].password
  BY DEF Stored
<1> HIDE DEF mine
<1> QED
  BY <1>1, <1>2, <1>3, <1>4

\* It is what the wallet ends with.
LEMMA StoredIs ==
  ASSUME Typed, NEW u \in Users, NEW p, Ends(key[u], p)
  PROVE  Stored(u) = p
<1> DEFINE mine == {i \in DOMAIN jobs : jobs[i].key = key[u]}
<1>1. Stored(u) = IF mine = {} THEN wallet[key[u]] ELSE jobs[Max(mine)].password
  BY DEF Stored
<1>2. CASE wallet[key[u]] = p /\ \A i \in DOMAIN jobs : jobs[i].key # key[u]
  BY <1>1, <1>2
<1>3. ASSUME NEW i \in DOMAIN jobs, jobs[i].key = key[u], jobs[i].password = p,
             \A j \in DOMAIN jobs : i < j => jobs[j].key # key[u]
      PROVE  Stored(u) = p
  <2>1. DOMAIN jobs \subseteq Nat
    BY LenProperties DEF Typed
  <2>2. i \in mine /\ \A j \in mine : i >= j
    BY <1>3, <2>1
  <2> HIDE DEF mine
  <2>3. ASSUME NEW x \in mine, \A j \in mine : x >= j PROVE x = i
    <3>1. x \in Nat /\ i \in Nat
      BY <2>1 DEF mine
    <3> QED
      BY <3>1, <2>2, <2>3
  <2>4. Max(mine) = i
    BY <2>2, <2>3 DEF Max
  <2> QED
    BY <1>1, <1>3, <2>2, <2>4
<1> QED
  BY <1>2, <1>3 DEF Ends

\* One job is started.
LEMMA OneJob ==
  ASSUME Typed, NEW u \in Users, NEW k \in Keys, k = key[u], NEW p \in Values,
         Start(<<Job(u, p)>>), UNCHANGED wallet
  PROVE  /\ jobs' \in Seq(Jobs) /\ Len(jobs') <= MaxJobs
         /\ \A l, q : Ends(l, q) /\ l # k => Ends(l, q)'
         /\ Ends(k, p)'
<1>1. Job(u, p) \in Jobs /\ Job(u, p).key = k /\ Job(u, p).password = p
  BY DEF Job, Jobs, Typed
<1> DEFINE js == <<Job(u, p)>>
<1>2. js \in Seq(Jobs)
  BY <1>1
<1>3. /\ DOMAIN js = {1} /\ Len(js) = 1
      /\ js[1].key = k /\ js[1].password = p
  BY <1>1
<1>4. jobs' = jobs \o js /\ Len(jobs) + Len(js) <= MaxJobs
  BY DEF Start
<1> HIDE DEF js
<1>5. \A l, q : Ends(l, q) /\ (\A i \in DOMAIN js : js[i].key # l) => Ends(l, q)'
  BY <1>2, <1>4, Started
<1>6. \A l, q : (\E i \in DOMAIN js :
                   /\ js[i].key = l /\ js[i].password = q
                   /\ \A j \in DOMAIN js : i < j => js[j].key # l) => Ends(l, q)'
  BY <1>2, <1>4, Started
<1>7. jobs' \in Seq(Jobs) /\ Len(jobs') <= MaxJobs
  BY <1>2, <1>3, <1>4, ConcatProperties DEF Typed
<1>8. Ends(k, p)'
  BY <1>3, <1>6
<1> QED
  BY <1>3, <1>5, <1>7, <1>8

\* A password is deleted and another written.
LEMMA TwoJobs ==
  ASSUME Typed, NEW u \in Users, NEW v \in Users, NEW p \in Values,
         NEW k \in Keys, k = key[u], NEW l \in Keys, l = key[v],
         Start(<<Job(u, NoPassword)>> \o <<Job(v, p)>>), UNCHANGED wallet
  PROVE  /\ jobs' \in Seq(Jobs) /\ Len(jobs') <= MaxJobs
         /\ \A m, q : Ends(m, q) /\ m \notin {k, l} => Ends(m, q)'
         /\ k # l => Ends(k, NoPassword)'
         /\ Ends(l, p)'
<1> DEFINE a == Job(u, NoPassword)
           b == Job(v, p)
<1>1. /\ a \in Jobs /\ a.key = k /\ a.password = NoPassword
      /\ b \in Jobs /\ b.key = l /\ b.password = p
  BY DEF Job, Jobs, Typed, Values
<1>2. Start(<<a>> \o <<b>>)
  OBVIOUS
<1> HIDE DEF a, b
<1> DEFINE js == <<a>> \o <<b>>
<1>3. js \in Seq(Jobs) /\ Len(js) = 2 /\ js[1] = a /\ js[2] = b
  BY <1>1, ConcatProperties
<1>4. jobs' = jobs \o js /\ Len(jobs) + Len(js) <= MaxJobs
  BY <1>2 DEF Start
<1> HIDE DEF js
<1>5. /\ DOMAIN js = {1, 2}
      /\ js[1].key = k /\ js[1].password = NoPassword
      /\ js[2].key = l /\ js[2].password = p
  BY <1>1, <1>3, LenProperties
<1>7. \A m, q : Ends(m, q) /\ (\A i \in DOMAIN js : js[i].key # m) => Ends(m, q)'
  BY <1>3, <1>4, Started
<1>8. \A m, q : (\E i \in DOMAIN js :
                   /\ js[i].key = m /\ js[i].password = q
                   /\ \A j \in DOMAIN js : i < j => js[j].key # m) => Ends(m, q)'
  BY <1>3, <1>4, Started
<1>9. jobs' \in Seq(Jobs) /\ Len(jobs') <= MaxJobs
  BY <1>3, <1>4, ConcatProperties DEF Typed
<1>10. Ends(l, p)'
  BY <1>5, <1>8
<1>11. k # l => Ends(k, NoPassword)'
  BY <1>5, <1>8
<1> QED
  BY <1>5, <1>7, <1>9, <1>10, <1>11

\* What the dialog saves is a password.
LEMMA TextsTyped ==
  ASSUME Typed, NEW u \in Users, NEW typed \in Passwords, NEW text \in Texts(u, typed)
  PROVE  text \in Values /\ text # NoPassword
BY StoredTyped DEF Texts, Values

\* Saving the list of users with new jobs and passwords keeps the types.
LEMMA SavedTyped ==
  ASSUME Typed, NEW us \in SUBSET Users, save(us),
         jobs' \in Seq(Jobs), Len(jobs') <= MaxJobs,
         intended' \in [Users -> Values], mixed' \in BOOLEAN
  PROVE  Typed'
BY DEF Typed, save, service, Warns

\* After a save the server is off, to be restarted, or the history says why not.
LEMMA SavedServes ==
  ASSUME IInv, NEW us, save(us)
  PROVE  ServeInv'
BY DEF IInv, ServeInv, save, service, Warns

-----------------------------------------------------------------------------
(* Every step keeps the invariant.                                          *)

\* A password is written, of a new user or of an old one.
LEMMA WriteKeeps ==
  ASSUME IInv, NEW u \in Users, NEW text \in Values, NEW typed \in Passwords,
         Start(writePasswordToWallet(u, text)), save(users \cup {u}),
         intended' = [intended EXCEPT ![u] = typed],
         mixed' = (mixed \/ text # typed \/ SharesKey(u, users))
  PROVE  IInv'
<1>1. /\ Typed /\ StoreInv /\ users' = users \cup {u}
      /\ Start(<<Job(u, text)>>) /\ UNCHANGED <<key, wallet, failed>> /\ typed \in Values
  BY DEF IInv, save, writePasswordToWallet, Values
<1>2. PICK k \in Keys : k = key[u]
  BY <1>1 DEF Typed
<1>3. /\ jobs' \in Seq(Jobs) /\ Len(jobs') <= MaxJobs
      /\ \A l, q : Ends(l, q) /\ l # k => Ends(l, q)'
      /\ Ends(k, text)'
  BY <1>1, <1>2, OneJob
<1>4. Typed'
  BY <1>1, <1>3, SavedTyped DEF Typed
<1>5. \A v \in Users : intended'[v] = IF v = u THEN typed ELSE intended[v]
  BY <1>1 DEF Typed
<1>6. \A v \in Users : v \notin users' => intended'[v] = NoPassword
  BY <1>1, <1>5 DEF StoreInv
<1>7. ASSUME ~failed', NEW l \in Keys
      PROVE  Ends(l, NoPassword)' \/ \E v \in users' : key'[v] = l
  <2>1. CASE l = k
    BY <1>1, <1>2, <2>1
  <2>2. CASE l # k
    BY <1>1, <1>3, <1>7, <2>2 DEF StoreInv
  <2> QED
    BY <2>1, <2>2
<1>8. ASSUME ~failed', ~mixed'
      PROVE  /\ \A v \in users', l \in Keys, q \in Values :
                  l = key'[v] /\ q = intended'[v] => Ends(l, q)'
             /\ \A v, w \in users' : key'[v] = key'[w] => v = w
  <2>1. /\ \A v \in users, l \in Keys, q \in Values :
             l = key[v] /\ q = intended[v] => Ends(l, q)
        /\ \A v, w \in users : key[v] = key[w] => v = w
        /\ \A v \in users \ {u} : key[v] # k
        /\ users \subseteq Users /\ text = typed
    BY <1>1, <1>2, <1>8 DEF StoreInv, SharesKey, Typed
  <2>2. ASSUME NEW v \in users', NEW l \in Keys, NEW q \in Values,
               l = key'[v], q = intended'[v]
        PROVE  Ends(l, q)'
    <3>1. CASE v = u
      BY <1>1, <1>2, <1>3, <1>5, <2>1, <2>2, <3>1
    <3>2. CASE v # u
      <4>1. v \in users /\ q = intended[v] /\ l = key[v] /\ l # k
        BY <1>1, <1>5, <2>1, <2>2, <3>2
      <4> QED
        BY <1>3, <2>1, <4>1
    <3> QED
      BY <3>1, <3>2
  <2> QED
    BY <1>1, <1>2, <2>1, <2>2
<1> QED
  BY <1>1, <1>4, <1>6, <1>7, <1>8, SavedServes DEF StoreInv, IInv

\* A new user's password is written.
LEMMA AddKeeps ==
  ASSUME IInv, NEW u \in Users, NEW p \in Passwords, AddUser(u, p)
  PROVE  IInv'
<1>1. p \in Values /\ mixed' = (mixed \/ p # p \/ SharesKey(u, users))
  BY DEF AddUser, Values
<1> QED
  BY <1>1, WriteKeeps DEF AddUser

\* A user's password is written again, the typed one or the stored one.
LEMMA ChangeKeeps ==
  ASSUME IInv, NEW u \in Users, NEW p \in Passwords, ChangePassword(u, p)
  PROVE  IInv'
<1>1. PICK text \in Texts(u, p) :
        /\ Start(writePasswordToWallet(u, text))
        /\ mixed' = (mixed \/ text # p \/ SharesKey(u, users))
  BY DEF ChangePassword
<1>2. text \in Values
  BY TextsTyped DEF IInv
<1>3. save(users \cup {u})
  <2>1. users = users \cup {u}
    BY DEF ChangePassword
  <2> QED
    BY <2>1 DEF ChangePassword
<1> QED
  BY <1>1, <1>2, <1>3, WriteKeeps DEF ChangePassword

\* A user goes and the password is deleted; the others have other keys, or are mixed up.
LEMMA DeleteKeeps ==
  ASSUME IInv, NEW u \in Users, DeleteUser(u)
  PROVE  IInv'
<1>1. /\ Typed /\ StoreInv /\ u \in users /\ users' = users \ {u}
      /\ Start(<<Job(u, NoPassword)>>) /\ save(users \ {u})
      /\ intended' = [intended EXCEPT ![u] = NoPassword]
      /\ mixed' = (mixed \/ SharesKey(u, users))
      /\ UNCHANGED <<key, wallet, failed>> /\ NoPassword \in Values
  BY DEF IInv, DeleteUser, DeleteJobs, deletePasswordFromWallet, save, Values
<1>2. PICK k \in Keys : k = key[u]
  BY <1>1 DEF Typed
<1>3. /\ jobs' \in Seq(Jobs) /\ Len(jobs') <= MaxJobs
      /\ \A l, q : Ends(l, q) /\ l # k => Ends(l, q)'
      /\ Ends(k, NoPassword)'
  BY <1>1, <1>2, OneJob
<1>4. Typed'
  BY <1>1, <1>3, SavedTyped DEF Typed
<1>5. \A v \in Users : intended'[v] = IF v = u THEN NoPassword ELSE intended[v]
  BY <1>1 DEF Typed
<1>6. \A v \in Users : v \notin users' => intended'[v] = NoPassword
  BY <1>1, <1>5 DEF StoreInv
<1>7. ASSUME ~failed', NEW l \in Keys
      PROVE  Ends(l, NoPassword)' \/ \E v \in users' : key'[v] = l
  <2>1. CASE l = k
    BY <1>3, <2>1
  <2>2. CASE l # k
    <3>1. Ends(l, NoPassword) \/ \E v \in users : key[v] = l
      BY <1>1, <1>7 DEF StoreInv
    <3> QED
      BY <1>1, <1>2, <1>3, <2>2, <3>1
  <2> QED
    BY <2>1, <2>2
<1>8. ASSUME ~failed', ~mixed'
      PROVE  /\ \A v \in users', l \in Keys, q \in Values :
                  l = key'[v] /\ q = intended'[v] => Ends(l, q)'
             /\ \A v, w \in users' : key'[v] = key'[w] => v = w
  <2>1. /\ \A v \in users, l \in Keys, q \in Values :
             l = key[v] /\ q = intended[v] => Ends(l, q)
        /\ \A v, w \in users : key[v] = key[w] => v = w
        /\ \A v \in users \ {u} : key[v] # k
        /\ users \subseteq Users
    BY <1>1, <1>2, <1>8 DEF StoreInv, SharesKey, Typed
  <2>2. ASSUME NEW v \in users', NEW l \in Keys, NEW q \in Values,
               l = key'[v], q = intended'[v]
        PROVE  Ends(l, q)'
    <3>1. v \in users /\ q = intended[v] /\ l = key[v] /\ l # k
      BY <1>1, <1>5, <2>1, <2>2
    <3> QED
      BY <1>3, <2>1, <3>1
  <2> QED
    BY <1>1, <2>1, <2>2
<1> QED
  BY <1>1, <1>4, <1>6, <1>7, <1>8, SavedServes DEF StoreInv, IInv

\* The old name's password is deleted before the new name's is written, so that
\* it is there afterwards although both may have the same key.
LEMMA RenameKeeps ==
  ASSUME IInv, NEW old \in Users, NEW new \in Users, NEW typed \in Passwords,
         RenameUser(old, new, typed)
  PROVE  IInv'
<1> DEFINE us == (users \ {old}) \cup {new}
<1>1. PICK text \in Texts(old, typed) :
        /\ Start(RenameJobs(old, new, text))
        /\ mixed' = (mixed \/ text # typed \/ SharesKey(old, users)
                           \/ SharesKey(new, users \ {old}))
  BY DEF RenameUser
<1>2. /\ Typed /\ StoreInv /\ old \in users /\ new \notin users /\ users' = us
      /\ save(us) /\ us \subseteq Users
      /\ intended' = [intended EXCEPT ![old] = NoPassword, ![new] = typed]
      /\ UNCHANGED <<key, wallet, failed>> /\ NoPassword \in Values /\ typed \in Values
  BY DEF IInv, RenameUser, save, Values, Typed
<1>3. text \in Values /\ Start(<<Job(old, NoPassword)>> \o <<Job(new, text)>>)
  BY <1>1, <1>2, TextsTyped
  DEF RenameJobs, deletePasswordFromWallet, writePasswordToWallet
<1>4. PICK k \in Keys : k = key[old]
  BY <1>2 DEF Typed
<1>5. PICK l \in Keys : l = key[new]
  BY <1>2 DEF Typed
<1>6. /\ jobs' \in Seq(Jobs) /\ Len(jobs') <= MaxJobs
      /\ \A m, q : Ends(m, q) /\ m \notin {k, l} => Ends(m, q)'
      /\ k # l => Ends(k, NoPassword)'
      /\ Ends(l, text)'
  BY <1>2, <1>3, <1>4, <1>5, TwoJobs
<1>7. Typed'
  BY <1>1, <1>2, <1>6, SavedTyped DEF Typed
<1>8. \A v \in Users : intended'[v] = IF v = new THEN typed
                                      ELSE IF v = old THEN NoPassword ELSE intended[v]
  BY <1>2 DEF Typed
<1>9. \A v \in Users : v \notin users' => intended'[v] = NoPassword
  BY <1>2, <1>8 DEF StoreInv
<1>10. ASSUME ~failed', NEW m \in Keys
       PROVE  Ends(m, NoPassword)' \/ \E v \in users' : key'[v] = m
  <2>1. CASE m = l
    BY <1>2, <1>5, <2>1
  <2>2. CASE m = k /\ k # l
    BY <1>6, <2>2
  <2>3. CASE m \notin {k, l}
    <3>1. Ends(m, NoPassword) \/ \E v \in users : key[v] = m
      BY <1>2, <1>10 DEF StoreInv
    <3> QED
      BY <1>2, <1>4, <1>6, <2>3, <3>1
  <2> QED
    BY <2>1, <2>2, <2>3
<1>11. ASSUME ~failed', ~mixed'
       PROVE  /\ \A v \in users', m \in Keys, q \in Values :
                   m = key'[v] /\ q = intended'[v] => Ends(m, q)'
              /\ \A v, w \in users' : key'[v] = key'[w] => v = w
  <2>1. /\ \A v \in users, m \in Keys, q \in Values :
             m = key[v] /\ q = intended[v] => Ends(m, q)
        /\ \A v, w \in users : key[v] = key[w] => v = w
        /\ \A v \in users \ {old} : key[v] # k /\ (v # new => key[v] # l)
        /\ users \subseteq Users /\ text = typed
    BY <1>1, <1>2, <1>4, <1>5, <1>11 DEF StoreInv, SharesKey, Typed
  <2>2. ASSUME NEW v \in users', NEW m \in Keys, NEW q \in Values,
               m = key'[v], q = intended'[v]
        PROVE  Ends(m, q)'
    <3>1. CASE v = new
      <4>1. m = l /\ q = typed
        BY <1>2, <1>5, <1>8, <2>2, <3>1
      <4> QED
        BY <1>6, <2>1, <4>1
    <3>2. CASE v # new
      <4>1. v \in users \ {old} /\ q = intended[v] /\ m = key[v]
        BY <1>2, <1>8, <2>1, <2>2, <3>2
      <4>2. m \notin {k, l}
        BY <2>1, <3>2, <4>1
      <4> QED
        BY <1>6, <2>1, <4>1, <4>2
    <3> QED
      BY <3>1, <3>2
  <2>3. ASSUME NEW v \in users', NEW w \in users', key'[v] = key'[w] PROVE v = w
    BY <1>2, <1>5, <2>1, <2>3
  <2> QED
    BY <2>2, <2>3
<1> QED
  BY <1>2, <1>7, <1>9, <1>10, <1>11, SavedServes DEF StoreInv, IInv

\* A job that succeeds changes nothing in what the wallet ends with; one that
\* fails is remembered.
LEMMA JobKeeps ==
  ASSUME IInv, JobEnds
  PROVE  IInv'
<1>1. /\ Typed /\ StoreInv /\ ServeInv /\ jobs # <<>> /\ jobs' = Tail(jobs)
      /\ UNCHANGED <<key, users, intended, mixed, checked, warning, checking, request,
                     server, reading, served, stale>>
  BY DEF IInv, JobEnds, interface, service
<1>2. /\ Head(jobs) \in Jobs /\ jobs' \in Seq(Jobs) /\ Len(jobs') <= MaxJobs
  <2>1. Len(jobs) \in Nat
    BY <1>1, LenProperties DEF Typed
  <2>2. Head(jobs) \in Jobs /\ jobs' \in Seq(Jobs) /\ Len(jobs') = Len(jobs) - 1
    BY <1>1, HeadTailProperties DEF Typed
  <2> QED
    BY <1>1, <2>1, <2>2, SettingsAssumption DEF Typed
<1>3. CASE wallet' = [wallet EXCEPT ![Head(jobs).key] = Head(jobs).password]
           /\ UNCHANGED failed
  <2>1. \A k \in Keys : \A p : Ends(k, p) => Ends(k, p)'
    BY <1>1, <1>3, Done
  <2>2. wallet' \in [Keys -> Values]
    BY <1>1, <1>2, <1>3 DEF Typed, Jobs
  <2>3. Typed'
    BY <1>1, <1>2, <1>3, <2>2 DEF Typed
  <2>4. StoreInv'
    BY <1>1, <1>3, <2>1 DEF StoreInv
  <2>5. ServeInv'
    BY <1>1, <1>3 DEF ServeInv
  <2> QED
    BY <2>3, <2>4, <2>5 DEF IInv
<1>4. CASE failed' = TRUE /\ UNCHANGED wallet
  <2>1. Typed'
    BY <1>1, <1>2, <1>4 DEF Typed
  <2>2. StoreInv' /\ ServeInv'
    BY <1>1, <1>4 DEF StoreInv, ServeInv
  <2> QED
    BY <2>1, <2>2 DEF IInv
<1> QED
  BY <1>3, <1>4 DEF JobEnds

\* What neither writes nor reads the wallet keeps StoreInv.
LEMMA StoreKept ==
  ASSUME StoreInv, UNCHANGED store
  PROVE  StoreInv'
BY DEF StoreInv, store, Ends

\* The switch, the warning and what systemd was asked.
LEMMA InterfaceKeeps ==
  ASSUME IInv, ToggleServer \/ RestartServer \/ ServerRunning
  PROVE  IInv'
<1>1. Typed /\ StoreInv /\ ServeInv /\ UNCHANGED <<store, service>>
  BY DEF IInv, ToggleServer, RestartServer, ServerRunning
<1>2. StoreInv'
  BY <1>1, StoreKept
<1>3. Typed'
  BY <1>1 DEF Typed, store, service, ToggleServer, RestartServer, ServerRunning, Ask
<1>4. ServeInv'
  <2>1. CASE ToggleServer
    BY <1>1, <2>1 DEF ServeInv, Typed, store, service, ToggleServer, Ask
  <2>2. CASE RestartServer
    BY <1>1, <2>2 DEF ServeInv, Typed, store, service, RestartServer, Ask
  <2>3. CASE ServerRunning
    BY <1>1, <2>3 DEF ServeInv, Typed, store, service, ServerRunning
  <2> QED
    BY <2>1, <2>2, <2>3
<1> QED
  BY <1>2, <1>3, <1>4 DEF IInv

\* A server that starts reads the names as they are saved.
LEMMA SystemdKeeps ==
  ASSUME IInv, Systemd \/ ServerReady
  PROVE  IInv'
<1>1. Typed /\ StoreInv /\ ServeInv /\ UNCHANGED <<store, stale, warning, checked>>
  BY DEF IInv, Systemd, ServerReady, interface
<1>2. StoreInv'
  BY <1>1, StoreKept
<1>3. Nobody \in [Users -> Values] /\ \A u \in Users : Nobody[u] = NoPassword
  BY DEF Nobody, Values
<1>4. Typed'
  BY <1>1, <1>3 DEF Typed, store, service, interface, main, Systemd, ServerReady
<1>5. main /\ request' = "none" => ServeInv'
  BY <1>1, <1>3 DEF ServeInv, StoreInv, Typed, main, store
<1>6. UNCHANGED service /\ request = "start" /\ request' = "none" => ServeInv'
  BY <1>1 DEF ServeInv, Typed, store, service
<1>7. server' = "off" /\ reading' = {} => ServeInv'
  BY DEF ServeInv
<1>8. ServerReady => ServeInv'
  BY <1>1 DEF ServeInv, Typed, store, interface, ServerReady
<1>9. ServeInv'
  BY <1>5, <1>6, <1>7, <1>8 DEF Systemd
<1> QED
  BY <1>2, <1>4, <1>9 DEF IInv

\* A password read while no job will change it is what was intended.
LEMMA ReadsKeeps ==
  ASSUME IInv, NEW u \in Users, ServerReads(u)
  PROVE  IInv'
<1>1. /\ Typed /\ StoreInv /\ ServeInv /\ u \in reading
      /\ reading' = reading \ {u}
      /\ server' = IF reading' = {} THEN "on" ELSE "reading"
      /\ \/ served' = [served EXCEPT ![u] = wallet[key[u]]] /\ UNCHANGED failed
         \/ failed' = TRUE /\ UNCHANGED served
      /\ stale' = (stale \/ Stored(u) # wallet[key[u]])
      /\ UNCHANGED <<checked, warning, checking, request, key, users, wallet, jobs, intended,
                     mixed>>
  BY DEF IInv, ServerReads, interface
<1>2. key[u] \in Keys /\ wallet[key[u]] \in Values /\ intended[u] \in Values
  BY <1>1 DEF Typed
<1>3. Typed'
  BY <1>1, <1>2 DEF Typed
<1>4. StoreInv'
  BY <1>1 DEF StoreInv, Ends, Typed
<1>5. ASSUME ~failed', ~mixed', ~stale'
      PROVE  \/ server' = "off" \/ warning' \/ request' \in {"stop", "restart"}
             \/ /\ reading' \subseteq users'
                /\ \A v \in Users \ reading' : served'[v] = intended'[v]
  <2>1. ~failed /\ ~mixed /\ ~stale /\ Stored(u) = wallet[key[u]]
    BY <1>1, <1>5 DEF Typed
  <2>2. CASE warning \/ request \in {"stop", "restart"}
    BY <1>1, <2>2
  <2>3. CASE reading \subseteq users /\ \A v \in Users \ reading : served[v] = intended[v]
    <3>1. Ends(key[u], intended[u])
      BY <1>1, <1>2, <2>1, <2>3 DEF StoreInv
    <3>2. wallet[key[u]] = intended[u]
      BY <1>1, <2>1, <3>1, StoredIs
    <3>3. \A v \in Users : served'[v] = IF v = u THEN intended[u] ELSE served[v]
      BY <1>1, <1>5, <3>2 DEF Typed
    <3> QED
      BY <1>1, <2>3, <3>3
  <2>4. server # "off"
    BY <1>1 DEF ServeInv
  <2> QED
    BY <1>1, <2>1, <2>2, <2>3, <2>4 DEF ServeInv
<1>6. ServeInv'
  BY <1>1, <1>5 DEF ServeInv
<1> QED
  BY <1>3, <1>4, <1>6 DEF IInv

-----------------------------------------------------------------------------
\* The settings as they are opened.
LEMMA InitInv == Init => IInv
<1> SUFFICES ASSUME Init PROVE IInv
  OBVIOUS
<1> DEFINE owner(k) == CHOOSE u \in users : key[u] = k
<1>1. /\ key \in [Users -> Keys] /\ intended \in [Users -> Values]
      /\ users = {u \in Users : intended[u] # NoPassword}
      /\ \A u, v \in users : key[u] = key[v] => u = v
      /\ wallet = [k \in Keys |-> IF \E u \in users : key[u] = k
                                    THEN intended[owner(k)] ELSE NoPassword]
      /\ jobs = <<>> /\ reading = {}
  BY DEF Init, Values
<1>2. \A k \in Keys : (\E u \in users : key[u] = k) => owner(k) \in users /\ key[owner(k)] = k
  OBVIOUS
<1> HIDE DEF owner
<1>3. wallet \in [Keys -> Values]
  BY <1>1, <1>2 DEF Values
<1>4. DOMAIN jobs = {} /\ jobs \in Seq(Jobs) /\ Len(jobs) <= MaxJobs
  BY <1>1, EmptySeq, SettingsAssumption
<1>5. Typed
  <2>1. Nobody \in [Users -> Values]
    BY DEF Nobody, Values
  <2>2. served \in [Users -> Values]
    BY <1>1, <2>1 DEF Init
  <2> QED
    BY <1>1, <1>3, <1>4, <2>2 DEF Init, Typed
<1>6. \A k, p : wallet[k] = p => Ends(k, p)
  BY <1>4 DEF Ends
<1>7. \A k \in Keys : Ends(k, NoPassword) \/ \E u \in users : key[u] = k
  BY <1>1, <1>6
<1>8. ASSUME NEW u \in users, NEW k \in Keys, NEW p \in Values, k = key[u], p = intended[u]
      PROVE  Ends(k, p)
  <2>1. owner(k) = u
    BY <1>1, <1>2, <1>8
  <2>2. wallet[k] = p
    BY <1>1, <1>8, <2>1
  <2> QED
    BY <1>6, <2>2
<1>9. StoreInv
  BY <1>1, <1>7, <1>8 DEF StoreInv
<1>10. ServeInv
  BY <1>1 DEF ServeInv, Init
<1> QED
  BY <1>5, <1>9, <1>10 DEF IInv

\* Each step keeps the invariant.
LEMMA NextInv == IInv /\ [Next]_vars => IInv'
<1> SUFFICES ASSUME IInv, [Next]_vars PROVE IInv'
  OBVIOUS
<1>1. ASSUME NEW u \in Users, NEW p \in Passwords, AddUser(u, p) PROVE IInv'
  BY <1>1, AddKeeps
<1>2. ASSUME NEW u \in Users, NEW p \in Passwords, ChangePassword(u, p) PROVE IInv'
  BY <1>2, ChangeKeeps
<1>3. ASSUME NEW u \in Users, NEW p \in Passwords, NEW v \in Users, RenameUser(u, v, p)
      PROVE  IInv'
  BY <1>3, RenameKeeps
<1>4. ASSUME NEW u \in Users, DeleteUser(u) PROVE IInv'
  BY <1>4, DeleteKeeps
<1>5. ASSUME NEW u \in Users, ServerReads(u) PROVE IInv'
  BY <1>5, ReadsKeeps
<1>6. CASE JobEnds
  BY <1>6, JobKeeps
<1>7. CASE ToggleServer \/ RestartServer \/ ServerRunning
  BY <1>7, InterfaceKeeps
<1>8. CASE Systemd \/ ServerReady
  BY <1>8, SystemdKeeps
<1>9. CASE UNCHANGED vars
  BY <1>9 DEF vars, store, interface, service, IInv, Typed, StoreInv, ServeInv, Ends
<1> QED
  BY <1>1, <1>2, <1>3, <1>4, <1>5, <1>6, <1>7, <1>8, <1>9 DEF Next

\* The invariant holds of the settings from their opening.
LEMMA AlwaysIInv == Spec => []IInv
  BY InitInv, NextInv, PTL DEF Spec

-----------------------------------------------------------------------------
\* Whatever is added, changed, renamed and deleted, and whenever the keychain's
\* jobs end (kcmkrdpserver.cpp:105-198): when they have, every user of the list has
\* the password given last, and nobody else has one; unless a job failed, the
\* stored password replaced a typed one, or users shared a key.
THEOREM AlwaysSettingsInv == Spec => []SettingsInv
<1>1. IInv => SettingsInv
  <2> SUFFICES ASSUME IInv PROVE SettingsInv
    OBVIOUS
  <2>1. TypeOK
    BY DEF IInv, Typed, TypeOK, Values, Jobs
  <2>2. ASSUME jobs = <<>>, ~failed, ~mixed, NEW u \in users
        PROVE  wallet[key[u]] = intended[u]
    <3>1. Ends(key[u], intended[u])
      BY <2>2 DEF IInv, StoreInv, Typed
    <3>2. DOMAIN jobs = {}
      BY <2>2
    <3> QED
      BY <3>1, <3>2 DEF Ends
  <2>3. StoredIsIntended
    BY <2>2 DEF StoredIsIntended, IInv, StoreInv
  <2> QED
    BY <2>1, <2>3 DEF SettingsInv
<1> QED
  BY AlwaysIInv, <1>1, PTL

\* Once the jobs are done and none failed, the wallet keeps no password of a
\* deleted or renamed user (kcmkrdpserver.cpp:128-141, 150-155), even where names
\* share a key.
THEOREM NoPasswordOrphaned == Spec => []NoOrphanPasswords
<1>1. IInv => NoOrphanPasswords
  <2> SUFFICES ASSUME IInv, jobs = <<>>, ~failed, NEW k \in Keys, wallet[k] # NoPassword
               PROVE  \E u \in users : key[u] = k
    BY DEF NoOrphanPasswords
  <2>1. DOMAIN jobs = {}
    OBVIOUS
  <2>2. ~Ends(k, NoPassword)
    BY <2>1 DEF Ends
  <2> QED
    BY <2>2 DEF IInv, StoreInv
<1> QED
  BY AlwaysIInv, <1>1, PTL

\* The server admits whom the settings show, unless they ask to restart it
\* (kcmkrdpserver.cpp:223-226, main.cpp:124-143).
THEOREM ServedAlwaysIntended == Spec => []ServedIsIntended
<1>1. IInv => ServedIsIntended
  <2> SUFFICES ASSUME IInv, server = "on", ~warning, request = "none", ~failed, ~mixed, ~stale
               PROVE  served = intended
    BY DEF ServedIsIntended
  <2>1. \A u \in Users : served[u] = intended[u]
    BY DEF IInv, ServeInv
  <2> QED
    BY <2>1 DEF IInv, Typed
<1> QED
  BY AlwaysIInv, <1>1, PTL
=============================================================================
