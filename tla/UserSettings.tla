----------------------------- MODULE UserSettings -----------------------------
(***************************************************************************)
(* The users that may log on: the settings module (src/kcm), which keeps   *)
(* their names in its configuration and their passwords in the wallet, and *)
(* krdpserver (server/main.cpp), which reads both when it starts.          *)
(*                                                                         *)
(* The list of names is saved at once.  The wallet is written by keychain  *)
(* jobs, run one after the other; error() of a job is only read when it    *)
(* has just been started, so that what fails later is never shown.  The    *)
(* wallet's key is the name in Latin-1, the same for names whose other     *)
(* characters differ.  systemd starts and stops the server; the switch in  *)
(* the interface follows by asynchronous questions.                        *)
(***************************************************************************)
EXTENDS Naturals, SequencesExt

CONSTANTS
  Users, Passwords, NoPassword,
  Keys,      \* the wallet's keys
  MaxJobs    \* bound: keychain jobs under way

ASSUME SettingsAssumption ==
  /\ NoPassword \notin Passwords
  /\ MaxJobs \in Nat

VARIABLES
  key,       \* the wallet's key of each name
  users,     \* settings: the names
  wallet,    \* external: the passwords stored
  jobs,      \* the keychain jobs not yet run
  checked,   \* the interface's switch
  warning,   \* restartServerWarning
  checking,  \* a serverRunning answer is under way
  request,   \* what systemd has been asked and has not done: none, start, stop, restart
  server,    \* off, reading or on
  reading,   \* the names whose password the server has still to read
  served,    \* Server's users: the password of each, NoPassword for those it has not
  intended,  \* history: the password the administrator gave each user
  failed,    \* history: a job failed
  mixed,     \* history: a password typed was replaced, or two users shared a key
  stale      \* history: the server read too early, the warning was left out, or
             \* switching on made systemd forget that it was to stop the server

store == <<key, users, wallet, jobs, intended, failed, mixed>>
interface == <<checked, warning, checking, request>>
service == <<server, reading, served>>
vars == <<store, interface, service, stale>>

Nobody == [u \in Users |-> NoPassword]

\* The settings are opened with stored users, while the server runs or not.
Init ==
  /\ key \in [Users -> Keys]
  /\ intended \in [Users -> Passwords \cup {NoPassword}]
  /\ users = {u \in Users : intended[u] # NoPassword}
  /\ \A u, v \in users : key[u] = key[v] => u = v
  /\ wallet = [k \in Keys |->
                 IF \E u \in users : key[u] = k
                   THEN intended[CHOOSE u \in users : key[u] = k] ELSE NoPassword]
  /\ jobs = <<>>
  /\ checked = FALSE /\ warning = FALSE /\ checking = TRUE /\ request = "none"
  /\ \/ server = "off" /\ served = Nobody
     \/ server = "on" /\ served = intended
  /\ reading = {}
  /\ failed = FALSE /\ mixed = FALSE /\ stale = FALSE

-----------------------------------------------------------------------------
(* The keychain.                                                            *)

\* WritePasswordJob and DeletePasswordJob.
Job(u, p) == [key |-> key[u], password |-> p]
writePasswordToWallet(u, p) == <<Job(u, p)>>
deletePasswordFromWallet(u) == <<Job(u, NoPassword)>>

Start(js) ==
  /\ Len(jobs) + Len(js) <= MaxJobs
  /\ jobs' = jobs \o js

\* What the wallet will hold for the user when the jobs are done.
Stored(u) ==
  LET mine == {i \in DOMAIN jobs : jobs[i].key = key[u]}
  IN IF mine = {} THEN wallet[key[u]] ELSE jobs[Max(mine)].password

\* The next job ends; that it failed, nobody hears.
JobEnds ==
  /\ jobs # <<>>
  /\ jobs' = Tail(jobs)
  /\ \/ wallet' = [wallet EXCEPT ![Head(jobs).key] = Head(jobs).password] /\ UNCHANGED failed
     \/ failed' = TRUE /\ UNCHANGED wallet
  /\ UNCHANGED <<key, users, intended, mixed, interface, service, stale>>

-----------------------------------------------------------------------------
(* The settings module.                                                     *)

\* Mutant: changes are saved without a warning.
NeverWarns == FALSE
Warns == checked

\* save, and krdpServerSettingsChanged: the warning is shown if the switch is on,
\* which it may not be although the server runs.
save(us) ==
  /\ users' = us
  /\ warning' = Warns
  /\ stale' = (stale \/ (~checked /\ server # "off"))
  /\ UNCHANGED <<key, wallet, failed, checked, checking, request, service>>

SharesKey(u, us) == \E v \in us \ {u} : key[v] = key[u]

AddUser(u, p) ==
  /\ u \notin users
  /\ Start(writePasswordToWallet(u, p))
  /\ intended' = [intended EXCEPT ![u] = p]
  /\ mixed' = (mixed \/ SharesKey(u, users))
  /\ save(users \cup {u})

\* EditUserModal reads the user's password asynchronously: it comes before the
\* administrator types another, or after, and then replaces it.
Texts(u, typed) == {typed, Stored(u)} \ {NoPassword}

\* modifyUser without a new name.
ChangePassword(u, typed) ==
  /\ u \in users
  /\ \E text \in Texts(u, typed) :
       /\ Start(writePasswordToWallet(u, text))
       /\ mixed' = (mixed \/ text # typed \/ SharesKey(u, users))
  /\ intended' = [intended EXCEPT ![u] = typed]
  /\ save(users)

\* Mutant: the old password is deleted last.
WriteThenDelete(old, new, p) == writePasswordToWallet(new, p) \o deletePasswordFromWallet(old)
RenameJobs(old, new, p) == deletePasswordFromWallet(old) \o writePasswordToWallet(new, p)

\* modifyUser with a new name, which must not exist yet; the password is typed,
\* or the one that was stored.
RenameUser(old, new, typed) ==
  /\ old \in users /\ new \notin users
  /\ \E text \in Texts(old, typed) :
       /\ Start(RenameJobs(old, new, text))
       /\ mixed' = (mixed \/ text # typed \/ SharesKey(old, users)
                          \/ SharesKey(new, users \ {old}))
  /\ intended' = [intended EXCEPT ![old] = NoPassword, ![new] = typed]
  /\ save((users \ {old}) \cup {new})

\* Mutant: the password of a deleted user is left in the wallet.
Forgotten(u) == <<>>
DeleteJobs(u) == deletePasswordFromWallet(u)

DeleteUser(u) ==
  /\ u \in users
  /\ Start(DeleteJobs(u))
  /\ intended' = [intended EXCEPT ![u] = NoPassword]
  /\ mixed' = (mixed \/ SharesKey(u, users))
  /\ save(users \ {u})

\* The calls say "replace": what systemd has not done yet gives way to what it is
\* asked now, but that a restart starts the server as well.
Ask(what) == request' = IF request = "restart" /\ what = "start" THEN "restart" ELSE what

\* toggleServer; switching off also turns the warning off.
ToggleServer ==
  /\ checked' = ~checked
  /\ Ask(IF checked' THEN "start" ELSE "stop")
  /\ warning' = (warning /\ checked')
  /\ stale' = (stale \/ (request = "stop" /\ checked'))
  /\ UNCHANGED <<checking, store, service>>

\* restartServer, from the warning.
RestartServer ==
  /\ warning /\ warning' = FALSE
  /\ Ask("restart")
  /\ UNCHANGED <<checked, checking, store, service, stale>>

\* checkServerRunning's answer.
ServerRunning ==
  /\ checking
  /\ checking' = FALSE /\ checked' = (server # "off")
  /\ UNCHANGED <<warning, request, store, service, stale>>

-----------------------------------------------------------------------------
(* The server, as systemd runs it.                                          *)

\* main: the names are read from the settings, and a job is started for each.
main == server' = "reading" /\ reading' = users /\ served' = Nobody

\* systemd does what it was asked, and tells that the service changed.
Systemd ==
  /\ request # "none"
  /\ \/ request = "restart" /\ main
     \/ request = "start" /\ server = "off" /\ main
     \/ request = "start" /\ server # "off" /\ UNCHANGED service
     \/ /\ request = "stop"
        /\ server' = "off" /\ reading' = {} /\ served' = Nobody
  /\ request' = "none" /\ checking' = TRUE
  /\ UNCHANGED <<checked, warning, store, stale>>

\* ReadPasswordJob ends: a user whose password cannot be read is not added.
ServerReads(u) ==
  /\ u \in reading
  /\ reading' = reading \ {u}
  /\ server' = IF reading' = {} THEN "on" ELSE "reading"
  /\ \/ served' = [served EXCEPT ![u] = wallet[key[u]]] /\ UNCHANGED failed
     \/ failed' = TRUE /\ UNCHANGED served
  /\ stale' = (stale \/ Stored(u) # wallet[key[u]])
  /\ UNCHANGED <<interface, key, users, wallet, jobs, intended, mixed>>

\* Without users there is nothing to read.
ServerReady ==
  /\ server = "reading" /\ reading = {}
  /\ server' = "on"
  /\ UNCHANGED <<reading, served, interface, store, stale>>

-----------------------------------------------------------------------------
Next ==
  \/ \E u \in Users, p \in Passwords :
       AddUser(u, p) \/ ChangePassword(u, p) \/ \E v \in Users : RenameUser(u, v, p)
  \/ \E u \in Users : DeleteUser(u) \/ ServerReads(u)
  \/ JobEnds \/ ToggleServer \/ RestartServer \/ ServerRunning \/ Systemd \/ ServerReady

Spec == Init /\ [][Next]_vars

-----------------------------------------------------------------------------
TypeOK ==
  /\ key \in [Users -> Keys] /\ users \subseteq Users
  /\ wallet \in [Keys -> Passwords \cup {NoPassword}]
  /\ jobs \in Seq([key : Keys, password : Passwords \cup {NoPassword}])
  /\ Len(jobs) <= MaxJobs
  /\ {checked, warning, checking, failed, mixed, stale} \subseteq BOOLEAN
  /\ request \in {"none", "start", "stop", "restart"}
  /\ server \in {"off", "reading", "on"} /\ reading \subseteq Users
  /\ {served, intended} \subseteq [Users -> Passwords \cup {NoPassword}]

\* Once the jobs are done, every user of the list has the password that the
\* administrator gave last, also after renames between names with the same key;
\* unless a job failed, the stored password arrived after another had been typed,
\* or two users shared a key.
StoredIsIntended ==
  jobs = <<>> /\ ~failed /\ ~mixed =>
    \A u \in Users : IF u \in users THEN wallet[key[u]] = intended[u]
                                    ELSE intended[u] = NoPassword

\* The types, and what is stored.
SettingsInv == TypeOK /\ StoredIsIntended

\* No password outlives its user in the wallet, unless a job failed.
NoOrphanPasswords ==
  jobs = <<>> /\ ~failed =>
    \A k \in Keys : wallet[k] # NoPassword => \E u \in users : key[u] = k

\* A running server lets exactly those users in whom the settings show, with the
\* passwords given them, unless the settings ask to restart it; or what is stored
\* is not what was intended, the server read the wallet before a job was done, the
\* switch was off although the server ran when something was changed, or it was put
\* back on before systemd had stopped the server.
ServedIsIntended ==
  /\ server = "on" /\ ~warning /\ request = "none"
  /\ jobs = <<>> /\ ~failed /\ ~mixed /\ ~stale
  => served = intended
=============================================================================
