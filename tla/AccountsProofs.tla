--------------------------- MODULE AccountsProofs ---------------------------
(***************************************************************************)
(* Proofs about the users and their sessions in the database: the schema   *)
(* and the administrator that every replica creates when it starts         *)
(* (Startup), and the sessions of the UI (UiSessions).  The two components *)
(* are proved apart and have no variable in common.                        *)
(***************************************************************************)
EXTENDS Startup, UiSessions, TLAPS

(* Startup: for any number of replicas, any environments and any number of     *)
(* crashes.                                                                    *)

Ready == {"spawn", "serving", "signalled", "draining"}

(* What the calls a process has behind it have left in the database.  The    *)
(* replica that is about to INSERT has never lost the race before.           *)
Behind(r) ==
  /\ pc[r] \in {"users", "sessions", "select", "insert"} \cup Ready => "items" \in tables
  /\ pc[r] \in {"sessions", "select", "insert"} \cup Ready => "users" \in tables
  /\ pc[r] \in {"select", "insert"} \cup Ready => "sessions" \in tables
  /\ pc[r] \in Ready => users[Env[r].username] # Unset
  /\ pc[r] = "insert" => conflicts[r] = 0
  /\ conflicts[r] > 0 => users[Env[r].username] # Unset
  /\ conflicts[r] <= 1

RedirectInv(r) ==
  redirect[r] # "off" => TlsActive(Env[r]) /\ pc[r] \in {"serving", "signalled", "draining"}

StartupInv == StartupTypeOK /\ \A r \in Replica : Behind(r) /\ RedirectInv(r)

----------------------------------------------------------------------------

(* The rows of the table users only ever appear.                             *)
Grows ==
  /\ tables \subseteq tables'
  /\ \A u \in DOMAIN users : users[u] # Unset => users'[u] = users[u]

(* A replica that did not move keeps what it has behind it.                  *)
LEMMA OthersKeep ==
  ASSUME NEW s \in Replica, StartupTypeOK, Behind(s), RedirectInv(s), Grows,
         pc'[s] = pc[s], conflicts'[s] = conflicts[s],
         redirect'[s] = redirect[s] \/ redirect[s] = "bind" \/ redirect[s] \in Accepting
           \/ redirect'[s] = "off"
  PROVE  Behind(s)' /\ RedirectInv(s)'
<1>1. Env[s].username \in DOMAIN users
  BY Zenon DEF StartupTypeOK
<1>2. Behind(s)'
  BY <1>1, Zenon DEF Behind, Grows
<1>3. RedirectInv(s)'
  BY Zenon DEF RedirectInv, TlsActive, Accepting
<1> QED
  BY <1>2, <1>3, Zenon

LEMMA TypeStep == StartupTypeOK /\ [StartupNext]_startupVars => StartupTypeOK'
<1> SUFFICES ASSUME StartupTypeOK, [StartupNext]_startupVars PROVE StartupTypeOK'
  BY Zenon
<1> USE StartupAssumption DEF StartupTypeOK, Phase, Stopped, Bound, Migrating, DatabaseUnchanged, Goes
<1>1. CASE UNCHANGED startupVars
  BY <1>1, Zenon DEF startupVars
<1>2. CASE StartupNext
  <2> PICK r \in Replica :
        Launch(r) \/ Start(r) \/ Signal(r) \/ Stop(r) \/ Fault(r) \/ Redirect(r)
    BY <1>2, Zenon DEF StartupNext
  <2>1. CASE Launch(r)
    BY <2>1, Zenon DEF Launch
  <2>2. CASE Bind(r) \/ LoadTls(r) \/ Connect(r) \/ SelectUser(r)
    BY <2>2, Zenon DEF Bind, LoadTls, Connect, SelectUser
  <2>3. CASE CreateTable(r)
    <3> PICK t \in Table : Goes(r, t, AfterTable(t)) /\ tables' = tables \cup {t}
                            /\ UNCHANGED <<redirect, users, conflicts, faults>>
      BY <2>3, Zenon DEF CreateTable
    <3>1. AfterTable(t) \in {"users", "sessions", "select"}
      BY Zenon DEF AfterTable, Table
    <3> QED
      BY <3>1, Zenon
  <2>4. CASE InsertUser(r)
    <3>1. pc' \in [Replica -> Phase] /\ users' \in [{Env[s].username : s \in Replica} -> Replica \cup {Unset}]
      BY <2>4, Zenon DEF InsertUser
    <3>2. conflicts' \in [Replica -> Nat]
      BY <2>4 DEF InsertUser
    <3> QED
      BY <2>4, <3>1, <3>2, Zenon DEF InsertUser
  <2>5. CASE SpawnRedirect(r)
    BY <2>5, Zenon DEF SpawnRedirect
  <2>6. CASE Signal(r) \/ SendShutdown(r) \/ Exit(r)
    BY <2>6, Zenon DEF Signal, SendShutdown, Exit
  <2>7. CASE Fault(r)
    BY <2>7 DEF Fault
  <2>8. CASE Redirect(r)
    BY <2>8, Zenon DEF Redirect, RedirectBind, RedirectAcceptError, RedirectBackoffOver,
                RedirectStops, RedirectGoes
  <2> QED
    BY <2>1, <2>2, <2>3, <2>4, <2>5, <2>6, <2>7, <2>8, Zenon DEF Start, Stop
<1> QED
  BY <1>1, <1>2, Zenon

(* No step of any replica takes a table or a row away, or changes a row.     *)
LEMMA StepGrows == StartupTypeOK /\ [StartupNext]_startupVars => Grows
<1> SUFFICES ASSUME StartupTypeOK, [StartupNext]_startupVars PROVE Grows
  BY Zenon
<1>1. CASE UNCHANGED startupVars
  BY <1>1, Zenon DEF startupVars, Grows
<1>2. CASE StartupNext
  <2> PICK r \in Replica :
        Launch(r) \/ Start(r) \/ Signal(r) \/ Stop(r) \/ Fault(r) \/ Redirect(r)
    BY <1>2, Zenon DEF StartupNext
  <2>1. CASE DatabaseUnchanged
    BY <2>1, Zenon DEF DatabaseUnchanged, Grows
  <2>2. CASE CreateTable(r)
    BY <2>2, Zenon DEF CreateTable, Grows
  <2>3. CASE InsertUser(r)
    BY <2>3, Zenon DEF InsertUser, Grows, StartupTypeOK
  <2>4. Launch(r) \/ Signal(r) \/ Stop(r) \/ Fault(r) \/ Redirect(r) => DatabaseUnchanged
    BY Zenon DEF Launch, Signal, Stop, SendShutdown, Exit, Fault, Redirect, RedirectBind,
           RedirectAcceptError, RedirectBackoffOver, RedirectStops, RedirectGoes
  <2>5. Start(r) => CreateTable(r) \/ InsertUser(r) \/ DatabaseUnchanged
    BY Zenon DEF Start, Bind, LoadTls, Connect, SelectUser, SpawnRedirect
  <2> QED
    BY <2>1, <2>2, <2>3, <2>4, <2>5, Zenon
<1> QED
  BY <1>1, <1>2, Zenon

(* A step of one replica leaves the others where they are.                   *)
LEMMA OneMoves ==
  ASSUME StartupTypeOK, StartupNext
  PROVE  \E r \in Replica :
           /\ Launch(r) \/ Start(r) \/ Signal(r) \/ Stop(r) \/ Fault(r) \/ Redirect(r)
           /\ \A s \in Replica \ {r} :
                pc'[s] = pc[s] /\ conflicts'[s] = conflicts[s] /\ redirect'[s] = redirect[s]
<1> PICK r \in Replica :
      Launch(r) \/ Start(r) \/ Signal(r) \/ Stop(r) \/ Fault(r) \/ Redirect(r)
  BY Zenon DEF StartupNext
<1> SUFFICES ASSUME NEW s \in Replica \ {r}
             PROVE  pc'[s] = pc[s] /\ conflicts'[s] = conflicts[s] /\ redirect'[s] = redirect[s]
  BY Zenon
<1> USE DEF StartupTypeOK, Goes, DatabaseUnchanged
<1>1. CASE Launch(r) \/ Signal(r) \/ Stop(r) \/ Fault(r)
  BY <1>1, Zenon DEF Launch, Signal, Stop, SendShutdown, Exit, Fault
<1>2. CASE Start(r)
  BY <1>2, Zenon DEF Start, Bind, LoadTls, Connect, CreateTable, SelectUser, InsertUser, SpawnRedirect
<1>3. CASE Redirect(r)
  BY <1>3, Zenon DEF Redirect, RedirectBind, RedirectAcceptError, RedirectBackoffOver,
              RedirectStops, RedirectGoes
<1> QED
  BY <1>1, <1>2, <1>3, Zenon

(* A process that has asked nothing of the database yet, or has stopped,     *)
(* owes what it has behind it to its earlier starts alone.                   *)
Early == {"down", "failed", "bind", "tls", "connect", "items"}

LEMMA EarlyKeeps ==
  ASSUME NEW r \in Replica, StartupTypeOK, Behind(r), Grows,
         pc'[r] \in Early, conflicts'[r] = conflicts[r]
  PROVE  Behind(r)'
<1>1. Env[r].username \in DOMAIN users
  BY Zenon DEF StartupTypeOK
<1>2. pc'[r] \notin {"users", "sessions", "select", "insert"} \cup Ready
  BY Zenon DEF Early, Ready
<1> QED
  BY <1>1, <1>2, Zenon DEF Behind, Grows, Ready

(* A redirect that is off stays so until the process serves.                 *)
LEMMA RedirectKeeps ==
  ASSUME NEW r \in Replica, RedirectInv(r),
         redirect'[r] = "off" \/ (redirect'[r] = redirect[r]
           /\ pc[r] \notin {"serving", "signalled", "draining"})
  PROVE  RedirectInv(r)'
BY Zenon DEF RedirectInv, TlsActive

LEMMA StartKeeps ==
  ASSUME NEW r \in Replica, StartupTypeOK, Behind(r), RedirectInv(r), Grows,
         Launch(r) \/ Start(r)
  PROVE  Behind(r)' /\ RedirectInv(r)'
<1>1. Env[r].username \in DOMAIN users /\ conflicts[r] \in Nat
  BY Zenon DEF StartupTypeOK
<1>2. CASE Launch(r)
  <2>1. pc'[r] \in Early /\ conflicts' = conflicts /\ redirect' = redirect
    BY <1>2, Zenon DEF Launch, Early, DatabaseUnchanged, StartupTypeOK
  <2>2. pc[r] \notin {"serving", "signalled", "draining"}
    BY <1>2, Zenon DEF Launch, Stopped
  <2> QED
    BY <2>1, <2>2, EarlyKeeps, RedirectKeeps, Zenon
<1>3. CASE Bind(r)
  <2>1. pc'[r] \in Early /\ pc[r] = "bind"
    BY <1>3, Zenon DEF Bind, Goes, Early, StartupTypeOK
  <2>2. conflicts' = conflicts /\ redirect' = redirect
    BY <1>3, Zenon DEF Bind, DatabaseUnchanged
  <2> QED
    BY <2>1, <2>2, EarlyKeeps, RedirectKeeps, Zenon
<1>4. CASE LoadTls(r)
  <2>1. pc'[r] \in Early /\ pc[r] = "tls"
    BY <1>4, Zenon DEF LoadTls, Goes, Early, StartupTypeOK
  <2>2. conflicts' = conflicts /\ redirect' = redirect
    BY <1>4, Zenon DEF LoadTls, DatabaseUnchanged
  <2> QED
    BY <2>1, <2>2, EarlyKeeps, RedirectKeeps, Zenon
<1>5. CASE Connect(r)
  <2>1. pc'[r] \in Early /\ pc[r] = "connect"
    BY <1>5, Zenon DEF Connect, Goes, Early, StartupTypeOK
  <2>2. conflicts' = conflicts /\ redirect' = redirect
    BY <1>5, Zenon DEF Connect, DatabaseUnchanged
  <2> QED
    BY <2>1, <2>2, EarlyKeeps, RedirectKeeps, Zenon
<1>6. CASE CreateTable(r)
  <2> PICK t \in Table : /\ Goes(r, t, AfterTable(t)) /\ tables' = tables \cup {t}
                         /\ UNCHANGED <<redirect, users, conflicts, faults>>
    BY <1>6, Zenon DEF CreateTable
  <2>1. pc[r] = t /\ pc'[r] = AfterTable(t)
    BY Zenon DEF Goes, StartupTypeOK
  <2>2. RedirectInv(r)'
    BY <2>1, RedirectKeeps, Zenon DEF Table
  <2>3. CASE t = "items"
    BY <1>1, <2>1, <2>2, <2>3, Zenon DEF Behind, Ready, AfterTable
  <2>4. CASE t = "users"
    BY <1>1, <2>1, <2>2, <2>4, Zenon DEF Behind, Ready, AfterTable
  <2>5. CASE t = "sessions"
    BY <1>1, <2>1, <2>2, <2>5, Zenon DEF Behind, Ready, AfterTable
  <2> QED
    BY <2>2, <2>3, <2>4, <2>5, Zenon DEF Table
<1>7. CASE SelectUser(r)
  <2>1. pc[r] = "select" /\ redirect' = redirect /\ tables' = tables /\ users' = users
        /\ conflicts' = conflicts
    BY <1>7, Zenon DEF SelectUser, Goes, DatabaseUnchanged
  <2>2. \/ pc'[r] = "failed"
        \/ pc'[r] = "spawn" /\ users[Env[r].username] # Unset
        \/ pc'[r] = "insert" /\ users[Env[r].username] = Unset
    BY <1>7, Zenon DEF SelectUser, Goes, StartupTypeOK
  <2>3. RedirectInv(r)'
    BY <2>1, RedirectKeeps, Zenon
  <2>4. Behind(r)'
    BY <1>1, <2>1, <2>2 DEF Behind, Ready
  <2> QED
    BY <2>3, <2>4, Zenon
<1>8. CASE InsertUser(r)
  <2>1. pc[r] = "insert" /\ redirect' = redirect /\ tables' = tables
    BY <1>8, Zenon DEF InsertUser, Goes
  <2>2. pc'[r] \in {"spawn", "failed"}
    BY <1>8, Zenon DEF InsertUser, Goes, StartupTypeOK
  <2>3. users'[Env[r].username] # Unset
    BY <1>1, <1>8, StartupAssumption, Zenon DEF InsertUser, StartupTypeOK
  <2>4. conflicts[r] = 0
    BY <2>1, Zenon DEF Behind
  <2>5. conflicts'[r] \in {0, 1}
    BY <1>8, <2>4 DEF InsertUser, StartupTypeOK
  <2>6. RedirectInv(r)'
    BY <2>1, RedirectKeeps, Zenon
  <2>7. Behind(r)'
    BY <2>1, <2>2, <2>3, <2>5 DEF Behind, Ready
  <2> QED
    BY <2>6, <2>7, Zenon
<1>9. CASE SpawnRedirect(r)
  <2>1. pc[r] = "spawn" /\ pc'[r] = "serving" /\ tables' = tables /\ users' = users
        /\ conflicts' = conflicts
    BY <1>9, Zenon DEF SpawnRedirect, Goes, DatabaseUnchanged, StartupTypeOK
  <2>2. redirect'[r] # "off" => TlsActive(Env[r])
    BY <1>9, Zenon DEF SpawnRedirect, StartupTypeOK
  <2>3. RedirectInv(r)'
    BY <2>1, <2>2, Zenon DEF RedirectInv, TlsActive
  <2>4. Behind(r)'
    BY <1>1, <2>1, Zenon DEF Behind, Ready
  <2> QED
    BY <2>3, <2>4, Zenon
<1> QED
  BY <1>2, <1>3, <1>4, <1>5, <1>6, <1>7, <1>8, <1>9, Zenon DEF Start

LEMMA StopKeeps ==
  ASSUME NEW r \in Replica, StartupTypeOK, Behind(r), RedirectInv(r), Grows,
         Signal(r) \/ Stop(r) \/ Fault(r)
  PROVE  Behind(r)' /\ RedirectInv(r)'
<1>1. Env[r].username \in DOMAIN users
  BY Zenon DEF StartupTypeOK
<1>2. CASE Signal(r) \/ SendShutdown(r)
  <2>1. pc[r] \in {"serving", "signalled"} /\ pc'[r] \in {"signalled", "draining"}
    BY <1>2, Zenon DEF Signal, SendShutdown, Goes, StartupTypeOK
  <2>2. tables' = tables /\ users' = users /\ conflicts' = conflicts /\ redirect' = redirect
    BY <1>2, Zenon DEF Signal, SendShutdown, DatabaseUnchanged
  <2>3. RedirectInv(r)'
    BY <2>1, <2>2, Zenon DEF RedirectInv, TlsActive
  <2>4. Behind(r)'
    BY <1>1, <2>1, <2>2, Zenon DEF Behind, Ready
  <2> QED
    BY <2>3, <2>4, Zenon
<1>3. CASE Exit(r) \/ Fault(r)
  <2>1. pc'[r] \in Early /\ redirect'[r] = "off"
    BY <1>3, Zenon DEF Exit, Fault, Goes, Early, StartupTypeOK
  <2>2. conflicts' = conflicts
    BY <1>3, Zenon DEF Exit, Fault, DatabaseUnchanged
  <2> QED
    BY <2>1, <2>2, EarlyKeeps, RedirectKeeps, Zenon
<1> QED
  BY <1>2, <1>3, Zenon DEF Stop

LEMMA RedirectTaskKeeps ==
  ASSUME NEW r \in Replica, StartupTypeOK, Behind(r), RedirectInv(r), Grows, Redirect(r)
  PROVE  Behind(r)' /\ RedirectInv(r)'
<1>1. pc' = pc /\ conflicts' = conflicts
  BY Zenon DEF Redirect, RedirectBind, RedirectAcceptError, RedirectBackoffOver, RedirectStops,
         RedirectGoes, DatabaseUnchanged
<1>2. redirect[r] = "bind" \/ redirect[r] \in Accepting
  BY Zenon DEF Redirect, RedirectBind, RedirectAcceptError, RedirectBackoffOver, RedirectStops,
         RedirectGoes, Accepting
<1> QED
  BY <1>1, <1>2, OthersKeep, Zenon

LEMMA StartupStep == StartupInv /\ [StartupNext]_startupVars => StartupInv'
<1> SUFFICES ASSUME StartupInv, [StartupNext]_startupVars PROVE StartupInv'
  BY Zenon
<1>1. StartupTypeOK /\ StartupTypeOK' /\ Grows
  BY TypeStep, StepGrows, Zenon DEF StartupInv
<1>2. CASE UNCHANGED startupVars
  <2>1. ASSUME NEW s \in Replica PROVE Behind(s)' /\ RedirectInv(s)'
    BY <1>1, <1>2, OthersKeep, Zenon DEF StartupInv, startupVars
  <2> QED
    BY <1>1, <2>1, Zenon DEF StartupInv
<1>3. CASE StartupNext
  <2> PICK r \in Replica :
        /\ Launch(r) \/ Start(r) \/ Signal(r) \/ Stop(r) \/ Fault(r) \/ Redirect(r)
        /\ \A s \in Replica \ {r} :
             pc'[s] = pc[s] /\ conflicts'[s] = conflicts[s] /\ redirect'[s] = redirect[s]
    BY <1>1, <1>3, OneMoves, Zenon
  <2>1. \A s \in Replica \ {r} : Behind(s)' /\ RedirectInv(s)'
    BY <1>1, OthersKeep, Zenon DEF StartupInv
  <2>2. Behind(r) /\ RedirectInv(r)
    BY Zenon DEF StartupInv
  <2>3. Behind(r)' /\ RedirectInv(r)'
    BY <1>1, <2>2, StartKeeps, StopKeeps, RedirectTaskKeeps, Zenon
  <2> QED
    BY <1>1, <2>1, <2>3, Zenon DEF StartupInv
<1> QED
  BY <1>2, <1>3, Zenon

LEMMA StartupInitInv == StartupInit => StartupInv
BY StartupAssumption DEF StartupInit, StartupInv, StartupTypeOK, Phase, Stopped, Behind, RedirectInv, Ready

LEMMA StartupInvariance == StartupSpec => []StartupInv
BY StartupInitInv, StartupStep, PTL DEF StartupSpec

----------------------------------------------------------------------------

(* Every variable of the processes and the database keeps its type.          *)
THEOREM StartupTypeCorrect == StartupSpec => []StartupTypeOK
BY StartupInvariance, PTL DEF StartupInv

(* Every process that serves has the whole schema and an administrator,      *)
(* whatever crashed before it, for any number of replicas.                   *)
THEOREM ServesReady == StartupSpec => []ServingIsReady
<1>1. StartupInv => ServingIsReady
  BY Zenon DEF StartupInv, Behind, Ready, ServingIsReady, StartupTypeOK, Table
<1> QED
  BY StartupInvariance, <1>1, PTL

(* The race for the administrator costs a replica one start at most.         *)
THEOREM OneConflict == StartupSpec => []ConflictAtMostOnce
<1>1. StartupInv => ConflictAtMostOnce
  BY Zenon DEF StartupInv, Behind, ConflictAtMostOnce
<1> QED
  BY StartupInvariance, <1>1, PTL

(* A redirect leads to a TLS listener of the same process.                   *)
THEOREM RedirectsToTls == StartupSpec => []RedirectLeadsToTls
<1>1. StartupInv => RedirectLeadsToTls
  BY Zenon DEF StartupInv, RedirectInv, RedirectLeadsToTls
<1> QED
  BY StartupInvariance, <1>1, PTL

(* No start, of any replica with any password, changes an existing account.  *)
THEOREM NeverOverwrites == StartupSpec => BootstrapNeverOverwrites
<1>1. StartupInv /\ [StartupNext]_startupVars =>
        [\A u \in DOMAIN users : users[u] # Unset => users'[u] = users[u]]_startupVars
  BY StepGrows, Zenon DEF StartupInv, Grows
<1> QED
  BY StartupInvariance, <1>1, PTL DEF StartupSpec, BootstrapNeverOverwrites

-----------------------------------------------------------------------------
(* UiSessions: for any number of handlers, tokens and items and any TTL.       *)

LoginStatement == {"verify", "insert"}

(***************************************************************************)
(* What a running handler r may rely on: a login has a token of its own    *)
(* until the row exists and the others one that was issued; a request      *)
(* begun after the logout never gets past its lookup; and the time a       *)
(* refresh is about to write is one at which the session was used.         *)
(***************************************************************************)
Sound(r) ==
  /\ r \in Running
  /\ r.at \in LoginStatement => r.token \notin issued
  /\ r.at \notin LoginStatement => r.token \in issued
  /\ r.late => r.token \in gone /\ r.at \in {"select", "expire"}
  /\ r.at = "refresh" => r.read <= last_use[r.token]

TasksInv ==
  /\ task \in [Handler -> {Free} \cup Running]
  /\ \A h \in Handler : task[h] = Free \/ Sound(task[h])

(* No two handlers have the token of a login.                              *)
LoginsApart ==
  \A g, h \in Handler :
    g # h /\ task[g] # Free /\ task[h] # Free
      /\ task[h].at \in LoginStatement => task[g].token # task[h].token

RowsInv ==
  /\ sessions \subseteq issued
  /\ gone \subseteq issued
  /\ gone \cap sessions = {}
  /\ \A t \in sessions : expires_at[t] <= last_use[t] + Ttl

Types ==
  /\ now \in Nat
  /\ sessions \subseteq Token /\ issued \subseteq Token /\ gone \subseteq Token
  /\ expires_at \in [Token -> Nat]
  /\ last_use \in [Token -> Nat]
  /\ late_writes = 0

IInv == Types /\ TasksInv /\ LoginsApart /\ RowsInv

-----------------------------------------------------------------------------

(* A handler that runs has a statement to wait for.                        *)
LEMMA RunningHandler ==
  ASSUME IInv, NEW h \in Handler, task[h].at \in Statement
  PROVE  /\ task[h] # Free
         /\ Sound(task[h])
         /\ task[h] \in Running
         /\ task[h].token \in Token
         /\ task[h].read \in Nat
<1>1. task[h] # Free
  BY DEF Free, Statement
<1>2. Sound(task[h])
  BY <1>1, Zenon DEF IInv, TasksInv
<1> QED
  BY <1>1, <1>2, Zenon DEF Sound, Running

(* The initial state.                                                      *)
LEMMA InitIInv == Init => IInv
<1> SUFFICES ASSUME Init PROVE IInv
  BY Zenon
<1>1. Types
  BY Zenon DEF Init, Types
<1>2. TasksInv
  BY Zenon DEF Init, TasksInv
<1>3. LoginsApart
  BY Zenon DEF Init, LoginsApart
<1>4. RowsInv
  BY Zenon DEF Init, RowsInv
<1> QED
  BY <1>1, <1>2, <1>3, <1>4, Zenon DEF IInv

(* A step that ends a handler, or changes none, and leaves the history of  *)
(* tokens alone or lets more tokens be gone, keeps what tasks rely on.     *)
LEMMA EndingKeepsTasks ==
  ASSUME IInv, NEW h \in Handler, Ends(h) \/ UNCHANGED task,
         issued' = issued, last_use' = last_use, gone \subseteq gone'
  PROVE  TasksInv' /\ LoginsApart'
<1>1. task' \in [Handler -> {Free} \cup Running]
  BY Zenon DEF IInv, TasksInv, Ends
<1>2. ASSUME NEW g \in Handler PROVE task'[g] = Free \/ task'[g] = task[g]
  BY <1>2, Zenon DEF IInv, TasksInv, Ends
<1>3. ASSUME NEW g \in Handler, task'[g] # Free PROVE Sound(task[g])'
  <2>1. task'[g] = task[g] /\ Sound(task[g])
    BY <1>2, <1>3, Zenon DEF IInv, TasksInv
  <2> QED
    BY <2>1, Zenon DEF Sound
<1>4. TasksInv'
  BY <1>1, <1>3, Zenon DEF TasksInv
<1>5. LoginsApart'
  BY <1>2, Zenon DEF IInv, LoginsApart
<1> QED
  BY <1>4, <1>5, Zenon

(* A step that moves handler h to r, and leaves the history of tokens      *)
(* alone but for later uses, keeps what the tasks rely on if r may rely on *)
(* it and has the token of no login.                                       *)
LEMMA MovingKeepsTasks ==
  ASSUME IInv, NEW h \in Handler, NEW r,
         task' = [task EXCEPT ![h] = r], r # Free, Sound(r)',
         issued' = issued, gone' = gone, last_use' \in [Token -> Nat],
         \A t \in Token : last_use[t] <= last_use'[t],
         \A g \in Handler \ {h} : task[g] # Free
            /\ (r.at \in LoginStatement \/ task[g].at \in LoginStatement)
              => task[g].token # r.token
  PROVE  TasksInv' /\ LoginsApart'
<1>1. r \in Running
  BY Zenon DEF Sound
<1>2. task' \in [Handler -> {Free} \cup Running]
  BY <1>1, Zenon DEF IInv, TasksInv
<1>3. task'[h] = r /\ \A g \in Handler \ {h} : task'[g] = task[g]
  BY Zenon DEF IInv, TasksInv
<1>4. ASSUME NEW g \in Handler \ {h}, task[g] # Free PROVE Sound(task[g])'
  <2>1. task'[g] = task[g] /\ Sound(task[g])
    BY <1>3, <1>4, Zenon DEF IInv, TasksInv
  <2>2. task[g].token \in Token /\ task[g].read \in Nat
    BY <2>1, Zenon DEF Sound, Running
  <2>3. last_use[task[g].token] \in Nat /\ last_use'[task[g].token] \in Nat
    BY <2>2, Zenon DEF IInv, Types
  <2>4. last_use[task[g].token] <= last_use'[task[g].token]
    BY <2>2, Zenon
  <2>5. task[g].at = "refresh" => task[g].read <= last_use'[task[g].token]
    BY <2>1, <2>2, <2>3, <2>4 DEF Sound
  <2> QED
    BY <2>1, <2>5 DEF Sound
<1>5. TasksInv'
  BY <1>2, <1>3, <1>4, Zenon DEF TasksInv
<1>6. LoginsApart'
  BY <1>3 DEF IInv, LoginsApart
<1> QED
  BY <1>5, <1>6, Zenon

-----------------------------------------------------------------------------

(* POST /ui/login up to the INSERT.                                        *)
LEMMA BeginLoginStep ==
  ASSUME IInv, NEW h \in Handler, NEW t \in Token, BeginLogin(h, t)
  PROVE  IInv'
<1>r. PICK r : r = [at |-> "verify", op |-> "login", token |-> t,
                   csrf |-> FALSE, read |-> now, late |-> FALSE]
  BY Zenon
<1>1. r \in Running /\ r # Free
  BY <1>r, SMTT(40) DEF IInv, Types, Running, Statement, Operation, Free
<1>2. Sound(r)'
  BY <1>1, <1>r, Zenon DEF Sound, BeginLogin, LoginStatement
<1>3. TasksInv' /\ LoginsApart'
  <2>1. task' = [task EXCEPT ![h] = r] /\ issued' = issued /\ gone' = gone
        /\ last_use' = last_use
    BY <1>r, Zenon DEF BeginLogin, history
  <2>2. \A g \in Handler \ {h} : task[g] # Free => task[g].token # r.token
    BY <1>r, Zenon DEF BeginLogin
  <2>3. last_use' \in [Token -> Nat] /\ \A u \in Token : last_use[u] <= last_use'[u]
    BY <2>1 DEF IInv, Types
  <2> QED
    BY <1>1, <1>2, <2>1, <2>2, <2>3, MovingKeepsTasks, Zenon
<1>4. Types' /\ RowsInv'
  BY Zenon DEF BeginLogin, history, IInv, Types, RowsInv
<1> QED
  BY <1>3, <1>4, Zenon DEF IInv

LEMMA VerifyUserStep ==
  ASSUME IInv, NEW h \in Handler, VerifyUser(h)
  PROVE  IInv'
<1>1. Types' /\ RowsInv'
  BY Zenon DEF VerifyUser, history, IInv, Types, RowsInv
<1>2. issued' = issued /\ gone' = gone /\ last_use' = last_use
  BY Zenon DEF VerifyUser, history
<1>3. CASE Ends(h)
  BY <1>1, <1>2, <1>3, EndingKeepsTasks, Zenon DEF IInv
<1>4. CASE task' = [task EXCEPT ![h].at = "insert", ![h].read = now]
  <2>r. PICK r : r = [task[h] EXCEPT !.at = "insert", !.read = now]
    BY Zenon
  <2>1. task[h] # Free /\ Sound(task[h]) /\ task[h] \in Running
        /\ task[h].at = "verify"
    BY RunningHandler, Zenon DEF VerifyUser, Statement
  <2>2. now \in Nat
    BY Zenon DEF IInv, Types
  <2>3. r \in Running /\ r.at = "insert" /\ r.token = task[h].token
        /\ r.late = task[h].late
    BY <2>1, <2>2, <2>r, Zenon DEF Running, Statement
  <2>4. r # Free
    BY <2>3 DEF Free
  <2>5. Sound(r)'
    BY <1>2, <2>1, <2>3, Zenon DEF Sound, LoginStatement
  <2>6. task' = [task EXCEPT ![h] = r]
    BY <1>4, <2>r, Zenon DEF IInv, TasksInv
  <2>7. \A g \in Handler \ {h} : task[g] # Free => task[g].token # r.token
    BY <2>1, <2>3, Zenon DEF IInv, LoginsApart, LoginStatement
  <2>8. last_use' \in [Token -> Nat] /\ \A u \in Token : last_use[u] <= last_use'[u]
    BY <1>2 DEF IInv, Types
  <2>9. TasksInv' /\ LoginsApart'
    BY <1>2, <2>4, <2>5, <2>6, <2>7, <2>8, MovingKeepsTasks, Zenon
  <2> QED
    BY <1>1, <2>9, Zenon DEF IInv
<1> QED
  BY <1>3, <1>4, Zenon DEF VerifyUser

(* A new row: its token is no other handler's.                             *)
LEMMA InsertSessionStep ==
  ASSUME IInv, NEW h \in Handler, InsertSession(h)
  PROVE  IInv'
<1> DEFINE t == task[h].token
<1>1. task[h] # Free /\ Sound(task[h]) /\ t \in Token /\ task[h].read \in Nat
      /\ task[h].at = "insert"
  BY RunningHandler, Zenon DEF InsertSession, Statement
<1>2. t \notin issued
  BY <1>1, Zenon DEF Sound, LoginStatement
<1>3. last_use \in [Token -> Nat] /\ expires_at \in [Token -> Nat] /\ Ttl \in Nat
  BY TtlPositive, Zenon DEF IInv, Types
<1>4. /\ last_use' = [last_use EXCEPT ![t] = Max2(@, task[h].read)]
      /\ expires_at' = [expires_at EXCEPT ![t] = task[h].read + Ttl]
      /\ sessions' = sessions \cup {t} /\ issued' = issued \cup {t}
      /\ gone' = gone /\ now' = now /\ late_writes' = late_writes
      /\ task' = [task EXCEPT ![h] = Free]
  BY SMTT(40) DEF InsertSession, Used, Ends, history
<1>5. Max2(last_use[t], task[h].read) \in Nat
      /\ task[h].read <= Max2(last_use[t], task[h].read)
  BY <1>1, <1>3 DEF Max2
<1>6. last_use' \in [Token -> Nat] /\ expires_at' \in [Token -> Nat]
  BY <1>1, <1>3, <1>4, <1>5, SMTT(40)
<1>7. Types'
  BY <1>1, <1>4, <1>6, Zenon DEF IInv, Types
<1>8. task' \in [Handler -> {Free} \cup Running]
      /\ task'[h] = Free /\ \A g \in Handler \ {h} : task'[g] = task[g]
  BY <1>4, SMTT(40) DEF IInv, TasksInv
<1>9. ASSUME NEW g \in Handler \ {h}, task[g] # Free PROVE Sound(task[g])'
  <2>1. task'[g] = task[g] /\ Sound(task[g])
    BY <1>8, <1>9, Zenon DEF IInv, TasksInv
  <2>2. task[g].token # t
    BY <1>1, <1>9, Zenon DEF IInv, LoginsApart, LoginStatement
  <2>3. task[g].token \in Token
    BY <2>1, Zenon DEF Sound, Running
  <2>4. last_use'[task[g].token] = last_use[task[g].token]
    BY <1>3, <1>4, <2>2, <2>3, Zenon
  <2> HIDE DEF t
  <2> QED
    BY <1>4, <2>1, <2>2, <2>4 DEF Sound
<1>10. TasksInv'
  BY <1>8, <1>9, Zenon DEF TasksInv
<1>11. LoginsApart'
  BY <1>8 DEF IInv, LoginsApart
<1>12. RowsInv'
  <2>1. ASSUME NEW u \in sessions' PROVE expires_at'[u] <= last_use'[u] + Ttl
    <3>1. CASE u = t
      <4>1. expires_at'[u] = task[h].read + Ttl
            /\ last_use'[u] = Max2(last_use[t], task[h].read)
        BY <1>1, <1>3, <1>4, <3>1, Zenon
      <4> QED
        BY <1>1, <1>3, <1>5, <4>1, SMTT(40)
    <3>2. CASE u # t
      <4>1. u \in sessions /\ u \in Token
        BY <1>4, <3>2, Zenon DEF IInv, Types
      <4>2. expires_at'[u] = expires_at[u] /\ last_use'[u] = last_use[u]
        BY <1>3, <1>4, <3>2, <4>1, Zenon
      <4> QED
        BY <4>1, <4>2, Zenon DEF IInv, RowsInv
    <3> QED
      BY <3>1, <3>2, Zenon
  <2> HIDE DEF t
  <2> QED
    BY <1>2, <1>4, <2>1, Zenon DEF IInv, RowsInv
<1> QED
  BY <1>7, <1>10, <1>11, <1>12, Zenon DEF IInv

-----------------------------------------------------------------------------

(* A handler past its login statements that waits for another statement:   *)
(* the shape of every Awaits of SessionStore::get and of what follows it.  *)
LEMMA AwaitingKeepsTasks ==
  ASSUME IInv, NEW h \in Handler, NEW st \in Statement \ LoginStatement,
         task[h].at \in Statement \ LoginStatement, Awaits(h, st),
         issued' = issued, gone' = gone, last_use' \in [Token -> Nat],
         \A t \in Token : last_use[t] <= last_use'[t],
         task[h].late => st \in {"select", "expire"},
         st = "refresh" => task[h].read <= last_use'[task[h].token]
  PROVE  TasksInv' /\ LoginsApart'
<1>r. PICK r : r = [task[h] EXCEPT !.at = st]
  BY Zenon
<1>1. task[h] # Free /\ Sound(task[h]) /\ task[h] \in Running
  BY RunningHandler, Zenon
<1>2. r \in Running /\ r.at = st /\ r.token = task[h].token
      /\ r.late = task[h].late /\ r.read = task[h].read
  BY <1>1, <1>r, Zenon DEF Running
<1>3. r # Free
  BY <1>2, SMTT(40) DEF Free, Statement
<1>4. Sound(r)'
  BY <1>1, <1>2, Zenon DEF Sound
<1>5. task' = [task EXCEPT ![h] = r]
  BY <1>r, Zenon DEF Awaits, IInv, TasksInv
<1>6. \A g \in Handler \ {h} : task[g] # Free
         /\ (r.at \in LoginStatement \/ task[g].at \in LoginStatement)
           => task[g].token # r.token
  BY <1>1, <1>2, Zenon DEF IInv, LoginsApart
<1> QED
  BY <1>3, <1>4, <1>5, <1>6, MovingKeepsTasks, Zenon

LEMMA BeginGetStep ==
  ASSUME IInv, NEW h \in Handler, NEW op \in Operation, NEW t \in Token,
         NEW csrf \in BOOLEAN, BeginGet(h, op, t, csrf)
  PROVE  IInv'
<1>l. PICK l \in BOOLEAN : l = (t \in gone)
  <2>1. CASE t \in gone
    <3>1. (t \in gone) = TRUE
      BY <2>1, Zenon
    <3> QED
      BY <3>1, Zenon
  <2>2. CASE ~(t \in gone)
    <3>1. (t \in gone) = FALSE
      BY <2>2
    <3> QED
      BY <3>1, Zenon
  <2> QED
    BY <2>1, <2>2, Zenon
<1>r. PICK r : r = [at |-> "select", op |-> op, token |-> t, csrf |-> csrf,
                   read |-> now, late |-> l]
  BY Zenon
<1>1. r \in Running /\ r # Free
  BY <1>r, Zenon DEF IInv, Types, Running, Statement, Free
<1>2. /\ task' = [task EXCEPT ![h] = r]
      /\ issued' = issued /\ gone' = gone /\ last_use' = last_use
  BY <1>l, <1>r, Zenon DEF BeginGet, history
<1>3. t \in issued
  BY SMTT(40) DEF BeginGet
<1>4. Sound(r)'
  <2>1. r.at = "select" /\ r.token = t
    BY <1>r, Zenon
  <2>2. r.late => t \in gone
    BY <1>l, <1>r, ZenonT(40)
  <2> QED
    BY <1>1, <1>2, <1>3, <2>1, <2>2, Zenon DEF Sound, LoginStatement
<1>5. \A g \in Handler \ {h} : task[g] # Free
         /\ (r.at \in LoginStatement \/ task[g].at \in LoginStatement)
           => task[g].token # r.token
  BY <1>3, <1>r, Zenon DEF IInv, TasksInv, Sound, LoginStatement
<1>6. last_use' \in [Token -> Nat] /\ \A u \in Token : last_use[u] <= last_use'[u]
  BY <1>2 DEF IInv, Types
<1>7. TasksInv' /\ LoginsApart'
  BY <1>1, <1>2, <1>4, <1>5, <1>6, MovingKeepsTasks, Zenon
<1>8. Types' /\ RowsInv'
  BY Zenon DEF BeginGet, history, IInv, Types, RowsInv
<1> QED
  BY <1>7, <1>8, Zenon DEF IInv

(* The SELECT finds no session that is gone, and what it finds was used    *)
(* less than the TTL ago.                                                  *)
LEMMA SelectFinds ==
  ASSUME IInv, NEW h \in Handler, task[h].at = "select",
         task[h].token \in sessions, expires_at[task[h].token] > task[h].read
  PROVE  ~task[h].late /\ task[h].read < last_use[task[h].token] + Ttl
<1>1. Sound(task[h]) /\ task[h].token \in Token /\ task[h].read \in Nat
  BY RunningHandler, Zenon DEF Statement
<1>2. ~task[h].late
  BY <1>1, Zenon DEF Sound, IInv, RowsInv
<1>3. expires_at[task[h].token] <= last_use[task[h].token] + Ttl
  BY Zenon DEF IInv, RowsInv
<1>4. expires_at[task[h].token] \in Nat /\ last_use[task[h].token] \in Nat
      /\ Ttl \in Nat
  BY <1>1, TtlPositive, Zenon DEF IInv, Types
<1>5. task[h].read < last_use[task[h].token] + Ttl
  BY <1>1, <1>3, <1>4
<1> QED
  BY <1>2, <1>5, SMTT(40)

LEMMA SelectStep ==
  ASSUME IInv, NEW h \in Handler, Select(h)
  PROVE  IInv'
<1> DEFINE t == task[h].token
<1>1. task[h].at = "select" /\ task[h].at \in Statement \ LoginStatement
  BY Zenon DEF Select, Statement, LoginStatement
<1>2. t \in Token /\ task[h].read \in Nat
  BY <1>1, RunningHandler, Zenon
<1>3. last_use \in [Token -> Nat] /\ last_use[t] \in Nat
  BY <1>2, Zenon DEF IInv, Types
<1>4. /\ issued' = issued /\ gone' = gone /\ sessions' = sessions
      /\ expires_at' = expires_at /\ now' = now /\ late_writes' = late_writes
  BY Zenon DEF Select, history
<1>5. CASE t \in sessions /\ expires_at[t] > task[h].read
  <2>1. Awaits(h, "refresh") /\ Used(t, task[h].read)
    BY <1>5, Zenon DEF Select
  <2>2. last_use' = [last_use EXCEPT ![t] = Max2(last_use[t], task[h].read)]
    BY <2>1, Zenon DEF Used
  <2>3. /\ Max2(last_use[t], task[h].read) \in Nat
        /\ last_use[t] <= Max2(last_use[t], task[h].read)
        /\ task[h].read <= Max2(last_use[t], task[h].read)
    BY <1>2, <1>3 DEF Max2
  <2>4. last_use' \in [Token -> Nat] /\ task[h].read <= last_use'[t]
    BY <1>2, <1>3, <2>2, <2>3, Zenon
  <2>5. ASSUME NEW u \in Token PROVE last_use[u] <= last_use'[u]
    <3>1. CASE u = t
      BY <1>2, <1>3, <2>2, <2>3, <3>1, Zenon
    <3>2. CASE u # t
      <4>1. last_use'[u] = last_use[u] /\ last_use[u] \in Nat
        BY <1>3, <2>2, <3>2, Zenon
      <4> QED
        BY <4>1
    <3> QED
      BY <3>1, <3>2, Zenon
  <2>6. ~task[h].late
    BY <1>1, <1>5, SelectFinds, Zenon
  <2>7. "refresh" \in Statement \ LoginStatement
    BY Zenon DEF Statement, LoginStatement
  <2>8. TasksInv' /\ LoginsApart'
    BY <1>1, <1>4, <2>1, <2>4, <2>5, <2>6, <2>7, AwaitingKeepsTasks, Zenon
  <2>9. Types'
    BY <1>4, <2>4, Zenon DEF IInv, Types
  <2>10. RowsInv'
    <3>1. ASSUME NEW u \in sessions PROVE expires_at[u] <= last_use'[u] + Ttl
      <4>1. u \in Token /\ expires_at[u] <= last_use[u] + Ttl
        BY Zenon DEF IInv, Types, RowsInv
      <4>2. expires_at[u] \in Nat /\ last_use[u] \in Nat /\ last_use'[u] \in Nat
            /\ Ttl \in Nat
        BY <2>4, <4>1, TtlPositive, Zenon DEF IInv, Types
      <4>3. last_use[u] <= last_use'[u]
        BY <2>5, <4>1, Zenon
      <4> QED
        BY <4>1, <4>2, <4>3
    <3> QED
      BY <1>4, <3>1, Zenon DEF IInv, RowsInv
  <2> QED
    BY <2>8, <2>9, <2>10, Zenon DEF IInv
<1>6. CASE ~(t \in sessions /\ expires_at[t] > task[h].read)
  <2>1. Awaits(h, "expire") /\ last_use' = last_use
    BY <1>6, Zenon DEF Select
  <2>2. last_use' \in [Token -> Nat] /\ \A u \in Token : last_use[u] <= last_use'[u]
    BY <1>3, <2>1
  <2>3. "expire" \in Statement \ LoginStatement
    BY Zenon DEF Statement, LoginStatement
  <2>4. TasksInv' /\ LoginsApart'
    BY <1>1, <1>4, <2>1, <2>2, <2>3, AwaitingKeepsTasks, Zenon
  <2>5. Types' /\ RowsInv'
    BY <1>4, <2>1, Zenon DEF IInv, Types, RowsInv
  <2> QED
    BY <2>4, <2>5, Zenon DEF IInv
<1> QED
  BY <1>5, <1>6, Zenon

LEMMA ExpireStep ==
  ASSUME IInv, NEW h \in Handler, Expire(h)
  PROVE  IInv'
<1>1. TasksInv' /\ LoginsApart'
  BY EndingKeepsTasks, Zenon DEF Expire, history
<1>2. Types' /\ RowsInv'
  BY Zenon DEF Expire, history, IInv, Types, RowsInv
<1> QED
  BY <1>1, <1>2, Zenon DEF IInv

(* The UPDATE writes an expiry no later than the TTL after a use, and      *)
(* brings no row back.                                                     *)
LEMMA RefreshStep ==
  ASSUME IInv, NEW h \in Handler, Refresh(h)
  PROVE  IInv'
<1> DEFINE t == task[h].token
<1>1. task[h].at = "refresh" /\ task[h].at \in Statement \ LoginStatement
  BY Zenon DEF Refresh, Statement, LoginStatement
<1>2. Sound(task[h]) /\ t \in Token /\ task[h].read \in Nat
  BY <1>1, RunningHandler, Zenon
<1>3. ~task[h].late /\ task[h].read <= last_use[t]
  BY <1>1, <1>2, SMTT(40) DEF Sound
<1>4. /\ issued' = issued /\ gone' = gone /\ sessions' = sessions
      /\ last_use' = last_use /\ now' = now /\ late_writes' = late_writes
      /\ expires_at' = IF t \in sessions
                         THEN [expires_at EXCEPT ![t] = task[h].read + Ttl]
                         ELSE expires_at
  BY Zenon DEF Refresh, history
<1>5. /\ last_use \in [Token -> Nat] /\ expires_at \in [Token -> Nat]
      /\ Ttl \in Nat /\ last_use[t] \in Nat
  BY <1>2, TtlPositive, Zenon DEF IInv, Types
<1>6. Types'
  BY <1>2, <1>4, <1>5 DEF IInv, Types
<1>7. RowsInv'
  <2>1. ASSUME NEW u \in sessions PROVE expires_at'[u] <= last_use[u] + Ttl
    <3>1. u \in Token /\ expires_at[u] <= last_use[u] + Ttl
      BY Zenon DEF IInv, Types, RowsInv
    <3>2. CASE u = t
      <4>1. expires_at'[u] = task[h].read + Ttl
        BY <1>4, <1>5, <3>1, <3>2, Zenon
      <4> QED
        BY <1>2, <1>3, <1>5, <3>2, <4>1
    <3>3. CASE u # t
      <4>1. expires_at'[u] = expires_at[u]
        BY <1>4, <1>5, <3>1, <3>3, Zenon
      <4> QED
        BY <3>1, <4>1, Zenon
    <3> QED
      BY <3>2, <3>3, Zenon
  <2> QED
    BY <1>4, <2>1, Zenon DEF IInv, RowsInv
<1>8. TasksInv' /\ LoginsApart'
  <2>1. CASE Ends(h)
    BY <1>4, <2>1, EndingKeepsTasks, Zenon
  <2>2. ASSUME NEW st \in {"remove", "write"}, Awaits(h, st)
        PROVE  TasksInv' /\ LoginsApart'
    <3>1. st \in Statement \ LoginStatement /\ st # "refresh"
      BY Zenon DEF Statement, LoginStatement
    <3>2. last_use' \in [Token -> Nat]
          /\ \A u \in Token : last_use[u] <= last_use'[u]
      BY <1>4, <1>5
    <3> QED
      BY <1>1, <1>3, <1>4, <2>2, <3>1, <3>2, AwaitingKeepsTasks, Zenon
  <2>3. Ends(h) \/ Awaits(h, "remove") \/ Awaits(h, "write")
    BY Zenon DEF Refresh, Proceed
  <2> QED
    BY <2>1, <2>2, <2>3, Zenon
<1> QED
  BY <1>6, <1>7, <1>8, Zenon DEF IInv

LEMMA RemoveStep ==
  ASSUME IInv, NEW h \in Handler, Remove(h)
  PROVE  IInv'
<1>1. task[h].token \in Token /\ task[h].token \in issued
  BY RunningHandler, Zenon DEF Remove, Statement, Sound, LoginStatement
<1>2. TasksInv' /\ LoginsApart'
  BY EndingKeepsTasks, Zenon DEF Remove
<1>3. Types' /\ RowsInv'
  BY <1>1, Zenon DEF Remove, IInv, Types, RowsInv
<1> QED
  BY <1>2, <1>3, Zenon DEF IInv

(* A handler that writes is not late.                                      *)
LEMMA WriteStep ==
  ASSUME IInv, NEW h \in Handler, NEW i \in Item, Write(h, i)
  PROVE  IInv'
<1>1. ~task[h].late
  BY RunningHandler, Zenon DEF Write, Statement, Sound
<1>2. TasksInv' /\ LoginsApart'
  BY EndingKeepsTasks, Zenon DEF Write
<1>3. Types' /\ RowsInv'
  BY <1>1, Zenon DEF Write, IInv, Types, RowsInv
<1> QED
  BY <1>2, <1>3, Zenon DEF IInv

(* A failed statement and a dropped handler leave every row as it is.      *)
LEMMA InterruptedStep ==
  ASSUME IInv, NEW h \in Handler, StatementFails(h) \/ Dropped(h)
  PROVE  IInv'
<1>1. TasksInv' /\ LoginsApart'
  BY EndingKeepsTasks, Zenon DEF StatementFails, Dropped, history
<1>2. Types' /\ RowsInv'
  BY Zenon DEF StatementFails, Dropped, history, IInv, Types, RowsInv
<1> QED
  BY <1>1, <1>2, Zenon DEF IInv

(* Steps of no handler: the clock, and stuttering.                         *)
LEMMA NoHandlerStep ==
  ASSUME IInv, Tick \/ UNCHANGED vars
  PROVE  IInv'
<1>1. UNCHANGED <<task, issued, gone, last_use, sessions, expires_at, late_writes>>
  BY Zenon DEF Tick, vars, history
<1>2. now' \in Nat
  BY DEF Tick, vars, IInv, Types
<1>3. Types'
  BY <1>1, <1>2, SMTT(40) DEF IInv, Types
<1>4. TasksInv'
  BY <1>1, Zenon DEF IInv, TasksInv, Sound
<1>5. LoginsApart'
  BY <1>1, Zenon DEF IInv, LoginsApart
<1>6. RowsInv'
  BY <1>1, Zenon DEF IInv, RowsInv
<1> QED
  BY <1>3, <1>4, <1>5, <1>6, Zenon DEF IInv

(* IInv is inductive.                                                      *)
LEMMA NextIInv == IInv /\ [Next]_vars => IInv'
<1> SUFFICES ASSUME IInv, [Next]_vars PROVE IInv'
  BY Zenon
<1>1. ASSUME NEW h \in Handler, Handle(h) PROVE IInv'
  <2>1. CASE \E t \in Token : BeginLogin(h, t)
    BY <2>1, BeginLoginStep, Zenon
  <2>2. CASE VerifyUser(h)
    BY <2>2, VerifyUserStep, Zenon
  <2>3. CASE InsertSession(h)
    BY <2>3, InsertSessionStep, Zenon
  <2>4. CASE \E op \in Operation \ {"login"}, t \in Token, csrf \in BOOLEAN :
               BeginGet(h, op, t, csrf)
    BY <2>4, BeginGetStep, Zenon
  <2>5. CASE Select(h)
    BY <2>5, SelectStep, Zenon
  <2>6. CASE Expire(h)
    BY <2>6, ExpireStep, Zenon
  <2>7. CASE Refresh(h)
    BY <2>7, RefreshStep, Zenon
  <2>8. CASE Remove(h)
    BY <2>8, RemoveStep, Zenon
  <2>9. CASE \E i \in Item : Write(h, i)
    BY <2>9, WriteStep, Zenon
  <2>10. CASE StatementFails(h) \/ Dropped(h)
    BY <2>10, InterruptedStep, Zenon
  <2> QED
    BY <1>1, <2>1, <2>2, <2>3, <2>4, <2>5, <2>6, <2>7, <2>8, <2>9, <2>10, Zenon
       DEF Handle
<1>2. CASE Tick \/ UNCHANGED vars
  BY <1>2, NoHandlerStep, Zenon
<1>3. CASE Finished
  BY <1>3, NoHandlerStep, Zenon DEF Finished
<1> QED
  BY <1>1, <1>2, <1>3, Zenon DEF Next

(* The invariant holds in every reachable state.                           *)
THEOREM Invariance == Spec => []IInv
  BY InitIInv, NextIInv, PTL DEF Spec

(* Every variable keeps its type; the items and the counters of requests   *)
(* are nothing the sessions depend on.                                     *)
THEOREM TypeCorrect == Spec => []TypeOK
<1> DEFINE Rest == /\ items \subseteq Item /\ made \subseteq Item
                   /\ requests \in Nat /\ unexpired \in BOOLEAN
<1>1. Init => Rest
  <2>1. Init => items \subseteq Item /\ made \subseteq Item /\ requests \in Nat
    BY DEF Init
  <2>2. Init => unexpired \in BOOLEAN
    BY Zenon DEF Init
  <2> QED
    BY <2>1, <2>2, Zenon
<1>2. Rest /\ [Next]_vars => Rest'
  <2> SUFFICES ASSUME Rest, [Next]_vars PROVE Rest'
    BY Zenon
  <2>1. ASSUME NEW h \in Handler, Handle(h) PROVE Rest'
    <3>1. CASE (\E t \in Token : BeginLogin(h, t)) \/ VerifyUser(h) \/ InsertSession(h)
      BY <3>1 DEF BeginLogin, VerifyUser, InsertSession, history
    <3>2. CASE \E op \in Operation \ {"login"}, t \in Token, csrf \in BOOLEAN :
                 BeginGet(h, op, t, csrf)
      BY <3>2, SMTT(40) DEF BeginGet, history
    <3>3. CASE Select(h) \/ Refresh(h) \/ Remove(h)
      BY <3>3, ZenonT(40) DEF Select, Refresh, Remove, history
    <3>4. CASE Expire(h)
      BY <3>4, Zenon DEF Expire, history
    <3>5. CASE \E i \in Item : Write(h, i)
      BY <3>5, Zenon DEF Write
    <3>6. CASE StatementFails(h) \/ Dropped(h)
      BY <3>6, Zenon DEF StatementFails, Dropped, history
    <3> QED
      BY <2>1, <3>1, <3>2, <3>3, <3>4, <3>5, <3>6, Zenon DEF Handle
  <2>2. CASE Tick \/ Finished \/ UNCHANGED vars
    BY <2>2, Zenon DEF Tick, Finished, vars, history
  <2> QED
    BY <2>1, <2>2, Zenon DEF Next
<1>3. IInv /\ Rest => TypeOK
  BY DEF IInv, Types, TasksInv, TypeOK
<1> QED
  BY <1>1, <1>2, <1>3, Invariance, PTL DEF Spec

(* No lookup that races a logout brings the session back.                  *)
THEOREM LogoutIsFinal == Spec => []LogoutFinal
<1>1. IInv => LogoutFinal
  BY Zenon DEF IInv, RowsInv, LogoutFinal
<1> QED
  BY <1>1, Invariance, PTL

(* No request begun after the logout of its session changes an item.       *)
THEOREM NoLateWrite == Spec => []NoWriteAfterLogout
<1>1. IInv => NoWriteAfterLogout
  BY Zenon DEF IInv, Types, NoWriteAfterLogout
<1> QED
  BY <1>1, Invariance, PTL

(* A lookup finds a session only within the TTL of its last use: only the  *)
(* handler's own SELECT takes it from "select" to "refresh".               *)
THEOREM FoundInTime == Spec => FoundWithinTtl
<1> DEFINE Found(h) == task[h].at = "select" /\ task'[h].at = "refresh" =>
                          task[h].read < last_use[task[h].token] + Ttl
<1>1. ASSUME IInv, Next, NEW h \in Handler PROVE Found(h)
  <2> SUFFICES ASSUME task[h].at = "select", task'[h].at = "refresh"
               PROVE  task[h].read < last_use[task[h].token] + Ttl
    BY Zenon
  <2>1. task \in [Handler -> {Free} \cup Running] /\ task[h] # Free
    BY <1>1 DEF IInv, TasksInv, Free
  <2>2. Free.at # "refresh"
    BY Zenon DEF Free
  <2>3. ~(Tick \/ Finished)
    BY Zenon DEF Tick, Finished, vars
  <2>4. PICK g \in Handler : Handle(g)
    BY <1>1, <2>3, Zenon DEF Next
  <2>5. ASSUME NEW f \in Handler, NEW x, task' = [task EXCEPT ![f] = x],
               x.at # "refresh" \/ f # h
        PROVE  FALSE
    BY <2>1, <2>5, Zenon
  <2>6. ~Ends(g)
    BY <2>2, <2>5, Zenon DEF Ends
  <2>7. g = h
    <3> SUFFICES ASSUME g # h PROVE FALSE
      BY Zenon
    <3>1. task'[h] = task[h]
      BY <2>1, <2>4, Zenon DEF Handle, BeginLogin, VerifyUser, InsertSession, BeginGet,
         Select, Expire, Refresh, Remove, Write, StatementFails, Dropped,
         Proceed, Ends, Awaits
    <3> QED
      BY <3>1, Zenon
  <2>8. Select(h)
    BY <2>1, <2>4, <2>6, <2>7, Zenon DEF Handle, BeginLogin, VerifyUser, InsertSession,
       BeginGet, Expire, Refresh, Remove, Write, StatementFails, Dropped
  <2>9. task[h].token \in sessions /\ expires_at[task[h].token] > task[h].read
    <3> SUFFICES ASSUME ~(task[h].token \in sessions
                          /\ expires_at[task[h].token] > task[h].read)
                 PROVE  FALSE
      BY SMTT(40)
    <3>1. Awaits(h, "expire")
      BY <2>8, Zenon DEF Select
    <3>2. task[h] \in Running
      BY <2>1, Zenon
    <3>3. task'[h].at = "expire"
      BY <2>1, <3>1, <3>2, Zenon DEF Awaits, Running
    <3> QED
      BY <3>3, Zenon
  <2> QED
    BY <1>1, <2>9, SelectFinds, Zenon
<1>2. IInv /\ [Next]_vars => [\A h \in Handler : Found(h)]_vars
  BY <1>1, Zenon
<1> QED
  BY <1>2, Invariance, PTL DEF Spec, FoundWithinTtl

==============================================================================
