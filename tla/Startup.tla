------------------------------ MODULE Startup ------------------------------
(***************************************************************************)
(* The life of a server process, seen from outside: ServerConfig::from_env, *)
(* Server::run up to the first turn of the accept loop, and the redirect    *)
(* listener beside it.  Several replicas start, crash and are restarted on   *)
(* one database, whose schema and administrator each of them creates when    *)
(* missing.  A step is one call that may fail or that others can observe: a  *)
(* bind, an SQL statement, a poll of the redirect loop.                      *)
(***************************************************************************)
EXTENDS Integers, FiniteSets

CONSTANTS Replica,    \* the processes a supervisor keeps running
          Env,        \* the environment variables of each of them
          MaxFaults   \* bound: crashes and failed statements in a behaviour

VARIABLES pc,         \* how far the process has come
          redirect,   \* where its run_http_redirect task is
          tables,     \* the tables that exist
          users,      \* the password hash stored for each user
          conflicts,  \* history: INSERTs refused because the row existed
          faults      \* history: crashes and failed statements so far

startupVars == <<pc, redirect, tables, users, conflicts, faults>>

Table == {"items", "users", "sessions"}

Unset == "unset"

ASSUME StartupAssumption == Unset \notin Replica /\ MaxFaults \in Nat

(* A numeric variable: its default and the least and the greatest value that *)
(* is accepted.  Types wider than 16 bits end beyond any value used here.    *)
Number(name, default, least, most) ==
  [name |-> name, default |-> default, least |-> least, most |-> most]

Positive(name, default) == Number(name, default, 1, 2^30)

(* For WORKERS the default is the parallelism of the machine, or 4.          *)
Limit ==
  {Positive("WORKERS", 4), Positive("BLOCKING_THREADS", 512),
   Positive("RATE_LIMIT_RPS", 100), Positive("MAX_CONNECTIONS", 10000),
   Positive("MAX_BODY_BYTES", 4194304), Positive("KEEP_ALIVE_TIMEOUT", 75),
   Positive("MAX_CONCURRENT_REQUESTS", 5000), Positive("SHUTDOWN_DRAIN_SECS", 30),
   Positive("REQUEST_TIMEOUT_SECS", 30), Positive("DB_POOL_SIZE", 5)}

Port == Number("PORT", 8080, 0, 65535)
RedirectPort == Number("HTTP_REDIRECT_PORT", 0, 0, 65535)   \* may be absent

Value(env, n) ==
  IF n.name \in DOMAIN env.numbers THEN env.numbers[n.name] ELSE n.default

InRange(env, n) ==
  \/ n.name \notin DOMAIN env.numbers
  \/ Value(env, n) >= n.least /\ Value(env, n) <= n.most

RedirectConfigured(env) == RedirectPort.name \in DOMAIN env.numbers

(* from_env: the first variable that does not parse ends the process, so the *)
(* order of the checks does not show.  HOST must be an address, not a name.  *)
FromEnvOk(env) ==
  /\ env.host # "a name"
  /\ \A n \in Limit \cup {Port, RedirectPort} : InRange(env, n)

(* Both paths must be set; with one of them the server speaks plain HTTP. *)
TlsActive(env) == env.cert # Unset /\ env.key # Unset

LoadTlsOk(env) == TlsActive(env) => env.cert = "good" /\ env.key = "good"

(* AUTH_PASSWORD_HASH, when set, must be a PHC string; a hash made from      *)
(* AUTH_PASSWORD is one.                                                     *)
HashOk(env) == env.hash # "garbage"

----------------------------------------------------------------------------
(* Where a process is.  Each phase is named for the call it is about to make. *)
Stopped == {"down", "failed"}
Migrating == {"items", "users", "sessions"}
Bound == {"tls", "connect"} \cup Migrating
           \cup {"select", "insert", "spawn", "serving", "signalled", "draining"}
Phase == Stopped \cup {"bind"} \cup Bound

StartupInit ==
  /\ pc = [r \in Replica |-> "down"]
  /\ redirect = [r \in Replica |-> "off"]
  /\ tables = {}
  /\ users = [u \in {Env[r].username : r \in Replica} |-> Unset]
  /\ conflicts = [r \in Replica |-> 0]
  /\ faults = 0

Goes(r, from, to) == pc[r] = from /\ pc' = [pc EXCEPT ![r] = to]

DatabaseUnchanged == UNCHANGED <<tables, users, conflicts>>

Address(r) == <<Env[r].host, Value(Env[r], Port)>>
RedirectAddress(r) == <<Env[r].host, Value(Env[r], RedirectPort)>>
Accepting == {"listening", "backoff"}

(* The kernel lends an address to one listener at a time; for port 0 it picks *)
(* a free one.                                                               *)
Unbound(a) ==
  \/ a[2] = 0
  \/ \A r \in Replica : /\ pc[r] \in Bound => Address(r) # a
                        /\ redirect[r] \in Accepting => RedirectAddress(r) # a

(* The supervisor starts the process, which reads its environment. *)
Launch(r) ==
  /\ pc[r] \in Stopped
  /\ pc' = [pc EXCEPT ![r] = IF FromEnvOk(Env[r]) THEN "bind" ELSE "failed"]
  /\ UNCHANGED <<redirect, faults>> /\ DatabaseUnchanged

Bind(r) ==
  /\ Goes(r, "bind", IF Unbound(Address(r)) THEN "tls" ELSE "failed")
  /\ UNCHANGED <<redirect, faults>> /\ DatabaseUnchanged

LoadTls(r) ==
  /\ Goes(r, "tls", IF LoadTlsOk(Env[r]) THEN "connect" ELSE "failed")
  /\ UNCHANGED <<redirect, faults>> /\ DatabaseUnchanged

(* init_pool: the URL must be of the backend the binary was built for. *)
Connect(r) ==
  /\ Goes(r, "connect", IF Env[r].backend = "as built" THEN "items" ELSE "failed")
  /\ UNCHANGED <<redirect, faults>> /\ DatabaseUnchanged

(* run_migrations: three statements, each CREATE TABLE IF NOT EXISTS. *)
AfterTable(t) ==
  CASE t = "items" -> "users" [] t = "users" -> "sessions" [] t = "sessions" -> "select"

(* Variant: a schema that was begun is taken to be complete. *)
CreateTableUnlessBegun(r) ==
  \E t \in Table :
    /\ Goes(r, t, IF t = "items" /\ t \in tables THEN "select" ELSE AfterTable(t))
    /\ tables' = tables \cup {t}
    /\ UNCHANGED <<redirect, users, conflicts, faults>>

(* Variant: CREATE TABLE without IF NOT EXISTS. *)
CreateTableAnew(r) ==
  \E t \in Table :
    /\ Goes(r, t, IF t \in tables THEN "failed" ELSE AfterTable(t))
    /\ tables' = tables \cup {t}
    /\ UNCHANGED <<redirect, users, conflicts, faults>>

CreateTable(r) ==
  \E t \in Table :
    /\ Goes(r, t, AfterTable(t))
    /\ tables' = tables \cup {t}
    /\ UNCHANGED <<redirect, users, conflicts, faults>>

(* Variant: the administrator is inserted without a look. *)
SelectUserNever(r) ==
  /\ Goes(r, "select", IF ~HashOk(Env[r]) THEN "failed" ELSE "insert")
  /\ UNCHANGED <<redirect, faults>> /\ DatabaseUnchanged

(* create_user_with_hash_if_missing: the hash is parsed before the SELECT. *)
SelectUser(r) ==
  /\ Goes(r, "select", IF ~HashOk(Env[r]) THEN "failed"
                       ELSE IF users[Env[r].username] # Unset THEN "spawn" ELSE "insert")
  /\ UNCHANGED <<redirect, faults>> /\ DatabaseUnchanged

(* Variant: INSERT OR REPLACE. *)
InsertUserReplacing(r) ==
  /\ Goes(r, "insert", "spawn")
  /\ users' = [users EXCEPT ![Env[r].username] = r]
  /\ UNCHANGED <<redirect, tables, conflicts, faults>>

(* The INSERT of the row the SELECT did not find.  The username is the       *)
(* primary key: a row another replica has inserted since makes it fail.  The *)
(* stored hash is salted, and so told apart by the replica that made it.     *)
InsertUser(r) ==
  LET u == Env[r].username IN
  /\ Goes(r, "insert", IF users[u] = Unset THEN "spawn" ELSE "failed")
  /\ users' = [users EXCEPT ![u] = IF @ = Unset THEN r ELSE @]
  /\ conflicts' = [conflicts EXCEPT ![r] = IF users[u] = Unset THEN @ ELSE @ + 1]
  /\ UNCHANGED <<redirect, tables, faults>>

(* Variant: the port is enough to start the redirect. *)
SpawnRedirectWithoutTls(r) ==
  /\ Goes(r, "spawn", "serving")
  /\ redirect' = [redirect EXCEPT ![r] =
                   IF RedirectConfigured(Env[r]) THEN "bind" ELSE "off"]
  /\ UNCHANGED faults /\ DatabaseUnchanged

(* The rest of the state is built, the redirect task spawned, the loop begins. *)
SpawnRedirect(r) ==
  /\ Goes(r, "spawn", "serving")
  /\ redirect' = [redirect EXCEPT ![r] =
                   IF TlsActive(Env[r]) /\ RedirectConfigured(Env[r])
                   THEN "bind" ELSE "off"]
  /\ UNCHANGED faults /\ DatabaseUnchanged

(* The end of the loop, the broadcast after the settle time, and the return, *)
(* after which the runtime drops the redirect task.  The listener of the     *)
(* server lives until then.                                                  *)
Signal(r) ==
  /\ Goes(r, "serving", "signalled")
  /\ UNCHANGED <<redirect, faults>> /\ DatabaseUnchanged

SendShutdown(r) ==
  /\ Goes(r, "signalled", "draining")
  /\ UNCHANGED <<redirect, faults>> /\ DatabaseUnchanged

Exit(r) ==
  /\ Goes(r, "draining", "down")
  /\ redirect' = [redirect EXCEPT ![r] = "off"]
  /\ UNCHANGED faults /\ DatabaseUnchanged

(* A crash, or an SQL statement that failed: the process ends, and whatever  *)
(* it wrote stays.                                                           *)
Fault(r) ==
  /\ pc[r] \notin Stopped
  /\ faults < MaxFaults
  /\ faults' = faults + 1
  /\ pc' = [pc EXCEPT ![r] = "failed"]
  /\ redirect' = [redirect EXCEPT ![r] = "off"]
  /\ DatabaseUnchanged

----------------------------------------------------------------------------
(* run_http_redirect.  A failed bind is logged and ends the task alone.  A   *)
(* redirect it serves is a task nobody counts or waits for, and leaves no    *)
(* trace here.                                                               *)
RedirectGoes(r, from, to) ==
  /\ redirect[r] = from
  /\ redirect' = [redirect EXCEPT ![r] = to]
  /\ UNCHANGED <<pc, faults>> /\ DatabaseUnchanged

RedirectBind(r) ==
  RedirectGoes(r, "bind", IF Unbound(RedirectAddress(r)) THEN "listening" ELSE "ended")

RedirectAcceptError(r) == pc[r] # "draining" /\ RedirectGoes(r, "listening", "backoff")

RedirectBackoffOver(r) == RedirectGoes(r, "backoff", "listening")

RedirectStops(r) == pc[r] = "draining" /\ RedirectGoes(r, "listening", "ended")

----------------------------------------------------------------------------
Start(r) ==
  \/ Bind(r) \/ LoadTls(r) \/ Connect(r) \/ CreateTable(r)
  \/ SelectUser(r) \/ InsertUser(r) \/ SpawnRedirect(r)

Stop(r) == SendShutdown(r) \/ Exit(r)

Redirect(r) ==
  RedirectBind(r) \/ RedirectAcceptError(r) \/ RedirectBackoffOver(r) \/ RedirectStops(r)

StartupNext ==
  \E r \in Replica : Launch(r) \/ Start(r) \/ Signal(r) \/ Stop(r) \/ Fault(r) \/ Redirect(r)

StartupSpec == StartupInit /\ [][StartupNext]_startupVars

(* A process runs, a supervisor restarts one that ended, and a drain ends    *)
(* (ShutdownCompletes of AcceptLoop).  Crashes are finitely many.            *)
StartupFairSpec ==
  /\ StartupSpec
  /\ \A r \in Replica :
       WF_startupVars(Launch(r)) /\ WF_startupVars(Start(r)) /\ WF_startupVars(Stop(r))

----------------------------------------------------------------------------
StartupTypeOK ==
  /\ pc \in [Replica -> Phase]
  /\ redirect \in [Replica -> {"off", "bind", "listening", "backoff", "ended"}]
  /\ tables \subseteq Table
  /\ users \in [{Env[r].username : r \in Replica} -> Replica \cup {Unset}]
  /\ conflicts \in [Replica -> Nat]
  /\ faults \in 0..MaxFaults

(* A process that serves found its whole schema and an administrator it can  *)
(* check logins against, whatever replicas crashed half way through the      *)
(* migrations or the bootstrap before it (init_pool and                      *)
(* create_user_with_hash_if_missing, run on a database in any state).        *)
ServingIsReady ==
  \A r \in Replica : pc[r] \in {"spawn", "serving", "signalled", "draining"} =>
    tables = Table /\ users[Env[r].username] # Unset

(* Starting never changes the credentials of an account that exists:         *)
(* models.rs says the bootstrap password "is not used again after the        *)
(* account exists", also when replicas with different passwords race.        *)
BootstrapNeverOverwrites ==
  [][\A u \in DOMAIN users : users[u] # Unset => users'[u] = users[u]]_startupVars

(* The race of the SELECT and the INSERT of two replicas costs the loser one *)
(* failed start at most: its next start finds the row.                       *)
ConflictAtMostOnce == \A r \in Replica : conflicts[r] <= 1

(* Whoever is redirected to https:// by a process is sent to a TLS listener  *)
(* of that same process, which is past its start-up.                         *)
RedirectLeadsToTls ==
  \A r \in Replica : redirect[r] # "off" =>
    TlsActive(Env[r]) /\ pc[r] \in {"serving", "signalled", "draining"}

(* A replica whose configuration is valid serves again and again, through    *)
(* crashes, lost races and restarts of the others, unless another listener   *)
(* holds its address.                                                        *)
ConfigurationValid(r) ==
  /\ FromEnvOk(Env[r]) /\ LoadTlsOk(Env[r]) /\ HashOk(Env[r])
  /\ Env[r].backend = "as built"

AddressTaken(r) ==
  \/ \E s \in Replica \ {r} : pc[s] \in Bound /\ Address(s) = Address(r)
  \/ \E s \in Replica : redirect[s] \in Accepting /\ RedirectAddress(s) = Address(r)

ValidReplicasServe ==
  \A r \in Replica : ConfigurationValid(r) => []<>(pc[r] = "serving" \/ AddressTaken(r))
=============================================================================
