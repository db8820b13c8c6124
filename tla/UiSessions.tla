----------------------------- MODULE UiSessions -----------------------------
(***************************************************************************)
(* The browser sessions: SessionStore in src/session/mod.rs and the /ui    *)
(* handlers of src/server/connection.rs that use it to log in, log out and *)
(* change items.                                                           *)
(*                                                                         *)
(* Handlers run concurrently, on one server or on replicas that share the  *)
(* database.  Each SQL statement is a step of its own, and there are no    *)
(* transactions: SessionStore::get is a SELECT followed, later, by an      *)
(* UPDATE or a DELETE.  A handler can be dropped at each of them (request  *)
(* timeout, client gone), and each of them can fail.                       *)
(***************************************************************************)
EXTENDS Integers

CONSTANTS
  Handler,      \* handlers that may run at the same time
  Token,        \* UUIDs of sessions
  Item,         \* UUIDs of items
  Ttl,          \* SESSION_TTL_SECS
  MaxTime,      \* bound on the clock
  MaxRequests   \* bound on the requests

ASSUME TtlPositive == Ttl \in Nat \ {0}

VARIABLES
  now,         \* the wall clock, in seconds
  sessions,    \* tokens of the rows of the sessions table
  expires_at,  \* that column, by token
  items,       \* ids of the rows of the items table
  task,        \* the handlers
  requests,    \* history: requests begun
  issued,      \* history: tokens of the sessions created
  made,        \* history: item ids handed out
  gone,        \* history: tokens removed by a logout
  last_use,    \* history: when each session was last created or looked up
  late_writes, \* history: item writes of requests begun after the logout
  unexpired    \* history: a lookup removed a row that had not expired

vars == <<now, sessions, expires_at, items, task, requests, issued, made, gone,
          last_use, late_writes, unexpired>>

history == <<made, gone, late_writes>>

(***************************************************************************)
(* A handler waits for the statement named by `at`.  `read` is the time it *)
(* took from the clock, `csrf` whether its form carries the token's CSRF   *)
(* secret, `late` (history) whether its session was logged out before it   *)
(* began.                                                                  *)
(***************************************************************************)
Statement == {"verify", "insert", "select", "expire", "refresh", "remove",
              "write"}
Operation == {"login", "page", "logout", "create", "delete"}

Free == [at |-> "free"]

Running == [at : Statement, op : Operation, token : Token, csrf : BOOLEAN,
            read : Nat, late : BOOLEAN]

TypeOK ==
  /\ now \in Nat
  /\ sessions \subseteq Token
  /\ expires_at \in [Token -> Nat]
  /\ items \subseteq Item
  /\ task \in [Handler -> {Free} \cup Running]
  /\ requests \in Nat
  /\ issued \subseteq Token
  /\ made \subseteq Item
  /\ gone \subseteq Token
  /\ last_use \in [Token -> Nat]
  /\ late_writes \in Nat
  /\ unexpired \in BOOLEAN

Init ==
  /\ now = 0
  /\ sessions = {} /\ items = {}
  /\ expires_at = [t \in Token |-> 0]
  /\ task = [h \in Handler |-> Free]
  /\ requests = 0
  /\ issued = {} /\ made = {} /\ gone = {}
  /\ last_use = [t \in Token |-> 0]
  /\ late_writes = 0
  /\ unexpired = FALSE

Ends(h) == task' = [task EXCEPT ![h] = Free]

Awaits(h, statement) == task' = [task EXCEPT ![h].at = statement]

Max2(a, b) == IF a > b THEN a ELSE b

Used(t, time) == last_use' = [last_use EXCEPT ![t] = Max2(@, time)]

-----------------------------------------------------------------------------
(* POST /ui/login.                                                         *)

(* The token of a login is one no session has or will have: a UUID v4 is   *)
(* not repeated.                                                           *)
BeginLogin(h, t) ==
  /\ task[h] = Free
  /\ requests < MaxRequests
  /\ t \notin issued
  /\ \A g \in Handler : task[g] # Free => task[g].token # t
  /\ requests' = requests + 1
  /\ task' = [task EXCEPT ![h] = [at |-> "verify", op |-> "login", token |-> t,
                                  csrf |-> FALSE, read |-> now, late |-> FALSE]]
  /\ UNCHANGED <<now, sessions, expires_at, items, issued, last_use, unexpired>>
  /\ UNCHANGED history

(* verify_user.  The password is right or it is not; when it is, create()  *)
(* reads the clock.                                                        *)
VerifyUser(h) ==
  /\ task[h].at = "verify"
  /\ \/ task' = [task EXCEPT ![h].at = "insert", ![h].read = now]
     \/ Ends(h)
  /\ UNCHANGED <<now, sessions, expires_at, items, requests, issued, last_use,
                 unexpired>>
  /\ UNCHANGED history

InsertSession(h) ==
  /\ task[h].at = "insert"
  /\ LET t == task[h].token
     IN  /\ sessions' = sessions \cup {t}
         /\ expires_at' = [expires_at EXCEPT ![t] = task[h].read + Ttl]
         /\ issued' = issued \cup {t}
         /\ Used(t, task[h].read)
  /\ Ends(h)
  /\ UNCHANGED <<now, items, requests, unexpired>>
  /\ UNCHANGED history

-----------------------------------------------------------------------------
(* SessionStore::get, with which every other /ui handler begins.           *)

(* A browser sends a cookie it was given; get() reads the clock.           *)
BeginGet(h, op, t, csrf) ==
  /\ task[h] = Free
  /\ requests < MaxRequests
  /\ t \in issued
  /\ requests' = requests + 1
  /\ task' = [task EXCEPT ![h] = [at |-> "select", op |-> op, token |-> t,
                                  csrf |-> csrf, read |-> now,
                                  late |-> t \in gone]]
  /\ UNCHANGED <<now, sessions, expires_at, items, issued, last_use, unexpired>>
  /\ UNCHANGED history

(* Variant: the expiry is not part of the query.                           *)
SelectAny(h) ==
  /\ task[h].at = "select"
  /\ LET t == task[h].token
     IN  IF t \in sessions
           THEN Awaits(h, "refresh") /\ Used(t, task[h].read)
           ELSE Awaits(h, "expire") /\ UNCHANGED last_use
  /\ UNCHANGED <<now, sessions, expires_at, items, requests, issued, unexpired>>
  /\ UNCHANGED history

(* SELECT ... WHERE token = $1 AND expires_at > $2.                        *)
Select(h) ==
  /\ task[h].at = "select"
  /\ LET t == task[h].token
     IN  IF t \in sessions /\ expires_at[t] > task[h].read
           THEN Awaits(h, "refresh") /\ Used(t, task[h].read)
           ELSE Awaits(h, "expire") /\ UNCHANGED last_use
  /\ UNCHANGED <<now, sessions, expires_at, items, requests, issued, unexpired>>
  /\ UNCHANGED history

(* What a handler does with a session, by operation: a page is rendered,   *)
(* the others need the CSRF secret (403 without).                          *)
Proceed(h) ==
  IF task[h].op = "page" \/ ~task[h].csrf
    THEN Ends(h)
    ELSE Awaits(h, IF task[h].op = "logout" THEN "remove" ELSE "write")

(* Variant: the handler goes on without a session.                         *)
ExpireProceeding(h) ==
  /\ task[h].at = "expire"
  /\ sessions' = sessions \ {task[h].token}
  /\ Proceed(h)
  /\ UNCHANGED <<now, expires_at, items, requests, issued, last_use, unexpired>>
  /\ UNCHANGED history

(* DELETE of the row not found: no session, the handler answers with a     *)
(* redirect, a 403 or a page without a user.                               *)
Expire(h) ==
  /\ task[h].at = "expire"
  /\ LET t == task[h].token
     IN  /\ sessions' = sessions \ {t}
         /\ unexpired' = (unexpired \/ (t \in sessions /\ expires_at[t] > now))
  /\ Ends(h)
  /\ UNCHANGED <<now, expires_at, items, requests, issued, last_use>>
  /\ UNCHANGED history

(* Variant: the refresh writes the row back.                               *)
RefreshUpsert(h) ==
  /\ task[h].at = "refresh"
  /\ LET t == task[h].token
     IN  /\ sessions' = sessions \cup {t}
         /\ expires_at' = [expires_at EXCEPT ![t] = task[h].read + Ttl]
  /\ Proceed(h)
  /\ UNCHANGED <<now, items, requests, issued, last_use, unexpired>>
  /\ UNCHANGED history

(* UPDATE of the row, if it still exists, with the time read before the    *)
(* SELECT.                                                                 *)
Refresh(h) ==
  /\ task[h].at = "refresh"
  /\ LET t == task[h].token
     IN  expires_at' = IF t \in sessions
                         THEN [expires_at EXCEPT ![t] = task[h].read + Ttl]
                         ELSE expires_at
  /\ Proceed(h)
  /\ UNCHANGED <<now, sessions, items, requests, issued, last_use, unexpired>>
  /\ UNCHANGED history

-----------------------------------------------------------------------------
(* The statement a handler executes for its session.                       *)

(* POST /ui/logout: remove(), then the cookie is cleared.                  *)
Remove(h) ==
  /\ task[h].at = "remove"
  /\ sessions' = sessions \ {task[h].token}
  /\ gone' = gone \cup {task[h].token}
  /\ Ends(h)
  /\ UNCHANGED <<now, expires_at, items, requests, issued, made, last_use,
                 late_writes, unexpired>>

(* POST /ui/items inserts an item with a new UUID,                         *)
(* POST /ui/items/:id/delete deletes one if it exists.                     *)
Write(h, i) ==
  /\ task[h].at = "write"
  /\ \/ /\ task[h].op = "create" /\ i \notin made
        /\ items' = items \cup {i} /\ made' = made \cup {i}
     \/ /\ task[h].op = "delete"
        /\ items' = items \ {i} /\ UNCHANGED made
  /\ late_writes' = IF task[h].late THEN late_writes + 1 ELSE late_writes
  /\ Ends(h)
  /\ UNCHANGED <<now, sessions, expires_at, requests, issued, gone,
                 last_use, unexpired>>

(* A statement fails.  A failed lookup counts as no session, a failed      *)
(* insert or write is an error page; but a failed remove() is only logged, *)
(* and the cookie is cleared.                                              *)
StatementFails(h) ==
  /\ task[h].at \in Statement
  /\ Ends(h)
  /\ UNCHANGED <<now, sessions, expires_at, items, requests, issued, last_use,
                 unexpired>>
  /\ UNCHANGED history

(* The handler is dropped while it waits.                                  *)
Dropped(h) ==
  /\ task[h].at \in Statement
  /\ Ends(h)
  /\ UNCHANGED <<now, sessions, expires_at, items, requests, issued, last_use,
                 unexpired>>
  /\ UNCHANGED history

Tick ==
  /\ now < MaxTime
  /\ now' = now + 1
  /\ UNCHANGED <<sessions, expires_at, items, task, requests, issued, last_use,
                 unexpired>>
  /\ UNCHANGED history

Finished ==
  /\ now = MaxTime /\ requests = MaxRequests
  /\ \A h \in Handler : task[h] = Free
  /\ UNCHANGED vars

Handle(h) ==
  \/ \E t \in Token : BeginLogin(h, t)
  \/ VerifyUser(h)
  \/ InsertSession(h)
  \/ \E op \in Operation \ {"login"}, t \in Token, csrf \in BOOLEAN :
        BeginGet(h, op, t, csrf)
  \/ Select(h)
  \/ Expire(h)
  \/ Refresh(h)
  \/ Remove(h)
  \/ \E i \in Item : Write(h, i)
  \/ StatementFails(h)
  \/ Dropped(h)

Next == (\E h \in Handler : Handle(h)) \/ Tick \/ Finished

Spec == Init /\ [][Next]_vars

-----------------------------------------------------------------------------
(* Properties.                                                             *)

(* A logout is final: no lookup that races it, however late its UPDATE,    *)
(* brings the row back.                                                    *)
LogoutFinal == gone \cap sessions = {}

(* No request that began after the logout changes an item, although        *)
(* handlers act on a session they looked up earlier.                       *)
NoWriteAfterLogout == late_writes = 0

(* "How long a session stays valid, in seconds" (SESSION_TTL_SECS): a      *)
(* lookup finds a session only within the TTL of its creation or of an     *)
(* earlier lookup, in whatever order the UPDATEs of concurrent requests    *)
(* arrive.                                                                 *)
FoundWithinTtl ==
  [][\A h \in Handler : task[h].at = "select" /\ task'[h].at = "refresh" =>
        task[h].read < last_use[task[h].token] + Ttl]_vars

(* "Expired records are removed" (SessionStore::get): a lookup removes     *)
(* expired rows only.  It does not: the row can be refreshed by another    *)
(* request between the SELECT that missed it and the DELETE.               *)
LookupRemovesOnlyExpired == ~unexpired
==============================================================================
