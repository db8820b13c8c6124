------------------------------ MODULE ItemsApi ------------------------------
(***************************************************************************)
(* The JSON API of the items: the /api handlers of build_router            *)
(* (src/server/connection.rs) over src/db/models.rs.                       *)
(*                                                                         *)
(* Handlers run concurrently, on one server or on replicas that share the  *)
(* database; each executes one SQL statement and then answers.  The        *)
(* request timeout drops a handler, but not a statement the database has   *)
(* already been sent: that one may still be executed, later.               *)
(***************************************************************************)
EXTENDS Integers

CONSTANTS
  Handler,      \* handlers that may run at the same time
  Item,         \* UUIDs of items
  MaxRequests   \* bound on the requests

VARIABLES
  items,      \* ids of the rows of the items table
  task,       \* the handlers
  requests,   \* history: requests begun
  made,       \* history: ids generated
  created,    \* history: ids a client was told are created (201)
  wanted,     \* history: ids a DELETE was begun for
  confirmed   \* history: the DELETEs answered {"deleted": true}, by id

vars == <<items, task, requests, made, created, wanted, confirmed>>

Operation == {"list", "get", "create", "delete"}

Free == [at |-> "free"]

(***************************************************************************)
(* A handler waits for its "statement" and then has a result to "reply":   *)
(* `seen`, the rows the statement returned or changed.  An "orphan" is a   *)
(* statement whose handler was dropped.  `known` and `dead` (history) are  *)
(* the ids clients knew to be created and to be deleted when it began.     *)
(***************************************************************************)
Running == [at : {"statement", "reply", "orphan"}, op : Operation, id : Item,
            seen : SUBSET Item, known : SUBSET Item, dead : SUBSET Item]

TypeOK ==
  /\ items \subseteq Item
  /\ task \in [Handler -> {Free} \cup Running]
  /\ requests \in Nat
  /\ made \subseteq Item /\ created \subseteq Item /\ wanted \subseteq Item
  /\ confirmed \in [Item -> Nat]

Init ==
  /\ items = {}
  /\ task = [h \in Handler |-> Free]
  /\ requests = 0
  /\ made = {} /\ created = {} /\ wanted = {}
  /\ confirmed = [i \in Item |-> 0]

Ends(h) == task' = [task EXCEPT ![h] = Free]

Dead == {i \in Item : confirmed[i] > 0}

Begin(h, op, i) ==
  /\ task[h] = Free
  /\ requests < MaxRequests
  /\ requests' = requests + 1
  /\ task' = [task EXCEPT ![h] = [at |-> "statement", op |-> op, id |-> i,
                                  seen |-> {}, known |-> created, dead |-> Dead]]
  /\ UNCHANGED <<items, created, confirmed>>

(* GET /api/items and GET /api/items/:id.                                  *)
BeginRead(h, op, i) ==
  /\ op \in {"list", "get"}
  /\ Begin(h, op, i)
  /\ UNCHANGED <<made, wanted>>

(* Variant: an id is free again when its row is gone.                      *)
FreshIdReused(i) == i \notin items

(* A UUID v4 is not repeated.                                              *)
FreshId(i) == i \notin made

(* POST /api/admin/items, with a valid token and a valid body.             *)
BeginCreate(h, i) ==
  /\ FreshId(i)
  /\ Begin(h, "create", i)
  /\ made' = made \cup {i}
  /\ UNCHANGED wanted

(* DELETE /api/admin/items/:id, with a valid token.                        *)
BeginDelete(h, i) ==
  /\ Begin(h, "delete", i)
  /\ wanted' = wanted \cup {i}
  /\ UNCHANGED made

(* 401, without a valid token, or 400, the body is not an item.            *)
Refused(h) ==
  /\ task[h] = Free
  /\ requests < MaxRequests
  /\ requests' = requests + 1
  /\ UNCHANGED <<items, task, made, created, wanted, confirmed>>

(* Variant: delete_item does not look at rows_affected().                  *)
RowsUnchecked(op, i) ==
  IF op = "list" THEN items ELSE IF op = "get" THEN items \cap {i} ELSE {i}

(* The rows a statement returns or changes.                                *)
Rows(op, i) ==
  CASE op = "list"              -> items
    [] op \in {"get", "delete"} -> items \cap {i}
    [] op = "create"            -> {i}

(* The database executes the statement; the result of an orphan is lost.   *)
Execute(h) ==
  /\ task[h].at \in {"statement", "orphan"}
  /\ LET op == task[h].op
         i == task[h].id
     IN  /\ items' = CASE op = "create" -> items \cup {i}
                       [] op = "delete" -> items \ {i}
                       [] OTHER         -> items
         /\ task' = [task EXCEPT ![h] =
                       IF @.at = "orphan" THEN Free
                       ELSE [@ EXCEPT !.at = "reply", !.seen = Rows(op, i)]]
  /\ UNCHANGED <<requests, made, created, wanted, confirmed>>

(* The handler answers: 201 for a create, 200 or 404 for the others.       *)
Reply(h) ==
  /\ task[h].at = "reply"
  /\ LET op == task[h].op
         i == task[h].id
     IN  /\ created' = IF op = "create" THEN created \cup {i} ELSE created
         /\ confirmed' = IF op = "delete" /\ task[h].seen # {}
                           THEN [confirmed EXCEPT ![i] = @ + 1] ELSE confirmed
  /\ Ends(h)
  /\ UNCHANGED <<items, requests, made, wanted>>

(* Variant: the error of an INSERT is ignored, and 201 is the answer.      *)
FailsSilently(h) ==
  /\ task[h].at \in {"statement", "reply"}
  /\ created' = IF task[h].op = "create" THEN created \cup {task[h].id}
                                         ELSE created
  /\ Ends(h)
  /\ UNCHANGED <<items, requests, made, wanted, confirmed>>

(* 500: the statement failed, or its result was lost.                      *)
Fails(h) ==
  /\ task[h].at \in {"statement", "reply"}
  /\ Ends(h)
  /\ UNCHANGED <<items, requests, made, created, wanted, confirmed>>

(* 503 after REQUEST_TIMEOUT_SECS, or the connection is gone.              *)
Timeout(h) ==
  /\ task[h].at \in {"statement", "reply"}
  /\ task' = [task EXCEPT ![h] = IF @.at = "reply" THEN Free
                                 ELSE [@ EXCEPT !.at = "orphan"]]
  /\ UNCHANGED <<items, requests, made, created, wanted, confirmed>>

(* The statement of a dropped handler was never sent.                      *)
Vanishes(h) ==
  /\ task[h].at = "orphan"
  /\ Ends(h)
  /\ UNCHANGED <<items, requests, made, created, wanted, confirmed>>

Finished ==
  /\ requests = MaxRequests
  /\ \A h \in Handler : task[h] = Free
  /\ UNCHANGED vars

Handle(h) ==
  \/ \E i \in Item : \/ \E op \in {"list", "get"} : BeginRead(h, op, i)
                     \/ BeginCreate(h, i)
                     \/ BeginDelete(h, i)
  \/ Refused(h) \/ Execute(h) \/ Reply(h)
  \/ Fails(h) \/ Timeout(h) \/ Vanishes(h)

Next == (\E h \in Handler : Handle(h)) \/ Finished

Spec == Init /\ [][Next]_vars

-----------------------------------------------------------------------------
(* Properties.                                                             *)

(* "Returns `true` if a row was removed" (delete_item): of all DELETEs for *)
(* an item, concurrent or late, at most one is told that it deleted it.    *)
OneDeleteConfirmed == \A i \in Item : confirmed[i] <= 1

Reading(h) == task[h].at = "reply" /\ task[h].op \in {"list", "get"}

(* A deleted item stays deleted: no read that began after a DELETE was     *)
(* confirmed returns it, although INSERTs of dropped handlers may still be *)
(* executed.                                                               *)
DeletedStaysGone ==
  \A h \in Handler : Reading(h) => task[h].seen \cap task[h].dead = {}

(* A client that was told 201 finds its item: a read that begins later     *)
(* returns it, unless somebody asked to delete it.                         *)
CreatedIsFound ==
  \A h \in Handler : Reading(h) =>
    LET asked == IF task[h].op = "list" THEN Item ELSE {task[h].id}
    IN  (task[h].known \cap asked) \ wanted \subseteq task[h].seen
==============================================================================
