-------------------------- MODULE SharedStateProofs --------------------------
(***************************************************************************)
(* Proofs about state that concurrent requests share with no lock around   *)
(* all of what they do with it: the rows behind /api/items (ItemsApi) and  *)
(* the token buckets of the rate limiter (RateLimiter).  The two are       *)
(* proved apart and have no variable in common.                            *)
(***************************************************************************)
EXTENDS ItemsApi, RateLimiter, TLAPS

(* ItemsApi: what the API told its clients stays true, for every set of        *)
(* handlers and items and every number of requests.                            *)

Is(h, op) == task[h] # Free /\ task[h].op = op

(* A create whose INSERT has not been executed.                            *)
PendingCreate(h) == Is(h, "create") /\ task[h].at # "reply"

(* A DELETE that found its row, and has not answered.                      *)
Claims(h) == Is(h, "delete") /\ task[h].at = "reply" /\ task[h].seen # {}

(* What a handler may rely on while it runs.                               *)
Sound(h) ==
  task[h] # Free =>
    /\ task[h].op = "create" => task[h].id \in made
    /\ task[h].op = "delete" => task[h].id \in wanted
    /\ Is(h, "create") /\ task[h].at = "reply" => task[h].id \in items \cup wanted
    /\ task[h].known \subseteq created
    /\ task[h].dead \subseteq Dead

(* An id has one create, and until its INSERT nothing else knows the id.   *)
Creates ==
  \A h \in Handler : PendingCreate(h) =>
    /\ task[h].id \notin items
    /\ \A g \in Handler : Is(g, "create") /\ task[g].id = task[h].id => g = h

(* A row that was deleted is gone, and was counted or claimed once.        *)
Counted ==
  \A i \in Item :
    /\ confirmed[i] <= 1
    /\ confirmed[i] > 0 =>
         /\ i \in made /\ i \notin items
         /\ \A h \in Handler : Claims(h) \/ PendingCreate(h) => task[h].id # i

Claimed ==
  \A h \in Handler : Claims(h) =>
    /\ task[h].id \in made /\ task[h].id \notin items
    /\ \A g \in Handler : (Claims(g) \/ PendingCreate(g)) /\ task[g].id = task[h].id
                             => g = h

IInv ==
  /\ TypeOK
  /\ items \subseteq made
  /\ created \subseteq items \cup wanted
  /\ \A h \in Handler : Sound(h)
  /\ Creates
  /\ Counted
  /\ Claimed
  /\ DeletedStaysGone
  /\ CreatedIsFound

-----------------------------------------------------------------------------

LEMMA InitIInv == Init => IInv
<1> SUFFICES ASSUME Init PROVE IInv
  BY Zenon
<1>1. TypeOK
  BY Zenon DEF Init, TypeOK
<1>2. \A h \in Handler : task[h] = Free /\ task[h].at = "free"
  BY Zenon DEF Init, Free
<1> QED
  BY <1>1, <1>2 DEF Init, IInv, Sound, Creates, Counted, Claimed, Claims, PendingCreate,
       Is, DeletedStaysGone, CreatedIsFound, Reading

(* A running handler has the fields of Running.                            *)
LEMMA RunningHandler ==
  ASSUME TypeOK, NEW h \in Handler, task[h].at # "free"
  PROVE  task[h] # Free /\ task[h] \in Running
BY DEF TypeOK, Free

(* What is left of a handler that ends: nothing the others rely on.        *)
LEMMA EndsStep ==
  ASSUME IInv, NEW h \in Handler, Ends(h),
         UNCHANGED <<items, requests, made, created, wanted, confirmed>>
  PROVE  IInv'
<1> USE DEF IInv
<1>1. /\ task'[h] = Free /\ task'[h].at = "free"
      /\ \A g \in Handler \ {h} : task'[g] = task[g]
      /\ task' \in [Handler -> {Free} \cup Running]
  BY Zenon DEF Ends, TypeOK, Free
<1>2. Dead' = Dead
  BY Zenon DEF Dead
<1>3. \A g \in Handler : /\ PendingCreate(g)' => PendingCreate(g) /\ g # h
                         /\ Claims(g)' => Claims(g) /\ g # h
                         /\ Reading(g)' => Reading(g) /\ g # h
                         /\ Is(g, "create")' => Is(g, "create") /\ g # h
  BY <1>1, Zenon DEF PendingCreate, Claims, Reading, Is
<1>4. TypeOK' /\ (items \subseteq made)' /\ (created \subseteq items \cup wanted)'
  BY <1>1, Zenon DEF TypeOK
<1>5. \A g \in Handler : Sound(g)'
  BY <1>1, <1>2, Zenon DEF Sound, Is
<1>6. Creates'
  BY <1>1, <1>3, Zenon DEF Creates
<1>7. Counted'
  BY <1>1, <1>3, Zenon DEF Counted
<1>8. Claimed'
  BY <1>1, <1>3, Zenon DEF Claimed
<1>9. DeletedStaysGone' /\ CreatedIsFound'
  BY <1>1, <1>3, Zenon DEF DeletedStaysGone, CreatedIsFound
<1> QED
  BY <1>4, <1>5, <1>6, <1>7, <1>8, <1>9, Zenon

LEMMA BeginStep ==
  ASSUME IInv, NEW h \in Handler, NEW op \in Operation, NEW i \in Item,
         Begin(h, op, i), made' \subseteq Item, wanted' \subseteq Item,
         made \subseteq made', wanted \subseteq wanted',
         op = "create" => i \notin made /\ i \in made',
         op = "delete" => i \in wanted'
  PROVE  IInv'
<1> USE DEF IInv
<1>1. /\ task[h] = Free
      /\ task'[h] \in Running /\ task'[h] # Free
      /\ task'[h].at = "statement" /\ task'[h].op = op /\ task'[h].id = i
      /\ task'[h].known = created /\ task'[h].dead = Dead
      /\ \A g \in Handler \ {h} : task'[g] = task[g]
      /\ task' \in [Handler -> {Free} \cup Running]
      /\ requests' \in Nat
      /\ UNCHANGED <<items, created, confirmed>>
  BY DEF Begin, TypeOK, Free, Running, Dead
<1>2. Dead' = Dead
  BY <1>1, Zenon DEF Dead
<1>3. \A g \in Handler : /\ Claims(g)' => Claims(g) /\ g # h
                         /\ Reading(g)' => Reading(g) /\ g # h
                         /\ g # h /\ PendingCreate(g)' => PendingCreate(g)
                         /\ g # h /\ Is(g, "create")' => Is(g, "create")
                         /\ g = h /\ Is(g, "create")' => op = "create"
  BY <1>1, Zenon DEF PendingCreate, Claims, Reading, Is
<1>4. TypeOK' /\ (items \subseteq made)' /\ (created \subseteq items \cup wanted)'
  BY <1>1, Zenon DEF TypeOK
<1>5. \A g \in Handler : Sound(g)'
  BY <1>1, <1>2, Zenon DEF Sound, Is
<1>6. Creates'
  <2> SUFFICES ASSUME NEW g \in Handler, PendingCreate(g)'
               PROVE  /\ task'[g].id \notin items
                      /\ \A f \in Handler : Is(f, "create")' /\ task'[f].id = task'[g].id
                                              => f = g
    BY <1>1, Zenon DEF Creates
  <2>1. \A f \in Handler : Is(f, "create") => task[f].id \in made
    BY Zenon DEF Sound, Is
  <2>2. CASE g = h
    BY <1>1, <1>3, <2>1, <2>2, Zenon DEF PendingCreate
  <2>3. CASE g # h
    BY <1>1, <1>3, <2>1, <2>3, Zenon DEF PendingCreate, Creates
  <2> QED
    BY <2>2, <2>3, Zenon
<1>7. Counted'
  BY <1>1, <1>3, Zenon DEF Counted, PendingCreate
<1>8. Claimed'
  BY <1>1, <1>3 DEF Claimed, PendingCreate
<1>9. DeletedStaysGone' /\ CreatedIsFound'
  BY <1>1, <1>3, Zenon DEF DeletedStaysGone, CreatedIsFound
<1> QED
  BY <1>4, <1>5, <1>6, <1>7, <1>8, <1>9, Zenon

(* A handler that timed out leaves its statement behind.                   *)
LEMMA TimeoutStep ==
  ASSUME IInv, NEW h \in Handler, Timeout(h)
  PROVE  IInv'
<1> USE DEF IInv
<1>1. CASE task[h].at = "reply"
  <2>1. Ends(h)
    BY <1>1, Zenon DEF Timeout, Ends
  <2> QED
    BY <2>1, EndsStep, Zenon DEF Timeout
<1>2. CASE task[h].at = "statement"
  <2>0. task[h] # Free /\ task[h] \in Running
    BY <1>2, RunningHandler, Zenon
  <2>1. /\ task'[h] \in Running /\ task'[h] # Free
        /\ task'[h].at = "orphan" /\ task'[h].op = task[h].op /\ task'[h].id = task[h].id
        /\ task'[h].known = task[h].known /\ task'[h].dead = task[h].dead
        /\ \A g \in Handler \ {h} : task'[g] = task[g]
        /\ task' \in [Handler -> {Free} \cup Running]
        /\ UNCHANGED <<items, requests, made, created, wanted, confirmed>>
    BY <1>2, <2>0, Zenon DEF Timeout, TypeOK, Free, Running
  <2>2. Dead' = Dead
    BY <2>1, Zenon DEF Dead
  <2>3. \A g \in Handler : /\ Claims(g)' => Claims(g) /\ g # h
                           /\ Reading(g)' => Reading(g) /\ g # h
                           /\ PendingCreate(g)' => PendingCreate(g)
                           /\ Is(g, "create")' => Is(g, "create")
                           /\ task'[g] # Free /\ task[g] # Free
                                => task'[g].id = task[g].id
    BY <1>2, <2>0, <2>1, Zenon DEF PendingCreate, Claims, Reading, Is
  <2>4. TypeOK' /\ (items \subseteq made)' /\ (created \subseteq items \cup wanted)'
    BY <2>1, Zenon DEF TypeOK
  <2>5. \A g \in Handler : Sound(g)'
    BY <2>0, <2>1, <2>2, Zenon DEF Sound, Is
  <2>6. Creates'
    BY <2>1, <2>3 DEF Creates, PendingCreate, Is
  <2>7. Counted'
    BY <2>1, <2>3 DEF Counted, PendingCreate, Claims, Is
  <2>8. Claimed'
    BY <2>1, <2>3 DEF Claimed, PendingCreate, Claims, Is
  <2>9. DeletedStaysGone' /\ CreatedIsFound'
    BY <2>1, <2>3, Zenon DEF DeletedStaysGone, CreatedIsFound
  <2> QED
    BY <2>4, <2>5, <2>6, <2>7, <2>8, <2>9, Zenon
<1> QED
  BY <1>1, <1>2, Zenon DEF Timeout

LEMMA ReplyStep ==
  ASSUME IInv, NEW h \in Handler, Reply(h)
  PROVE  IInv'
<1> USE DEF IInv
<1>0. task[h] # Free /\ task[h] \in Running /\ task[h].id \in Item /\ task[h].at = "reply"
  BY RunningHandler, Zenon DEF Reply, Running
<1>1. /\ task'[h] = Free /\ task'[h].at = "free"
      /\ \A g \in Handler \ {h} : task'[g] = task[g]
      /\ task' \in [Handler -> {Free} \cup Running]
      /\ UNCHANGED <<items, requests, made, wanted>>
  BY Zenon DEF Reply, Ends, TypeOK, Free
<1>2. /\ created \subseteq created'
      /\ created' \subseteq created \cup (IF task[h].op = "create" THEN {task[h].id} ELSE {})
  BY Zenon DEF Reply
<1>3. /\ confirmed' \in [Item -> Nat]
      /\ \A i \in Item : confirmed'[i] = IF Claims(h) /\ i = task[h].id
                                            THEN confirmed[i] + 1 ELSE confirmed[i]
  BY <1>0 DEF Reply, Claims, Is, TypeOK
<1>4. Dead \subseteq Dead'
  BY <1>3 DEF Dead, TypeOK
<1>5. \A g \in Handler : /\ PendingCreate(g)' => PendingCreate(g) /\ g # h
                         /\ Claims(g)' => Claims(g) /\ g # h
                         /\ Reading(g)' => Reading(g) /\ g # h
                         /\ Is(g, "create")' => Is(g, "create") /\ g # h
  BY <1>1, Zenon DEF PendingCreate, Claims, Reading, Is
<1>6. TypeOK' /\ (items \subseteq made)' /\ (created \subseteq items \cup wanted)'
  BY <1>0, <1>1, <1>2, <1>3, ZenonT(40) DEF TypeOK, Sound, Is
<1>7. \A g \in Handler : Sound(g)'
  BY <1>1, <1>2, <1>4, Zenon DEF Sound, Is
<1>8. Creates'
  BY <1>1, <1>5, Zenon DEF Creates
<1>9. Claimed'
  BY <1>1, <1>5, Zenon DEF Claimed
<1>10. Counted'
  <2> SUFFICES ASSUME NEW i \in Item
               PROVE  /\ confirmed'[i] <= 1
                      /\ confirmed'[i] > 0 =>
                           /\ i \in made /\ i \notin items
                           /\ \A g \in Handler : (Claims(g) \/ PendingCreate(g))' => task'[g].id # i
    BY <1>1, Zenon DEF Counted
  <2>1. CASE Claims(h) /\ i = task[h].id
    <3>1. confirmed[i] = 0
      BY <2>1 DEF Counted, TypeOK
    <3>2. confirmed'[i] <= 1
      BY <1>3, <2>1, <3>1
    <3>3. i \in made /\ i \notin items
      BY <2>1, Zenon DEF Claimed
    <3>4. ASSUME NEW g \in Handler, (Claims(g) \/ PendingCreate(g))' PROVE task'[g].id # i
      <4>1. (Claims(g) \/ PendingCreate(g)) /\ g # h /\ task'[g] = task[g]
        BY <1>1, <1>5, <3>4, Zenon
      <4> QED
        BY <2>1, <4>1, Zenon DEF Claimed
    <3> QED
      BY <3>2, <3>3, <3>4, Zenon
  <2>2. CASE ~(Claims(h) /\ i = task[h].id)
    <3>1. confirmed'[i] = confirmed[i]
      BY <1>3, <2>2, Zenon
    <3> QED
      BY <1>1, <1>5, <3>1, Zenon DEF Counted
  <2> QED
    BY <2>1, <2>2, Zenon
<1>11. DeletedStaysGone' /\ CreatedIsFound'
  BY <1>1, <1>5, Zenon DEF DeletedStaysGone, CreatedIsFound
<1> QED
  BY <1>6, <1>7, <1>8, <1>9, <1>10, <1>11, Zenon

(* The effect of a statement on the table, whoever waits for its result.   *)
Effect(op, i) ==
  items' = CASE op = "create" -> items \cup {i}
             [] op = "delete" -> items \ {i}
             [] OTHER         -> items

(* The rows that come and go are the business of no other handler.         *)
LEMMA EffectSound ==
  ASSUME IInv, NEW h \in Handler, task[h] # Free, task[h] \in Running,
         task[h].at # "reply", Effect(task[h].op, task[h].id)
  PROVE  /\ items' \subseteq made /\ made \subseteq Item
         /\ created \subseteq items' \cup wanted
         /\ items \subseteq items' \cup wanted
         /\ \A g \in Handler \ {h} : PendingCreate(g) \/ Claims(g) => task[g].id \notin items'
         /\ \A i \in Item : confirmed[i] > 0 => i \notin items'
<1> USE DEF IInv
<1>1. \A i \in items' : i \in items \/ (PendingCreate(h) /\ i = task[h].id)
  BY Zenon DEF Effect, Running, Operation, PendingCreate, Is
<1>2. \A i \in items : i \in items' \/ (task[h].op = "delete" /\ i = task[h].id)
  BY Zenon DEF Effect, Running, Operation
<1>3. Sound(h)
  BY Zenon
<1>4. \A i \in items : i \in items' \cup wanted
  BY <1>2, <1>3, Zenon DEF Sound
<1>5. \A g \in Handler \ {h} : PendingCreate(g) \/ Claims(g) => task[g].id \notin items'
  BY <1>1, Zenon DEF Creates, Claimed, PendingCreate
<1>6. \A i \in Item : confirmed[i] > 0 => i \notin items'
  BY <1>1, Zenon DEF Counted
<1>7. items' \subseteq made /\ made \subseteq Item
  BY <1>1, <1>3, Zenon DEF Sound, PendingCreate, Is, TypeOK
<1> QED
  BY <1>4, <1>5, <1>6, <1>7, Zenon

(* Nobody waits for the result: the handler has been dropped.              *)
LEMMA ExecuteOrphan ==
  ASSUME IInv, NEW h \in Handler, Execute(h), task[h].at = "orphan"
  PROVE  IInv'
<1> USE DEF IInv
<1>0. task[h] # Free /\ task[h] \in Running /\ Effect(task[h].op, task[h].id)
  BY RunningHandler, Zenon DEF Execute, Effect
<1>1. /\ task'[h] = Free /\ task'[h].at = "free"
      /\ \A g \in Handler \ {h} : task'[g] = task[g]
      /\ task' \in [Handler -> {Free} \cup Running]
      /\ UNCHANGED <<requests, made, created, wanted, confirmed>>
  BY Zenon DEF Execute, TypeOK, Free
<1>2. Dead' = Dead
  BY <1>1, Zenon DEF Dead
<1>3. \A g \in Handler : /\ PendingCreate(g)' => PendingCreate(g) /\ g # h
                         /\ Claims(g)' => Claims(g) /\ g # h
                         /\ Reading(g)' => Reading(g) /\ g # h
                         /\ Is(g, "create")' => Is(g, "create") /\ g # h
  BY <1>1, Zenon DEF PendingCreate, Claims, Reading, Is
<1>4. /\ items' \subseteq made /\ made \subseteq Item
      /\ created \subseteq items' \cup wanted
      /\ items \subseteq items' \cup wanted
      /\ \A g \in Handler \ {h} : PendingCreate(g) \/ Claims(g) => task[g].id \notin items'
      /\ \A i \in Item : confirmed[i] > 0 => i \notin items'
  BY <1>0, EffectSound, Zenon
<1>5. TypeOK' /\ (items \subseteq made)' /\ (created \subseteq items \cup wanted)'
  BY <1>1, <1>4, Zenon DEF TypeOK
<1>6. \A g \in Handler : Sound(g)'
  BY <1>1, <1>2, <1>4, Zenon DEF Sound, Is
<1>7. Creates'
  BY <1>1, <1>3, <1>4, Zenon DEF Creates
<1>8. Counted'
  BY <1>1, <1>3, <1>4, Zenon DEF Counted
<1>9. Claimed'
  BY <1>1, <1>3, <1>4, Zenon DEF Claimed
<1>10. DeletedStaysGone' /\ CreatedIsFound'
  BY <1>1, <1>3, Zenon DEF DeletedStaysGone, CreatedIsFound
<1> QED
  BY <1>5, <1>6, <1>7, <1>8, <1>9, <1>10, Zenon

(* The handler learns which rows there were: a DELETE that removed one is  *)
(* the only claim to it, and a read sees exactly the table of this moment. *)
LEMMA ExecuteStatement ==
  ASSUME IInv, NEW h \in Handler, Execute(h), task[h].at = "statement"
  PROVE  IInv'
<1>i. /\ TypeOK /\ items \subseteq made /\ created \subseteq items \cup wanted
      /\ \A g \in Handler : Sound(g)
  BY Zenon DEF IInv
<1>c. Creates /\ Counted /\ Claimed /\ DeletedStaysGone /\ CreatedIsFound
  BY Zenon DEF IInv
<1>0. /\ task[h] # Free /\ task[h] \in Running /\ Effect(task[h].op, task[h].id)
      /\ task[h].id \in Item /\ task[h].op \in Operation /\ Sound(h)
  BY <1>i, RunningHandler, Zenon DEF Execute, Effect, Running
<1>1. /\ task'[h].at = "reply" /\ task'[h].op = task[h].op /\ task'[h].id = task[h].id
      /\ task'[h].known = task[h].known /\ task'[h].dead = task[h].dead
      /\ task'[h].seen = Rows(task[h].op, task[h].id)
      /\ \A g \in Handler \ {h} : task'[g] = task[g]
      /\ UNCHANGED <<requests, made, created, wanted, confirmed>>
  BY <1>i, <1>0, Zenon DEF Execute, TypeOK, Running
<1>2. /\ Rows(task[h].op, task[h].id) \subseteq Item
      /\ task[h].op # "create" => Rows(task[h].op, task[h].id) \subseteq items
      /\ task[h].op = "list" => Rows(task[h].op, task[h].id) = items
      /\ task[h].op = "get" => Rows(task[h].op, task[h].id) = items \cap {task[h].id}
      /\ task[h].op = "delete" /\ Rows(task[h].op, task[h].id) # {} => task[h].id \in items
  BY <1>i, <1>0, Zenon DEF Rows, Operation, TypeOK
<1>3. /\ task'[h] \in Running /\ task'[h] # Free
      /\ task' \in [Handler -> {Free} \cup Running]
  BY <1>i, <1>0, <1>2, Zenon DEF Execute, TypeOK, Free, Running
<1>4. /\ items' \subseteq made /\ made \subseteq Item
      /\ created \subseteq items' \cup wanted
      /\ items \subseteq items' \cup wanted
      /\ \A g \in Handler \ {h} : PendingCreate(g) \/ Claims(g) => task[g].id \notin items'
      /\ \A i \in Item : confirmed[i] > 0 => i \notin items'
  BY <1>0, EffectSound, Zenon
<1>5. Dead' = Dead
  BY <1>1, Zenon DEF Dead
<1>6. \A g \in Handler : /\ PendingCreate(g)' => PendingCreate(g) /\ g # h
                         /\ Claims(g)' /\ g # h => Claims(g)
                         /\ Reading(g)' /\ g # h => Reading(g)
                         /\ Is(g, "create")' => Is(g, "create")
                         /\ task'[g] # Free => task'[g].id = task[g].id
  <2> SUFFICES ASSUME NEW g \in Handler
               PROVE  /\ PendingCreate(g)' => PendingCreate(g) /\ g # h
                      /\ Claims(g)' /\ g # h => Claims(g)
                      /\ Reading(g)' /\ g # h => Reading(g)
                      /\ Is(g, "create")' => Is(g, "create")
                      /\ task'[g] # Free => task'[g].id = task[g].id
    BY Zenon
  <2>1. CASE g = h
    BY <1>0, <1>1, <2>1, Zenon DEF PendingCreate, Is
  <2>2. CASE g # h
    <3>1. task'[g] = task[g]
      BY <1>1, <2>2, Zenon
    <3> QED
      BY <2>2, <3>1, Zenon DEF PendingCreate, Claims, Reading, Is
  <2> QED
    BY <2>1, <2>2, Zenon
<1>7. Claims(h)' => task[h].op = "delete" /\ task[h].id \in items /\ task[h].id \notin items'
  BY <1>0, <1>1, <1>2, Zenon DEF Claims, Is, Effect
<1>8. TypeOK' /\ (items \subseteq made)' /\ (created \subseteq items \cup wanted)'
  BY <1>i, <1>1, <1>3, <1>4, Zenon DEF TypeOK
<1>9. \A g \in Handler : Sound(g)'
  <2>1. Sound(h)'
    <3>1. task[h].op = "create" => task[h].id \in items'
      BY <1>0, Zenon DEF Effect
    <3> QED
      BY <1>0, <1>1, <1>5, <3>1, Zenon DEF Sound, Is
  <2>2. ASSUME NEW g \in Handler \ {h} PROVE Sound(g)'
    <3>1. task'[g] = task[g] /\ Sound(g)
      BY <1>i, <1>1, Zenon
    <3> QED
      BY <1>1, <1>4, <1>5, <3>1, Zenon DEF Sound, Is
  <2> QED
    BY <2>1, <2>2, Zenon
<1>10. Creates'
  <2> SUFFICES ASSUME NEW f \in Handler, PendingCreate(f)'
               PROVE  /\ task'[f].id \notin items'
                      /\ \A g \in Handler : Is(g, "create")' /\ task'[g].id = task'[f].id
                                             => g = f
    BY Zenon DEF Creates
  <2>1. PendingCreate(f) /\ f # h /\ task'[f] = task[f]
    BY <1>1, <1>6, Zenon
  <2>2. task'[f].id \notin items'
    BY <1>4, <2>1, Zenon
  <2>3. ASSUME NEW g \in Handler, Is(g, "create")', task'[g].id = task'[f].id
        PROVE  g = f
    <3>1. Is(g, "create") /\ task[g].id = task[f].id
      BY <1>6, <2>1, <2>3, Zenon DEF Is
    <3> QED
      BY <1>c, <2>1, <3>1, Zenon DEF Creates
  <2> QED
    BY <2>2, <2>3, Zenon
<1>11. Counted'
  <2>1. Claims(h)' => \A i \in Item : confirmed[i] > 0 => task[h].id # i
    BY <1>7, <1>c, Zenon DEF Counted
  <2> SUFFICES ASSUME NEW i \in Item
               PROVE  /\ confirmed[i] <= 1
                      /\ confirmed[i] > 0 =>
                           /\ i \in made /\ i \notin items'
                           /\ \A g \in Handler :
                                (Claims(g) \/ PendingCreate(g))' => task'[g].id # i
    BY <1>1, Zenon DEF Counted
  <2>2. /\ confirmed[i] <= 1
        /\ confirmed[i] > 0 => i \in made /\ i \notin items'
    BY <1>c, <1>4, Zenon DEF Counted
  <2>3. ASSUME confirmed[i] > 0, NEW g \in Handler, (Claims(g) \/ PendingCreate(g))'
        PROVE  task'[g].id # i
    <3>1. CASE g = h
      BY <1>1, <1>6, <2>1, <2>3, <3>1, Zenon
    <3>2. CASE g # h
      <4>1. (Claims(g) \/ PendingCreate(g)) /\ task'[g] = task[g]
        BY <1>1, <1>6, <2>3, <3>2, Zenon
      <4> QED
        BY <1>c, <2>3, <4>1, SMTT(40) DEF Counted
    <3> QED
      BY <3>1, <3>2, Zenon
  <2> QED
    BY <2>2, <2>3, Zenon
<1>12. Claimed'
  <2>1. \A g \in Handler \ {h} : PendingCreate(g) \/ Claims(g) => task[g].id \notin items
    BY <1>c, Zenon DEF Creates, Claimed
  <2> SUFFICES ASSUME NEW g \in Handler, Claims(g)'
               PROVE  /\ task'[g].id \in made /\ task'[g].id \notin items'
                      /\ \A f \in Handler : (Claims(f) \/ PendingCreate(f))'
                           /\ task'[f].id = task'[g].id => f = g
    BY <1>1, Zenon DEF Claimed
  <2>2. CASE g = h
    <3>1. task'[g].id = task[h].id /\ task[h].id \in items /\ task[h].id \notin items'
      BY <1>1, <1>7, <2>2, Zenon
    <3>2. ASSUME NEW f \in Handler, (Claims(f) \/ PendingCreate(f))', task'[f].id = task[h].id
          PROVE  f = h
      <4> SUFFICES ASSUME f # h PROVE FALSE
        BY SMTT(40)
      <4>1. (PendingCreate(f) \/ Claims(f)) /\ task'[f] = task[f]
        BY <1>1, <1>6, <3>2, Zenon
      <4> QED
        BY <2>1, <3>1, <3>2, <4>1, Zenon
    <3> QED
      BY <1>i, <2>2, <3>1, <3>2, Zenon
  <2>3. CASE g # h
    <3>1. Claims(g) /\ task'[g] = task[g] /\ task[g].id \notin items'
      BY <1>1, <1>4, <1>6, <2>3, SMTT(40)
    <3>2. task'[g].id \in made /\ task[g].id \notin items
      BY <1>c, <3>1, Zenon DEF Claimed
    <3>3. ASSUME NEW f \in Handler, (Claims(f) \/ PendingCreate(f))', task'[f].id = task'[g].id
          PROVE  f = g
      <4>1. CASE f = h
        <5>1. Claims(h)'
          BY <1>6, <3>3, <4>1, ZenonT(40)
        <5> QED
          BY <1>1, <1>7, <3>1, <3>2, <3>3, <4>1, <5>1, Zenon
      <4>2. CASE f # h
        <5>1. (PendingCreate(f) \/ Claims(f)) /\ task'[f] = task[f]
          BY <1>1, <1>6, <3>3, <4>2, SMTT(40)
        <5> QED
          BY <1>c, <3>1, <3>3, <5>1, SMTT(40) DEF Claimed
      <4> QED
        BY <4>1, <4>2, Zenon
    <3> QED
      BY <3>1, <3>2, <3>3, SMTT(40)
  <2> QED
    BY <2>2, <2>3, Zenon
<1>13. DeletedStaysGone'
  <2>1. Reading(h)' => task'[h].seen \cap task'[h].dead = {}
    <3>1. items \cap Dead = {}
      BY <1>c, <1>i, SMTT(40) DEF Counted, Dead, TypeOK
    <3> QED
      BY <1>0, <1>1, <1>2, <3>1, Zenon DEF Reading, Sound
  <2> QED
    BY <1>c, <1>1, <1>6, <2>1, Zenon DEF DeletedStaysGone
<1>14. CreatedIsFound'
  <2> DEFINE asked(g) == IF task[g].op = "list" THEN Item ELSE {task[g].id}
  <2>1. Reading(h)' => (task'[h].known \cap asked(h)) \ wanted \subseteq task'[h].seen
    BY <1>i, <1>0, <1>1, <1>2, Zenon DEF Reading, Sound
  <2>2. \A g \in Handler \ {h} : Reading(g)' =>
            (task'[g].known \cap asked(g)) \ wanted \subseteq task'[g].seen
    BY <1>c, <1>1, <1>6, Zenon DEF CreatedIsFound
  <2> QED
    BY <1>1, <2>1, <2>2 DEF CreatedIsFound
<1> QED
  BY <1>8, <1>9, <1>10, <1>11, <1>12, <1>13, <1>14, Zenon DEF IInv

-----------------------------------------------------------------------------

(* A step that only counts a request.                                      *)
LEMMA SameStep ==
  ASSUME IInv, UNCHANGED <<items, task, made, created, wanted, confirmed>>, requests' \in Nat
  PROVE  IInv'
<1>1. TypeOK' /\ (items \subseteq made)' /\ (created \subseteq items \cup wanted)'
  BY Zenon DEF IInv, TypeOK
<1>2. (\A h \in Handler : Sound(h))'
  BY Zenon DEF IInv, Sound, Is, Dead
<1>3. Creates'
  BY Zenon DEF IInv, Creates, PendingCreate, Is
<1>4. Counted' /\ Claimed'
  BY Zenon DEF IInv, Counted, Claimed, Claims, PendingCreate, Is
<1>5. DeletedStaysGone' /\ CreatedIsFound'
  BY Zenon DEF IInv, DeletedStaysGone, CreatedIsFound, Reading
<1> QED
  BY <1>1, <1>2, <1>3, <1>4, <1>5, Zenon DEF IInv

(* Every step of Next keeps the invariant.                                 *)
LEMMA NextIInv == IInv /\ [Next]_vars => IInv'
<1> SUFFICES ASSUME IInv, [Next]_vars PROVE IInv'
  BY Zenon
<1>1. ASSUME NEW h \in Handler, Handle(h) PROVE IInv'
  <2>1. ASSUME NEW i \in Item, NEW op \in {"list", "get"}, BeginRead(h, op, i) PROVE IInv'
    BY <2>1, BeginStep, Zenon DEF BeginRead, Operation, IInv, TypeOK
  <2>2. ASSUME NEW i \in Item, BeginCreate(h, i) PROVE IInv'
    BY <2>2, BeginStep, Zenon DEF BeginCreate, FreshId, Operation, IInv, TypeOK
  <2>3. ASSUME NEW i \in Item, BeginDelete(h, i) PROVE IInv'
    BY <2>3, BeginStep, Zenon DEF BeginDelete, Operation, IInv, TypeOK
  <2>4. CASE Refused(h)
    BY <2>4, SameStep DEF Refused, IInv, TypeOK
  <2>5. CASE Execute(h)
    BY <2>5, ExecuteOrphan, ExecuteStatement, Zenon DEF Execute
  <2>6. CASE Reply(h)
    BY <2>6, ReplyStep, Zenon
  <2>7. CASE Fails(h)
    BY <2>7, EndsStep, Zenon DEF Fails
  <2>8. CASE Timeout(h)
    BY <2>8, TimeoutStep, Zenon
  <2>9. CASE Vanishes(h)
    BY <2>9, EndsStep, Zenon DEF Vanishes
  <2> QED
    BY <1>1, <2>1, <2>2, <2>3, <2>4, <2>5, <2>6, <2>7, <2>8, <2>9, Zenon DEF Handle
<1>2. CASE UNCHANGED vars
  BY <1>2, SameStep, Zenon DEF vars, IInv, TypeOK
<1> QED
  BY <1>1, <1>2, Zenon DEF Next, Finished

(* IInv holds in every state of every behaviour.                           *)
LEMMA Inductive == Spec => []IInv
BY InitIInv, NextIInv, PTL DEF Spec

(* Every variable of the API's handlers and their table keeps its type.    *)
THEOREM TypeCorrect == Spec => []TypeOK
BY Inductive, PTL DEF IInv

(* Of all DELETEs of an item, concurrent or late, at most one is told that *)
(* it deleted it (delete_item, rows_affected).                             *)
THEOREM DeletesConfirmedOnce == Spec => []OneDeleteConfirmed
<1>1. IInv => OneDeleteConfirmed
  BY Zenon DEF IInv, Counted, OneDeleteConfirmed
<1> QED
  BY <1>1, Inductive, PTL

(* No read begun after a confirmed DELETE returns the item, whatever       *)
(* statements of dropped handlers are executed later.                      *)
THEOREM DeletedNeverReturns == Spec => []DeletedStaysGone
<1>1. IInv => DeletedStaysGone
  BY Zenon DEF IInv
<1> QED
  BY <1>1, Inductive, PTL

(* A read begun after the 201 of a create returns the item, unless a       *)
(* DELETE was asked for.                                                   *)
THEOREM CreatedIsThere == Spec => []CreatedIsFound
<1>1. IInv => CreatedIsFound
  BY Zenon DEF IInv
<1> QED
  BY <1>1, Inductive, PTL

-----------------------------------------------------------------------------
(* RateLimiter: for any rate, any TTL that covers a refill, any addresses and  *)
(* any number of threads, the bound on every window, the bound on idle        *)
(* buckets, and that the limiter implements TokenBuckets.                      *)

(* No bucket was refilled, no sweep was cut off and no window was started  *)
(* later than the clock allows.                                            *)
ClockInv ==
  /\ \A ip \in Ip : buckets[ip].present => buckets[ip].last_refill <= now
  /\ \A s \in Sweeper : sweep[s].todo # {} => sweep[s].cutoff + StaleTtl <= now
  /\ window.start <= now
  /\ now <= next_sweep /\ next_sweep <= now + SweepInterval

(* What was admitted in the window and what is left in the bucket, added   *)
(* up, is covered by a full bucket and the time the window lasts.          *)
BudgetInv ==
  \A ip \in Ip :
     window.spent[ip] + Level(ip) <= Capacity + (now - window.start)

(* A bucket the eviction task has visited, or that was made since, is used *)
(* recently enough to wait for the next tick; one it has yet to visit was  *)
(* so at the tick before.                                                  *)
IdleInv ==
  LET round == sweep[EvictionTask]
  IN  /\ \A ip \in Ip \ round.todo : buckets[ip].present =>
            next_sweep <= buckets[ip].last_refill + StaleTtl + SweepInterval
      /\ \A ip \in round.todo : buckets[ip].present =>
            now <= buckets[ip].last_refill + StaleTtl + SweepInterval
      /\ round.todo # {} => /\ next_sweep = now + SweepInterval
                           /\ now = round.cutoff + StaleTtl

LimiterInv == LimiterTypeOK /\ ClockInv /\ BudgetInv /\ IdleInv

-----------------------------------------------------------------------------

(* The level of a bucket is between empty and full.                        *)
LEMMA LevelType ==
  ASSUME LimiterTypeOK, ClockInv, NEW ip \in Ip
  PROVE  Level(ip) \in 0..Capacity
BY LimiterConstants DEF LimiterTypeOK, ClockInv, Level, Capped

(* A bucket that a sweep may remove is full.                               *)
LEMMA StaleIsFull ==
  ASSUME LimiterTypeOK, ClockInv, NEW s \in Sweeper, NEW ip \in sweep[s].todo,
         ~(buckets[ip].last_refill >= sweep[s].cutoff)
  PROVE  Level(ip) = Capacity
<1>1. ip \in Ip /\ sweep[s].cutoff \in Nat /\ sweep[s].todo # {}
  BY Zenon DEF LimiterTypeOK
<1>2. CASE ~buckets[ip].present
  BY <1>2, Zenon DEF Level
<1>3. CASE buckets[ip].present
  <2>1. /\ buckets[ip].last_refill \in Nat /\ now \in Nat
        /\ buckets[ip].tokens \in 0..Capacity
        /\ buckets[ip].last_refill <= now
        /\ sweep[s].cutoff + StaleTtl <= now
    BY <1>1, <1>3, Zenon DEF LimiterTypeOK, ClockInv
  <2>2. buckets[ip].tokens + (now - buckets[ip].last_refill) >= Capacity
    BY <1>1, <2>1, LimiterConstants, TtlCoversRefill
  <2> QED
    BY <1>3, <2>1, <2>2, LimiterConstants DEF Level, Capped
<1> QED
  BY <1>2, <1>3, Zenon

LEMMA LimiterInitInv == LimiterInit => LimiterInv
<1> SUFFICES ASSUME LimiterInit PROVE LimiterInv
  BY Zenon
<1> USE LimiterConstants, TtlCoversRefill DEF LimiterInit, NoBucket, NoSweep, Idle
<1>1. LimiterTypeOK
  BY DEF LimiterTypeOK
<1>2. ClockInv
  BY DEF ClockInv
<1>3. BudgetInv
  <2>1. \A ip \in Ip : Level(ip) = Capacity /\ window.spent[ip] = 0
    BY Zenon DEF Level
  <2>2. window.start = Start /\ now = Start
    BY Zenon
  <2>3. SUFFICES ASSUME NEW ip \in Ip
                 PROVE  window.spent[ip] + Level(ip)
                          <= Capacity + (now - window.start)
    BY Zenon DEF BudgetInv
  <2> HIDE DEF LimiterInit
  <2> QED
    BY <2>1, <2>2
<1>4. IdleInv
  BY Zenon DEF IdleInv, Sweeper
<1> QED
  BY <1>1, <1>2, <1>3, <1>4, Zenon DEF LimiterInv

-----------------------------------------------------------------------------
(* The step of each action.                                                *)

(* Only the level of the bucket consumed from changes, and a sweep changes *)
(* none; the levels rise together when time passes.                        *)
LEMMA SweepKeepsLevels ==
  ASSUME LimiterTypeOK, ClockInv, NEW s \in Sweeper, NEW p \in Ip, SweepBucket(s, p),
         NEW ip \in Ip
  PROVE  Level(ip)' = Level(ip)
<1> USE DEF SweepBucket
<1>1. CASE ip # p \/ buckets[p].last_refill >= sweep[s].cutoff
  <2>1. buckets'[ip] = buckets[ip]
    BY <1>1, Zenon DEF LimiterTypeOK
  <2> QED
    BY <2>1 DEF Level, Capped
<1>2. CASE ip = p /\ ~(buckets[p].last_refill >= sweep[s].cutoff)
  <2>1. Level(ip) = Capacity
    BY <1>2, StaleIsFull, Zenon
  <2>2. buckets'[ip] = NoBucket
    BY <1>2, Zenon DEF LimiterTypeOK
  <2> QED
    BY <2>1, <2>2 DEF Level, NoBucket
<1> QED
  BY <1>1, <1>2, Zenon

LEMMA TickRaisesLevels ==
  ASSUME LimiterTypeOK, ClockInv, Tick, NEW ip \in Ip
  PROVE  Level(ip)' = IF Level(ip) < Capacity THEN Level(ip) + 1 ELSE Capacity
<1>1. CASE ~buckets[ip].present
  BY <1>1, LimiterConstants DEF Tick, Level
<1>2. CASE buckets[ip].present
  <2>1. /\ buckets[ip].last_refill \in Nat /\ now \in Nat /\ now' = now + 1
        /\ buckets[ip].tokens \in 0..Capacity
        /\ buckets[ip].last_refill <= now /\ buckets' = buckets
    BY <1>2, Zenon DEF LimiterTypeOK, ClockInv, Tick
  <2> QED
    BY <1>2, <2>1, LimiterConstants DEF Level, Capped
<1> QED
  BY <1>1, <1>2, Zenon

(* The tokens a call finds in the bucket of p, and those it leaves there.  *)
Left(p) == IF Level(p) >= Cost THEN Level(p) - Cost ELSE Level(p)

LEMMA ConsumeStep ==
  ASSUME LimiterTypeOK, ClockInv, NEW w \in Worker, CheckConsume(w)
  PROVE  /\ call[w].ip \in Ip
         /\ buckets' = [buckets EXCEPT ![call[w].ip] =
                          Bucket(Left(call[w].ip), now)]
         /\ window' = IF Level(call[w].ip) >= Cost
                        THEN [window EXCEPT !.spent[call[w].ip] = @ + Cost]
                        ELSE window
         /\ verdict' = [ip |-> call[w].ip, ok |-> Level(call[w].ip) >= Cost]
<1> DEFINE p == call[w].ip
<1>1. p \in Ip
  BY DEF LimiterTypeOK, CheckConsume, Idle
<1>2. ASSUME ~buckets[p].present PROVE Capped(Capacity + (now - now)) = Level(p)
  BY <1>2, LimiterConstants DEF LimiterTypeOK, Level, Capped
<1>3. ASSUME buckets[p].present
      PROVE  Capped(buckets[p].tokens + (now - buckets[p].last_refill)) = Level(p)
  BY <1>3, Zenon DEF Level
<1>4. LET bucket == IF buckets[p].present THEN buckets[p]
                                          ELSE Bucket(Capacity, now)
      IN  Capped(bucket.tokens + (now - bucket.last_refill)) = Level(p)
  BY <1>2, <1>3, Zenon DEF Bucket
<1> QED
  BY <1>1, <1>4, Zenon DEF CheckConsume, Left

(* After a call, the bucket holds what the call left.                      *)
LEMMA ConsumeLevels ==
  ASSUME LimiterTypeOK, ClockInv, NEW w \in Worker, CheckConsume(w), NEW ip \in Ip
  PROVE  Level(ip)' = IF ip = call[w].ip THEN Left(ip) ELSE Level(ip)
<1> DEFINE p == call[w].ip
<1>1. /\ p \in Ip /\ now' = now /\ now \in Nat
      /\ buckets' = [buckets EXCEPT ![p] = Bucket(Left(p), now)]
  BY ConsumeStep, Zenon DEF CheckConsume, LimiterTypeOK
<1>2. CASE ip # p
  <2>1. buckets'[ip] = buckets[ip]
    BY <1>1, <1>2, Zenon DEF LimiterTypeOK
  <2> QED
    BY <1>1, <1>2, <2>1 DEF Level, Capped
<1>3. CASE ip = p
  <2>1. buckets'[ip] = Bucket(Left(p), now)
    BY <1>1, <1>3, Zenon DEF LimiterTypeOK
  <2>2. Left(p) \in 0..Capacity
    BY <1>1, LevelType, LimiterConstants DEF Left
  <2>3. Level(ip)' = Capped(Left(p) + (now - now))
    BY <1>1, <2>1 DEF Level, Bucket, Capped
  <2> QED
    BY <1>1, <1>3, <2>2, <2>3, LimiterConstants DEF Capped
<1> QED
  BY <1>2, <1>3, Zenon

(* Levels unchanged and window unchanged: the budget is kept.              *)
LEMMA BudgetStays ==
  ASSUME BudgetInv, UNCHANGED <<now, window>>,
         \A ip \in Ip : Level(ip)' = Level(ip)
  PROVE  BudgetInv'
BY Zenon DEF BudgetInv

LEMMA SweepStep ==
  ASSUME LimiterInv, NEW s \in Sweeper, NEW p \in Ip, SweepBucket(s, p)
  PROVE  LimiterInv'
<1> USE DEF SweepBucket
<1>0. LimiterTypeOK /\ ClockInv /\ BudgetInv /\ IdleInv
  BY Zenon DEF LimiterInv
<1>1. LimiterTypeOK'
  BY <1>0, LimiterConstants DEF LimiterTypeOK, NoBucket
<1>2. ClockInv'
  <2>1. \A ip \in Ip : buckets'[ip] = buckets[ip] \/ ~buckets'[ip].present
    BY <1>0, Zenon DEF LimiterTypeOK, NoBucket
  <2>2. \A t \in Sweeper : /\ sweep'[t].cutoff = sweep[t].cutoff
                           /\ sweep'[t].todo \subseteq sweep[t].todo
    BY <1>0 DEF LimiterTypeOK
  <2> QED
    BY <1>0, <2>1, <2>2, Zenon DEF ClockInv
<1>3. BudgetInv'
  BY <1>0, SweepKeepsLevels, BudgetStays, Zenon
<1>4. IdleInv'
  <2>1. EvictionTask \in Sweeper
    BY Zenon DEF Sweeper
  <2>2. \A ip \in Ip : buckets'[ip] = buckets[ip] \/ ~buckets'[ip].present
    BY <1>0, Zenon DEF LimiterTypeOK, NoBucket
  <2>3. CASE s # EvictionTask
    <3>1. sweep'[EvictionTask] = sweep[EvictionTask]
      BY <1>0, <2>1, <2>3, Zenon DEF LimiterTypeOK
    <3>2. sweep[EvictionTask].todo \subseteq Ip
      BY <1>0, <2>1, Zenon DEF LimiterTypeOK
    <3> QED
      BY <1>0, <2>2, <3>1, <3>2, Zenon DEF IdleInv
  <2>4. CASE s = EvictionTask
    <3>1. /\ sweep'[s].todo = sweep[s].todo \ {p}
          /\ sweep'[s].cutoff = sweep[s].cutoff
          /\ p \in sweep[s].todo /\ sweep[s].todo \subseteq Ip
          /\ sweep[s].cutoff \in Nat
      BY <1>0, Zenon DEF LimiterTypeOK
    <3>2. /\ next_sweep = now + SweepInterval
          /\ now = sweep[s].cutoff + StaleTtl
      BY <1>0, <2>4, <3>1, Zenon DEF IdleInv
    <3>3. ASSUME buckets'[p].present
          PROVE  /\ buckets'[p] = buckets[p]
                 /\ buckets[p].last_refill >= sweep[s].cutoff
      BY <1>0, <3>3, Zenon DEF LimiterTypeOK, NoBucket
    <3>4. buckets[p].last_refill \in Nat
      BY <1>0, Zenon DEF LimiterTypeOK
    <3>5. ASSUME buckets'[p].present
          PROVE  next_sweep <= buckets'[p].last_refill + StaleTtl + SweepInterval
      BY <3>1, <3>2, <3>3, <3>4, <3>5, LimiterConstants, TtlCoversRefill
    <3>6. \A ip \in Ip \ sweep'[s].todo : ip = p \/ ip \in Ip \ sweep[s].todo
      BY <3>1, Zenon
    <3>7. \A ip \in sweep'[s].todo : ip \in sweep[s].todo /\ ip \in Ip
      BY <3>1, Zenon
    <3>8. \A ip \in Ip \ sweep'[s].todo : buckets'[ip].present =>
            next_sweep <= buckets'[ip].last_refill + StaleTtl + SweepInterval
      BY <1>0, <2>2, <2>4, <3>5, <3>6, Zenon DEF IdleInv
    <3>9. \A ip \in sweep'[s].todo : buckets'[ip].present =>
            now <= buckets'[ip].last_refill + StaleTtl + SweepInterval
      BY <1>0, <2>2, <2>4, <3>7, Zenon DEF IdleInv
    <3> QED
      BY <2>4, <3>1, <3>2, <3>8, <3>9, Zenon DEF IdleInv
  <2> QED
    BY <2>3, <2>4, Zenon
<1> QED
  BY <1>1, <1>2, <1>3, <1>4, Zenon DEF LimiterInv

LEMMA ConsumeInv ==
  ASSUME LimiterInv, NEW w \in Worker, CheckConsume(w)
  PROVE  LimiterInv'
<1> DEFINE p == call[w].ip
<1>0. LimiterTypeOK /\ ClockInv /\ BudgetInv /\ IdleInv
  BY Zenon DEF LimiterInv
<1>1. /\ p \in Ip
      /\ buckets' = [buckets EXCEPT ![p] = Bucket(Left(p), now)]
      /\ window' = IF Level(p) >= Cost
                     THEN [window EXCEPT !.spent[p] = @ + Cost] ELSE window
      /\ UNCHANGED <<now, check_count, sweep, next_sweep>>
      /\ call' = [call EXCEPT ![w] = Idle]
  BY <1>0, ConsumeStep, Zenon DEF CheckConsume
<1>2. Left(p) \in 0..Capacity /\ Level(p) \in 0..Capacity
  BY <1>0, <1>1, LevelType, LimiterConstants DEF Left
<1>3. /\ buckets'[p].last_refill = now
      /\ \A ip \in Ip : ip # p => buckets'[ip] = buckets[ip]
  BY <1>0, <1>1, Zenon DEF LimiterTypeOK, Bucket
<1>4. window'.start = window.start
  BY <1>0, <1>1, Zenon DEF LimiterTypeOK
<1> HIDE DEF p
<1>5. LimiterTypeOK'
  <2>1. buckets' \in [Ip -> [tokens : 0..Capacity, last_refill : Nat,
                             present : BOOLEAN]]
    BY <1>0, <1>1, <1>2, Zenon DEF LimiterTypeOK, Bucket
  <2>2. window' \in [start : Nat, spent : [Ip -> Nat]]
    BY <1>0, <1>1, LimiterConstants DEF LimiterTypeOK
  <2>3. call' \in [Worker -> {Idle} \cup [at : {"evict", "entry"}, ip : Ip]]
    BY <1>0, <1>1, Zenon DEF LimiterTypeOK
  <2> QED
    BY <1>0, <1>1, <2>1, <2>2, <2>3, SMTT(40) DEF LimiterTypeOK
<1>6. ClockInv'
  <2>1. now \in Nat /\ \A ip \in Ip : buckets'[ip] = buckets[ip] \/ buckets'[ip].last_refill = now
    BY <1>0, <1>3, Zenon DEF LimiterTypeOK
  <2>2. \A ip \in Ip : (buckets[ip].present => buckets[ip].last_refill <= now)'
    BY <1>0, <1>1, <2>1 DEF ClockInv
  <2> QED
    BY <1>0, <1>1, <1>4, <2>2, Zenon DEF ClockInv
<1>7. BudgetInv'
  <2> SUFFICES ASSUME NEW ip \in Ip
               PROVE  (window.spent[ip] + Level(ip)
                        <= Capacity + (now - window.start))'
    BY Zenon DEF BudgetInv
  <2>1. window.spent[ip] + Level(ip) <= Capacity + (now - window.start)
    BY <1>0, Zenon DEF BudgetInv
  <2>2. /\ window.spent[ip] \in Nat /\ now \in Nat /\ window.start \in Nat
        /\ Level(ip) \in Nat
    BY <1>0, LevelType, LimiterConstants DEF LimiterTypeOK
  <2>3. Level(ip)' = IF ip = p THEN Left(ip) ELSE Level(ip)
    BY <1>0, ConsumeLevels, Zenon DEF p
  <2>4. window'.spent[ip] = IF ip = p /\ Level(p) >= Cost
                              THEN window.spent[ip] + Cost ELSE window.spent[ip]
    BY <1>0, <1>1, Zenon DEF LimiterTypeOK
  <2> QED
    BY <1>1, <1>4, <2>1, <2>2, <2>3, <2>4, LimiterConstants DEF Left
<1>8. IdleInv'
  <2>1. /\ now \in Nat /\ next_sweep \in Nat
        /\ sweep[EvictionTask].cutoff \in Nat
        /\ sweep[EvictionTask].todo \subseteq Ip
    BY <1>0, Zenon DEF LimiterTypeOK, Sweeper
  <2>2. next_sweep <= now + SweepInterval + StaleTtl
    BY <1>0, <2>1, LimiterConstants, TtlCoversRefill DEF ClockInv
  <2> QED
    BY <1>0, <1>1, <1>3, <2>1, <2>2, LimiterConstants, TtlCoversRefill
       DEF IdleInv
<1> QED
  BY <1>5, <1>6, <1>7, <1>8, Zenon DEF LimiterInv

LEMMA TickStep == LimiterInv /\ Tick => LimiterInv'
<1> SUFFICES ASSUME LimiterInv, Tick PROVE LimiterInv'
  BY Zenon
<1>0. LimiterTypeOK /\ ClockInv /\ BudgetInv /\ IdleInv
  BY Zenon DEF LimiterInv
<1>1. LimiterTypeOK'
  BY <1>0 DEF LimiterTypeOK, Tick
<1>2. ClockInv'
  BY <1>0, LimiterConstants, TtlCoversRefill DEF ClockInv, LimiterTypeOK, Tick
<1>3. BudgetInv'
  <2> SUFFICES ASSUME NEW ip \in Ip
               PROVE  (window.spent[ip] + Level(ip)
                        <= Capacity + (now - window.start))'
    BY Zenon DEF BudgetInv
  <2>1. window.spent[ip] + Level(ip) <= Capacity + (now - window.start)
    BY <1>0, Zenon DEF BudgetInv
  <2>2. /\ window.spent[ip] \in Nat /\ now \in Nat /\ window.start \in Nat
        /\ Level(ip) \in 0..Capacity
    BY <1>0, LevelType, Zenon DEF LimiterTypeOK
  <2>3. Level(ip)' = IF Level(ip) < Capacity THEN Level(ip) + 1 ELSE Capacity
    BY <1>0, TickRaisesLevels, Zenon
  <2> QED
    BY <2>1, <2>2, <2>3, LimiterConstants DEF Tick
<1>4. IdleInv'
  <2>1. sweep[EvictionTask].todo = {} /\ UNCHANGED <<buckets, sweep, next_sweep>>
    BY Zenon DEF Tick
  <2> QED
    BY <1>0, <2>1, Zenon DEF IdleInv
<1> QED
  BY <1>1, <1>2, <1>3, <1>4, Zenon DEF LimiterInv

LEMMA EvictionTickStep == LimiterInv /\ EvictionTick => LimiterInv'
<1> SUFFICES ASSUME LimiterInv, EvictionTick PROVE LimiterInv'
  BY Zenon
<1> USE DEF EvictionTick, BeginSweep
<1>0. LimiterTypeOK /\ ClockInv /\ BudgetInv /\ IdleInv
  BY Zenon DEF LimiterInv
<1>1. /\ EvictionTask \in Sweeper /\ now \in Nat /\ next_sweep \in Nat
      /\ now = next_sweep
  BY <1>0 DEF LimiterTypeOK, ClockInv, Sweeper
<1>2. LimiterTypeOK'
  BY <1>0, <1>1, LimiterConstants, TtlCoversRefill DEF LimiterTypeOK, NoSweep
<1>3. sweep'[EvictionTask] = IF now < StaleTtl THEN NoSweep
                             ELSE [cutoff |-> now - StaleTtl, todo |-> Ip]
  BY <1>0, <1>1, SMTT(40) DEF LimiterTypeOK
<1>4. ClockInv'
  <2>1. /\ \A s \in Sweeper : s # EvictionTask => sweep'[s] = sweep[s]
        /\ UNCHANGED <<now, buckets, window>>
        /\ next_sweep' = next_sweep + SweepInterval
    BY <1>0, Zenon DEF LimiterTypeOK
  <2> HIDE DEF EvictionTick, BeginSweep
  <2>2. now <= next_sweep' /\ next_sweep' <= now + SweepInterval
    BY <1>1, <2>1, LimiterConstants
  <2>3. sweep'[EvictionTask].todo # {} => sweep'[EvictionTask].cutoff + StaleTtl <= now
    <3>1. CASE now < StaleTtl
      BY <1>3, <3>1 DEF NoSweep
    <3>2. CASE ~(now < StaleTtl)
      <4>1. sweep'[EvictionTask].cutoff = now - StaleTtl
        BY <1>3, <3>2
      <4> QED
        BY <1>1, <4>1, TtlCoversRefill
    <3> QED
      BY <3>1, <3>2, Zenon
  <2>4. \A s \in Sweeper : sweep'[s].todo # {} => sweep'[s].cutoff + StaleTtl <= now
    BY <1>0, <2>1, <2>3, Zenon DEF ClockInv
  <2>5. /\ \A ip \in Ip : buckets[ip].present => buckets[ip].last_refill <= now
        /\ window.start <= now
    BY <1>0, Zenon DEF ClockInv
  <2> QED
    BY <2>1, <2>2, <2>4, <2>5, Zenon DEF ClockInv
<1>5. BudgetInv'
  BY <1>0, BudgetStays, Zenon DEF Level, Capped
<1>6. IdleInv'
  <2> DEFINE round == sweep'[EvictionTask]
  <2>1. UNCHANGED <<buckets, now>> /\ next_sweep' = next_sweep + SweepInterval
    BY Zenon
  <2>2. \A ip \in Ip : buckets[ip].present =>
          next_sweep <= buckets[ip].last_refill + StaleTtl + SweepInterval
    BY <1>0, Zenon DEF IdleInv
  <2>3. \A ip \in Ip : buckets[ip].last_refill \in Nat
    BY <1>0, Zenon DEF LimiterTypeOK
  <2> HIDE DEF EvictionTick, BeginSweep
  (* Before the clock reaches the TTL no bucket is that old.               *)
  <2>4. CASE now < StaleTtl
    <3>1. round.todo = {}
      BY <1>3, <2>4, SMTT(40) DEF NoSweep
    <3>2. \A ip \in Ip : next_sweep' <= buckets[ip].last_refill + StaleTtl + SweepInterval
      BY <1>1, <2>1, <2>3, <2>4, LimiterConstants, TtlCoversRefill
    <3> QED
      BY <2>1, <3>1, <3>2, Zenon DEF IdleInv
  (* Afterwards the round has every bucket before it.                      *)
  <2>5. CASE ~(now < StaleTtl)
    <3>1. round.todo = Ip /\ round.cutoff = now - StaleTtl
      BY <1>3, <2>5, SMTT(40)
    <3>2. next_sweep' = now + SweepInterval /\ now = round.cutoff + StaleTtl
      BY <1>1, <2>1, <3>1, LimiterConstants, TtlCoversRefill
    <3>3. \A ip \in Ip : buckets[ip].present =>
            now <= buckets[ip].last_refill + StaleTtl + SweepInterval
      BY <1>1, <2>2, Zenon
    <3>4. Ip \ round.todo = {}
      BY <3>1, Zenon
    <3> HIDE DEF round
    <3>5. /\ \A ip \in Ip \ round.todo : buckets'[ip].present =>
                next_sweep' <= buckets'[ip].last_refill + StaleTtl + SweepInterval
          /\ \A ip \in round.todo : buckets'[ip].present =>
                now' <= buckets'[ip].last_refill + StaleTtl + SweepInterval
          /\ round.todo # {} => next_sweep' = now' + SweepInterval /\ now' = round.cutoff + StaleTtl
      BY <2>1, <3>1, <3>2, <3>3, <3>4, Zenon
    <3> QED
      BY <3>5, Zenon DEF IdleInv, round
  <2> QED
    BY <2>4, <2>5, Zenon
<1> QED
  BY <1>2, <1>4, <1>5, <1>6, Zenon DEF LimiterInv

(* The remaining steps leave the clock, the buckets and the eviction task  *)
(* alone.                                                                  *)
LEMMA CallStep ==
  ASSUME LimiterInv, NEW w \in Worker,
         (\E ip \in Ip : CheckBegin(w, ip)) \/ CheckSwept(w)
  PROVE  LimiterInv'
<1>0. LimiterTypeOK /\ ClockInv /\ BudgetInv /\ IdleInv
  BY Zenon DEF LimiterInv
<1>1. UNCHANGED <<now, buckets, next_sweep, window>>
  BY Zenon DEF CheckBegin, CheckSwept
<1>2. /\ \A s \in Sweeper : s # w => sweep'[s] = sweep[s]
      /\ sweep'[w] = sweep[w] \/ sweep'[w] = NoSweep
         \/ (now >= StaleTtl /\ sweep'[w] = [cutoff |-> now - StaleTtl, todo |-> Ip])
      /\ sweep' \in [Sweeper -> [cutoff : Nat, todo : SUBSET Ip]]
  <2>1. w \in Sweeper
    BY Zenon DEF Sweeper
  <2>2. CASE CheckSwept(w)
    BY <1>0, <2>2, Zenon DEF CheckSwept, LimiterTypeOK
  <2>3. CASE \E ip \in Ip : CheckBegin(w, ip)
    <3>1. \/ UNCHANGED sweep
          \/ sweep' = [sweep EXCEPT ![w] =
                IF now < StaleTtl THEN NoSweep
                ELSE [cutoff |-> now - StaleTtl, todo |-> Ip]]
      BY <2>3, Zenon DEF CheckBegin, BeginSweep
    <3>2. CASE UNCHANGED sweep
      BY <1>0, <3>2, SMTT(40) DEF LimiterTypeOK
    <3>3. CASE now < StaleTtl /\ sweep' = [sweep EXCEPT ![w] = NoSweep]
      BY <1>0, <2>1, <3>3, Zenon DEF LimiterTypeOK, NoSweep
    <3>4. CASE /\ ~(now < StaleTtl)
               /\ sweep' = [sweep EXCEPT ![w] =
                              [cutoff |-> now - StaleTtl, todo |-> Ip]]
      <4>1. now \in Nat /\ now >= StaleTtl /\ now - StaleTtl \in Nat
        BY <1>0, <3>4, TtlCoversRefill DEF LimiterTypeOK
      <4> QED
        BY <1>0, <2>1, <3>4, <4>1, Zenon DEF LimiterTypeOK
    <3> QED
      BY <3>1, <3>2, <3>3, <3>4, Zenon
  <2> QED
    BY <2>2, <2>3, Zenon
<1>3. LimiterTypeOK'
  <2>1. check_count' \in Nat
    BY <1>0 DEF LimiterTypeOK, CheckBegin, CheckSwept
  <2>2. call' \in [Worker -> {Idle} \cup [at : {"evict", "entry"}, ip : Ip]]
    <3>1. CASE CheckSwept(w)
      <4>1. call[w] \in [at : {"evict", "entry"}, ip : Ip]
        BY <1>0, <3>1 DEF LimiterTypeOK, CheckSwept, Idle
      <4>2. [call[w] EXCEPT !.at = "entry"] \in [at : {"evict", "entry"}, ip : Ip]
        BY <4>1, Zenon
      <4> QED
        BY <1>0, <3>1, <4>2, Zenon DEF LimiterTypeOK, CheckSwept
    <3>2. CASE \E ip \in Ip : CheckBegin(w, ip)
      BY <1>0, <3>2, SMTT(40) DEF LimiterTypeOK, CheckBegin
    <3> QED
      BY <3>1, <3>2, Zenon
  <2> QED
    BY <1>0, <1>1, <1>2, <2>1, <2>2, Zenon DEF LimiterTypeOK
<1>4. ClockInv'
  <2>1. \A s \in Sweeper : s # w => (sweep'[s].todo # {} => sweep'[s].cutoff + StaleTtl <= now')
    BY <1>0, <1>1, <1>2, Zenon DEF ClockInv
  <2>2. sweep'[w].todo # {} => sweep'[w].cutoff + StaleTtl <= now'
    <3>1. CASE sweep'[w] = sweep[w]
      BY <1>0, <1>1, <3>1, Zenon DEF ClockInv, Sweeper
    <3>2. CASE sweep'[w] = NoSweep
      BY <3>2 DEF NoSweep
    <3>3. CASE now >= StaleTtl /\ sweep'[w] = [cutoff |-> now - StaleTtl, todo |-> Ip]
      <4>1. now \in Nat /\ StaleTtl \in Nat /\ sweep'[w].cutoff = now - StaleTtl
        BY <1>0, <3>3, TtlCoversRefill, SMTT(40) DEF LimiterTypeOK
      <4> QED
        BY <1>1, <4>1, SMTT(40)
    <3> QED
      BY <1>2, <3>1, <3>2, <3>3, Zenon
  <2>3. /\ \A ip \in Ip : buckets'[ip].present => buckets'[ip].last_refill <= now'
        /\ window'.start <= now' /\ now' <= next_sweep' /\ next_sweep' <= now' + SweepInterval
    BY <1>0, <1>1, Zenon DEF ClockInv
  <2>4. \A s \in Sweeper : sweep'[s].todo # {} => sweep'[s].cutoff + StaleTtl <= now'
    BY <2>1, <2>2, Zenon
  <2> QED
    BY <2>3, <2>4, Zenon DEF ClockInv
<1>5. BudgetInv'
  <2>1. \A ip \in Ip : Level(ip)' = Level(ip)
    BY <1>1, Zenon DEF Level, Capped
  <2> QED
    BY <1>0, <1>1, <2>1, Zenon DEF BudgetInv
<1>6. IdleInv'
  <2>1. sweep'[EvictionTask] = sweep[EvictionTask]
    BY <1>2, LimiterConstants, Zenon DEF Sweeper
  <2> QED
    BY <1>0, <1>1, <2>1, ZenonT(40) DEF IdleInv
<1> QED
  BY <1>3, <1>4, <1>5, <1>6, Zenon DEF LimiterInv

LEMMA StartWindowStep == LimiterInv /\ StartWindow => LimiterInv'
<1> SUFFICES ASSUME LimiterInv, StartWindow PROVE LimiterInv'
  BY Zenon
<1>0. LimiterTypeOK /\ ClockInv /\ BudgetInv /\ IdleInv
  BY Zenon DEF LimiterInv
<1> USE DEF StartWindow
<1>1. LimiterTypeOK'
  BY <1>0, Zenon DEF LimiterTypeOK
<1>2. ClockInv'
  BY <1>0 DEF ClockInv, LimiterTypeOK
<1>3. BudgetInv'
  <2> SUFFICES ASSUME NEW ip \in Ip
               PROVE  (window.spent[ip] + Level(ip)
                        <= Capacity + (now - window.start))'
    BY SMTT(40) DEF BudgetInv
  <2>1. Level(ip)' = Level(ip) /\ Level(ip) \in 0..Capacity
    BY <1>0, LevelType, Zenon DEF Level, Capped
  <2>2. /\ window'.spent[ip] = 0 /\ window'.start = now
        /\ now' = now /\ now \in Nat
    BY <1>0, SMTT(40) DEF LimiterTypeOK
  <2> QED
    BY <2>1, <2>2, LimiterConstants
<1>4. IdleInv'
  BY <1>0, Zenon DEF IdleInv
<1> QED
  BY <1>1, <1>2, <1>3, <1>4, Zenon DEF LimiterInv

LEMMA LimiterStep == LimiterInv /\ [LimiterNext]_limiterVars => LimiterInv'
<1> SUFFICES ASSUME LimiterInv, [LimiterNext]_limiterVars PROVE LimiterInv'
  BY Zenon
<1>1. CASE UNCHANGED limiterVars
  BY <1>1, Zenon DEF limiterVars, LimiterInv, LimiterTypeOK, ClockInv, BudgetInv, IdleInv, Level, Capped
<1>2. CASE \E s \in Sweeper, ip \in Ip : SweepBucket(s, ip)
  BY <1>2, SweepStep, Zenon
<1>3. CASE \E w \in Worker : (\E ip \in Ip : CheckBegin(w, ip)) \/ CheckSwept(w)
  BY <1>3, CallStep, Zenon
<1>4. CASE \E w \in Worker : CheckConsume(w)
  BY <1>4, ConsumeInv, Zenon
<1> QED
  BY <1>1, <1>2, <1>3, <1>4, TickStep, EvictionTickStep, StartWindowStep, SMTT(40) DEF LimiterNext

-----------------------------------------------------------------------------

(* The inductive invariant holds of every behaviour of the limiter.        *)
THEOREM LimiterInvariance == LimiterSpec => []LimiterInv
BY LimiterInitInv, LimiterStep, PTL DEF LimiterSpec

(* Every variable of the limiter keeps its type; in particular no bucket   *)
(* holds less than nothing or more than its capacity.                      *)
THEOREM LimiterTypeCorrect == LimiterSpec => []LimiterTypeOK
BY LimiterInvariance, PTL DEF LimiterInv

(* Over any interval the limiter admits, for one address, no more than a   *)
(* full bucket and the refill of the interval.                             *)
THEOREM WindowBounded == LimiterSpec => []WindowBound
<1>1. LimiterInv => WindowBound
  <2> SUFFICES ASSUME LimiterInv, NEW ip \in Ip
               PROVE  window.spent[ip] <= Capacity + (now - window.start)
    BY Zenon DEF WindowBound
  <2>1. LimiterTypeOK /\ ClockInv /\ BudgetInv
    BY Zenon DEF LimiterInv
  <2>2. window.spent[ip] + Level(ip) <= Capacity + (now - window.start)
    BY <2>1, Zenon DEF BudgetInv
  <2>3. /\ Level(ip) \in 0..Capacity /\ window.spent[ip] \in Nat
        /\ now \in Nat /\ window.start \in Nat
    BY <2>1, LevelType, Zenon DEF LimiterTypeOK
  <2> QED
    BY <2>2, <2>3, LimiterConstants
<1> QED
  BY <1>1, LimiterInvariance, PTL

(* No bucket outlives the TTL and one interval of the eviction task.       *)
THEOREM IdleBounded == LimiterSpec => []IdleBucketBound
<1>1. LimiterInv => IdleBucketBound
  <2> SUFFICES ASSUME LimiterInv, NEW ip \in Ip, buckets[ip].present
               PROVE  now - buckets[ip].last_refill <= StaleTtl + SweepInterval
    BY Zenon DEF IdleBucketBound
  <2>1. /\ now \in Nat /\ next_sweep \in Nat /\ now <= next_sweep
        /\ buckets[ip].last_refill \in Nat
    BY Zenon DEF LimiterInv, LimiterTypeOK, ClockInv
  <2>2. now <= buckets[ip].last_refill + StaleTtl + SweepInterval
    <3>1. CASE ip \in sweep[EvictionTask].todo
      BY <3>1, Zenon DEF LimiterInv, IdleInv
    <3>2. CASE ip \notin sweep[EvictionTask].todo
      <4>1. next_sweep <= buckets[ip].last_refill + StaleTtl + SweepInterval
        BY <3>2, Zenon DEF LimiterInv, IdleInv
      <4> QED
        BY <2>1, <4>1, LimiterConstants, TtlCoversRefill
    <3> QED
      BY <3>1, <3>2, Zenon
  <2> QED
    BY <2>1, <2>2, LimiterConstants, TtlCoversRefill
<1> QED
  BY <1>1, LimiterInvariance, PTL

-----------------------------------------------------------------------------
(* The refinement.                                                         *)

LEMMA InitPromise == LimiterInit => Promise!Init
<1> SUFFICES ASSUME LimiterInit PROVE Promise!Init
  BY Zenon
<1>1. \A ip \in Ip : Level(ip) = Capacity
  BY Zenon DEF LimiterInit, Level, NoBucket
<1> QED
  BY <1>1, Zenon DEF LimiterInit, Promise!Init

LEMMA StutterPromise ==
  ASSUME UNCHANGED verdict, \A ip \in Ip : Level(ip)' = Level(ip)
  PROVE  UNCHANGED Promise!vars
BY Zenon DEF Promise!vars

LEMMA NextPromise == LimiterInv /\ [LimiterNext]_limiterVars => [Promise!Next]_(Promise!vars)
<1> SUFFICES ASSUME LimiterInv, [LimiterNext]_limiterVars PROVE [Promise!Next]_(Promise!vars)
  BY Zenon
<1>0. LimiterTypeOK /\ ClockInv
  BY Zenon DEF LimiterInv
<1>1. CASE \/ UNCHANGED limiterVars \/ EvictionTick \/ StartWindow
           \/ \E w \in Worker : (\E ip \in Ip : CheckBegin(w, ip)) \/ CheckSwept(w)
  <2>1. UNCHANGED <<now, buckets, verdict>>
    BY <1>1, Zenon DEF limiterVars, EvictionTick, StartWindow, CheckBegin, CheckSwept
  <2>2. \A ip \in Ip : Level(ip)' = Level(ip)
    BY <2>1, Zenon DEF Level, Capped
  <2> QED
    BY <2>1, <2>2, StutterPromise, Zenon
<1>2. CASE \E s \in Sweeper, ip \in Ip : SweepBucket(s, ip)
  <2>1. \A ip \in Ip : Level(ip)' = Level(ip)
    BY <1>0, <1>2, SweepKeepsLevels, Zenon
  <2>2. UNCHANGED verdict
    BY <1>2, Zenon DEF SweepBucket
  <2> QED
    BY <2>1, <2>2, StutterPromise, Zenon
<1>3. CASE Tick
  <2>1. \A ip \in Ip : Level(ip)' = IF Level(ip) < Capacity THEN Level(ip) + 1
                                                            ELSE Capacity
    BY <1>0, <1>3, TickRaisesLevels, Zenon
  <2>2. Promise!Tick
    BY <1>3, <2>1, Zenon DEF Promise!Tick, Tick
  <2> QED
    BY <2>2, Zenon DEF Promise!Next
<1>4. ASSUME NEW w \in Worker, CheckConsume(w)
      PROVE  Promise!Next
  <2> DEFINE p == call[w].ip
             lv == [ip \in Ip |-> Level(ip)]
  <2>1. /\ p \in Ip /\ verdict' = [ip |-> p, ok |-> Level(p) >= Cost]
    BY <1>0, <1>4, ConsumeStep, Zenon
  <2>2. \A ip \in Ip : Level(ip)' = IF ip = p THEN Left(ip) ELSE Level(ip)
    BY <1>0, <1>4, ConsumeLevels, Zenon
  <2>3. Level(p) \in 0..Capacity
    BY <1>0, <2>1, LevelType, Zenon
  <2> HIDE DEF p
  <2>4. CASE Level(p) >= Cost
    <3>1. [ip \in Ip |-> Level(ip)'] = [lv EXCEPT ![p] = @ - Cost]
      BY <2>1, <2>2, <2>4, Zenon DEF Left
    <3>2. Promise!Admit(p)
      BY <2>1, <2>4, <3>1, Zenon DEF Promise!Admit
    <3> QED
      BY <2>1, <3>2, Zenon DEF Promise!Next
  <2>5. CASE ~(Level(p) >= Cost)
    <3>1. [ip \in Ip |-> Level(ip)'] = lv
      BY <2>1, <2>2, <2>5, Zenon DEF Left
    <3>2. Level(p) < Cost
      BY <2>3, <2>5, LimiterConstants
    <3>3. (Level(p) >= Cost) = FALSE
      BY <2>5
    <3>4. verdict' = [ip |-> p, ok |-> FALSE]
      BY <2>1, <3>3, Zenon
    <3>5. Promise!Deny(p)
      BY <2>1, <3>1, <3>2, <3>4, Zenon DEF Promise!Deny
    <3> QED
      BY <2>1, <3>5, Zenon DEF Promise!Next
  <2> QED
    BY <2>4, <2>5, Zenon
<1> QED
  BY <1>1, <1>2, <1>3, <1>4, Zenon DEF LimiterNext

(* The limiter implements the token buckets that are never swept: every    *)
(* eviction is a stutter, every answer is the one a full history would     *)
(* give.                                                                   *)
THEOREM Refinement == LimiterSpec => ImplementsTokenBuckets
BY InitPromise, NextPromise, LimiterInvariance, PTL
   DEF LimiterSpec, ImplementsTokenBuckets, Promise!Spec

==============================================================================
