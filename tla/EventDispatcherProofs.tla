----------------------- MODULE EventDispatcherProofs -----------------------
(***************************************************************************)
(* The event dispatcher never loses an event and its worker never panics,  *)
(* for any number of threads, observers, events and restarts, and whatever *)
(* the size of the queue (module EventDispatcher).                         *)
(*                                                                         *)
(* The strengthening says where an id can be: in the hands of one caller,  *)
(* once in the queue, with the worker, or on the list of the rows a dead   *)
(* process left; in one of these places at most, and its row is there.     *)
(***************************************************************************)
EXTENDS EventDispatcher, WellFoundedInduction, TLAPS

Sending(c) == caller[c].pc = "send"

\* Where a caller's id is.
SendInv ==
  \A c \in Threads : Sending(c) =>
    /\ caller[c].id \in pending
    /\ caller[c].id # worker.id
    /\ caller[c].id \notin node.left
    /\ \A k \in DOMAIN queue : queue[k] # caller[c].id
    /\ \A d \in Threads : Sending(d) /\ d # c => caller[d].id # caller[c].id

QueueInv ==
  \A k \in DOMAIN queue :
    /\ queue[k] \in pending
    /\ queue[k] # worker.id
    /\ queue[k] \notin node.left
    /\ \A m \in DOMAIN queue : m # k => queue[m] # queue[k]

WorkerInv ==
  worker # Idle =>
    /\ worker.id \in pending
    /\ worker.id \notin node.left
    /\ worker.pc = "delete" => worker.id \in delivered \cup forgotten

RowInv ==
  /\ pending \subseteq 1..Len(event)
  /\ node.left \subseteq pending
  /\ NothingIsLost
  /\ NeverPanics

\* The dispatcher that sends the pending payloads has no queue.
BoundInv ==
  /\ Len(queue) <= ChannelBound
  /\ node.phase = "recover" => queue = <<>>

DispatcherInv ==
  TypeOK /\ SendInv /\ QueueInv /\ WorkerInv /\ RowInv /\ BoundInv

-----------------------------------------------------------------------------
\* A set of numbers has a smallest member (ORDER BY id).
LEMMA MinExists ==
  ASSUME NEW T, T \subseteq Nat, T # {}
  PROVE  Min(T) \in T /\ \A y \in T : Min(T) <= y
  <1> DEFINE R == OpToRel(<, Nat)
  <1>1. PICK x \in T : \A y \in T : ~(<<y, x>> \in R)
    BY NatLessThanWellFounded, WFMin
  <1>2. ASSUME NEW y \in T PROVE x <= y
    <2>1. x \in Nat /\ y \in Nat OBVIOUS
    <2>2. ~(y < x) BY <1>1, <2>1 DEF OpToRel
    <2> QED BY <2>1, <2>2
  <1> QED BY <1>2 DEF Min

\* The invariant holds initially.
LEMMA InitKeeps == ASSUME Init PROVE DispatcherInv
  <1> USE DispatcherAssumption DEF Init
  <1>1. TypeOK BY DEF TypeOK, Idle, Ids
  <1>2. SendInv /\ QueueInv /\ WorkerInv
    BY DEF SendInv, QueueInv, WorkerInv, Sending, Idle
  <1>3. RowInv BY DEF RowInv, NothingIsLost, NeverPanics
  <1>4. BoundInv BY DEF BoundInv, ChannelBound
  <1> QED BY <1>1, <1>2, <1>3, <1>4 DEF DispatcherInv

\* save_to_db: the new id is nowhere yet.
LEMMA SaveKeeps ==
  ASSUME DispatcherInv, NEW c \in Callers, NEW o \in Observers, Save(c, o)
  PROVE  DispatcherInv'
  <1> USE DispatcherAssumption
  <1> DEFINE n == Len(event) + 1
  <1>1. /\ event \in Seq([observer : Observers, caller : Callers])
        /\ n \in Ids /\ Len(event) \in Nat /\ n \notin 1..Len(event)
    BY DEF DispatcherInv, TypeOK, Save, Ids
  <1>2. /\ event' = Append(event, [observer |-> o, caller |-> c])
        /\ pending' = pending \cup {n}
        /\ caller' = [caller EXCEPT ![c] = [pc |-> "send", id |-> n]]
        /\ UNCHANGED <<queue, worker, node, delivered, forgotten>>
    BY DEF Save, NewId
  <1>3. /\ event' \in Seq([observer : Observers, caller : Callers]) /\ Len(event') = n
        /\ DOMAIN event' = DOMAIN event \cup {n}
    BY <1>1, <1>2
  <1>4. /\ caller' \in [Threads -> [pc : {"send", "wait"}, id : Ids] \cup {Idle}]
        /\ caller'[c] = [pc |-> "send", id |-> n]
        /\ \A d \in Threads : d # c => caller'[d] = caller[d]
    BY <1>1, <1>2 DEF DispatcherInv, TypeOK, Threads
  <1>5. n \notin pending /\ n \notin node.left
    BY <1>1 DEF DispatcherInv, RowInv
  <1>6. TypeOK'
    <2>1. Len(event') <= MaxEvents BY <1>1, <1>3 DEF Ids
    <2>2. pending' \subseteq Ids BY <1>1, <1>2 DEF DispatcherInv, TypeOK
    <2> QED BY <2>1, <2>2, <1>2, <1>3, <1>4 DEF DispatcherInv, TypeOK
  <1>7. worker.id # n /\ \A k \in DOMAIN queue : queue[k] # n
    BY <1>1, <1>5 DEF DispatcherInv, WorkerInv, QueueInv, Idle, Ids
  <1>8. SendInv'
    <2> SUFFICES ASSUME NEW d \in Threads, Sending(d)'
                 PROVE  /\ caller'[d].id \in pending'
                        /\ caller'[d].id # worker.id
                        /\ caller'[d].id \notin node.left
                        /\ \A k \in DOMAIN queue : queue[k] # caller'[d].id
                        /\ \A e \in Threads : Sending(e)' /\ e # d =>
                                                caller'[e].id # caller'[d].id
      BY <1>2 DEF SendInv
    <2>1. \A e \in Threads : Sending(e)' /\ e # c =>
            Sending(e) /\ caller'[e].id = caller[e].id /\ caller[e].id \in pending
      BY <1>4 DEF Sending, DispatcherInv, SendInv
    <2>2. CASE d = c
      BY <2>1, <2>2, <1>2, <1>4, <1>5, <1>7
    <2>3. CASE d # c
      BY <2>1, <2>3, <1>2, <1>4, <1>5 DEF DispatcherInv, SendInv, Sending
    <2> QED BY <2>2, <2>3
  <1>9. QueueInv' /\ WorkerInv'
    BY <1>2 DEF DispatcherInv, QueueInv, WorkerInv
  <1>10. RowInv'
    <2>1. pending' \subseteq 1..Len(event')
      <3>1. pending \subseteq 1..Len(event) BY DEF DispatcherInv, RowInv
      <3>2. 1..Len(event) \subseteq 1..n /\ n \in 1..n BY <1>1
      <3> QED BY <1>2, <1>3, <3>1, <3>2
    <2>2. NothingIsLost' BY <1>2, <1>3 DEF DispatcherInv, RowInv, NothingIsLost
    <2> QED BY <2>1, <2>2, <1>2 DEF DispatcherInv, RowInv, NeverPanics
  <1>11. BoundInv' BY <1>2 DEF DispatcherInv, BoundInv, ChannelBound
  <1> QED BY <1>6, <1>8, <1>9, <1>10, <1>11 DEF DispatcherInv

\* initiate_send moves the id from the caller to the worker, or to the queue.
LEMMA SendKeeps ==
  ASSUME DispatcherInv, NEW c \in Threads, InitiateSend(c)
  PROVE  DispatcherInv'
  <1> USE DispatcherAssumption
  <1> DEFINE i == caller[c].id
  <1>1. /\ Sending(c) /\ i \in Ids /\ i \in pending /\ i \notin node.left /\ i # worker.id
        /\ caller[c] = [pc |-> "send", id |-> i]
        /\ \A k \in DOMAIN queue : queue[k] # i
        /\ \A d \in Threads : Sending(d) /\ d # c => caller[d].id # i
        /\ queue \in Seq(Ids)
    BY DEF DispatcherInv, SendInv, TypeOK, InitiateSend, Sending, Idle
  <1>2. /\ \A d \in Threads : d # c => caller'[d] = caller[d]
        /\ ~Sending(c)'
        /\ caller' \in [Threads -> [pc : {"send", "wait"}, id : Ids] \cup {Idle}]
    BY <1>1 DEF InitiateSend, DispatcherInv, TypeOK, Sending, Idle
  <1>3. UNCHANGED <<event, pending, node, delivered, forgotten>>
    BY DEF InitiateSend
  <1>4. \A d \in Threads : Sending(d)' => Sending(d) /\ d # c /\ caller'[d] = caller[d]
    BY <1>2 DEF Sending
  <1>5. CASE Bound = 0 /\ worker = Idle /\ worker' = [pc |-> "fetch", id |-> i]
             /\ UNCHANGED queue
    <2>1. TypeOK' BY <1>1, <1>2, <1>3, <1>5 DEF DispatcherInv, TypeOK
    <2>2. SendInv' BY <1>1, <1>3, <1>4, <1>5 DEF DispatcherInv, SendInv
    <2>3. QueueInv' BY <1>1, <1>3, <1>5 DEF DispatcherInv, QueueInv
    <2>4. WorkerInv' BY <1>1, <1>3, <1>5 DEF WorkerInv
    <2>5. RowInv' BY <1>3 DEF DispatcherInv, RowInv, NothingIsLost, NeverPanics
    <2>6. BoundInv' BY <1>3, <1>5 DEF DispatcherInv, BoundInv, ChannelBound
    <2> QED BY <2>1, <2>2, <2>3, <2>4, <2>5, <2>6 DEF DispatcherInv
  <1>6. CASE Len(queue) < Bound /\ queue' = Append(queue, i) /\ UNCHANGED worker
    <2>0. /\ queue' \in Seq(Ids) /\ Len(queue') = Len(queue) + 1 /\ Len(queue) \in Nat
          /\ DOMAIN queue' = DOMAIN queue \cup {Len(queue) + 1}
          /\ Len(queue) + 1 \notin DOMAIN queue
          /\ \A k \in DOMAIN queue : queue'[k] = queue[k]
          /\ queue'[Len(queue) + 1] = i
      BY <1>1, <1>6
    <2>1. TypeOK' BY <2>0, <1>2, <1>3, <1>6 DEF DispatcherInv, TypeOK
    <2>2. SendInv' BY <2>0, <1>1, <1>3, <1>4, <1>6 DEF DispatcherInv, SendInv
    <2>3. QueueInv' BY <2>0, <1>1, <1>3, <1>6 DEF DispatcherInv, QueueInv
    <2>4. WorkerInv' BY <1>3, <1>6 DEF DispatcherInv, WorkerInv
    <2>5. RowInv' BY <1>3 DEF DispatcherInv, RowInv, NothingIsLost, NeverPanics
    <2>6. BoundInv'
      <3>1. ChannelBound \in Nat BY DEF ChannelBound
      <3>2. node.phase # "recover" BY <2>0, <1>6 DEF Bound
      <3>3. Len(queue') <= ChannelBound BY <2>0, <1>6, <3>1, <3>2 DEF Bound
      <3> QED BY <1>3, <3>2, <3>3 DEF BoundInv, ChannelBound
    <2> QED BY <2>1, <2>2, <2>3, <2>4, <2>5, <2>6 DEF DispatcherInv
  <1> QED BY <1>5, <1>6 DEF InitiateSend

\* recv moves the id from the queue to the worker.
LEMMA ReceiveKeeps == ASSUME DispatcherInv, Receive PROVE DispatcherInv'
  <1> USE DispatcherAssumption
  <1>1. /\ queue \in Seq(Ids) /\ queue # <<>> /\ worker = Idle
        /\ worker' = [pc |-> "fetch", id |-> Head(queue)] /\ queue' = Tail(queue)
        /\ UNCHANGED <<event, pending, caller, node, delivered, forgotten>>
    BY DEF DispatcherInv, TypeOK, Receive
  <1>2. /\ Len(queue) \in Nat /\ Len(queue) > 0 /\ queue' \in Seq(Ids)
        /\ Len(queue') = Len(queue) - 1 /\ 1 \in DOMAIN queue
        /\ Head(queue) = queue[1] /\ Head(queue) \in Ids
        /\ \A k \in DOMAIN queue' : k + 1 \in DOMAIN queue /\ k + 1 # 1
                                    /\ queue'[k] = queue[k + 1] /\ k \in Int
    BY <1>1
  <1>3. TypeOK' BY <1>1, <1>2 DEF DispatcherInv, TypeOK
  <1>4. SendInv' BY <1>1, <1>2 DEF DispatcherInv, SendInv, Sending
  <1>5. QueueInv' BY <1>1, <1>2 DEF DispatcherInv, QueueInv
  <1>6. WorkerInv' BY <1>1, <1>2 DEF DispatcherInv, QueueInv, WorkerInv
  <1>7. RowInv' BY <1>1 DEF DispatcherInv, RowInv, NothingIsLost, NeverPanics
  <1>8. BoundInv'
    <2>1. ChannelBound \in Nat BY DEF ChannelBound
    <2>2. Len(queue') <= ChannelBound BY <1>2, <2>1 DEF DispatcherInv, BoundInv
    <2>3. node.phase # "recover" BY <1>1 DEF DispatcherInv, BoundInv
    <2> QED BY <1>1, <2>2, <2>3 DEF BoundInv, ChannelBound
  <1> QED BY <1>3, <1>4, <1>5, <1>6, <1>7, <1>8 DEF DispatcherInv

\* The worker stays with its id while it fetches the row and makes requests.
LEMMA WorkerGoesOn ==
  ASSUME DispatcherInv, NEW pc \in {"request", "delete"}, worker # Idle,
         worker' = [worker EXCEPT !.pc = pc],
         delivered \subseteq delivered', forgotten \subseteq forgotten',
         delivered' \subseteq Ids, forgotten' \subseteq Ids,
         pc = "delete" => worker.id \in delivered' \cup forgotten',
         UNCHANGED <<event, pending, caller, queue, node>>
  PROVE  DispatcherInv'
  <1>1. /\ worker \in [pc : {"fetch", "request", "delete"}, id : Ids]
        /\ worker' \in [pc : {"fetch", "request", "delete"}, id : Ids]
        /\ worker'.id = worker.id /\ worker'.pc = pc
    BY DEF DispatcherInv, TypeOK
  <1>2. TypeOK' BY <1>1 DEF DispatcherInv, TypeOK
  <1>3. SendInv' BY <1>1 DEF DispatcherInv, SendInv, Sending
  <1>4. QueueInv' BY <1>1 DEF DispatcherInv, QueueInv
  <1>5. WorkerInv' BY <1>1 DEF DispatcherInv, WorkerInv
  <1>6. RowInv' BY DEF DispatcherInv, RowInv, NothingIsLost, NeverPanics
  <1>7. BoundInv' BY DEF DispatcherInv, BoundInv, ChannelBound
  <1> QED BY <1>2, <1>3, <1>4, <1>5, <1>6, <1>7 DEF DispatcherInv

\* The row is there.
LEMMA FetchKeeps == ASSUME DispatcherInv, Fetch PROVE DispatcherInv'
  <1>1. worker # Idle BY DEF Fetch, Idle
  <1>2. worker.id \in pending BY <1>1 DEF DispatcherInv, WorkerInv
  <1>3. delivered \subseteq Ids /\ forgotten \subseteq Ids
    BY DEF DispatcherInv, TypeOK
  <1> QED BY <1>1, <1>2, <1>3, WorkerGoesOn DEF Fetch

\* make_http_request, answered or not.
LEMMA RequestKeeps ==
  ASSUME DispatcherInv,
         RequestDone \/ RequestRefused \/ \E received \in BOOLEAN : RequestFails(received)
  PROVE  DispatcherInv'
  <1>1. /\ worker # Idle /\ worker.pc = "request"
        /\ UNCHANGED <<event, pending, caller, queue, node>>
    BY DEF RequestDone, RequestRefused, RequestFails, RequestUnchanged, Idle
  <1>2. worker.id \in Ids BY <1>1 DEF DispatcherInv, TypeOK
  <1>3. /\ delivered \subseteq delivered' /\ delivered' \subseteq Ids
        /\ forgotten \subseteq forgotten' /\ forgotten' \subseteq Ids
    BY <1>2 DEF DispatcherInv, TypeOK, RequestDone, RequestRefused, RequestFails
  <1>4. CASE /\ worker' = [worker EXCEPT !.pc = "delete"]
             /\ worker.id \in delivered' \cup forgotten'
    BY <1>1, <1>2, <1>3, <1>4, WorkerGoesOn
  <1>5. CASE UNCHANGED worker
    <2>1. worker' = [worker EXCEPT !.pc = "request"]
      BY <1>1, <1>5 DEF DispatcherInv, TypeOK, Idle
    <2> QED BY <1>1, <1>2, <1>3, <2>1, WorkerGoesOn
  <1> QED BY <1>4, <1>5 DEF RequestDone, RequestRefused, RequestFails

\* The row of the worker's id is deleted, or stays.
LEMMA DeleteKeeps == ASSUME DispatcherInv, Delete PROVE DispatcherInv'
  <1>1. /\ worker # Idle /\ worker.id \in delivered \cup forgotten /\ worker.id \notin node.left
        /\ worker' = Idle
        /\ UNCHANGED <<event, queue, node, delivered, forgotten>>
    BY DEF DispatcherInv, WorkerInv, Delete, Idle
  <1>2. pending' \subseteq pending /\ \A i \in pending : i # worker.id => i \in pending'
    BY DEF Delete
  <1>3. \A c \in Threads : caller'[c] = Idle \/ caller'[c] = caller[c]
    BY DEF Delete, Acknowledge
  <1>4. caller' \in [Threads -> [pc : {"send", "wait"}, id : Ids] \cup {Idle}]
    BY DEF DispatcherInv, TypeOK, Delete, Acknowledge
  <1>5. \A c \in Threads : Sending(c)' => Sending(c) /\ caller'[c] = caller[c]
    BY <1>3 DEF Sending, Idle
  <1>6. \A c \in Threads : Sending(c) => caller[c].id \in Ids
    BY DEF DispatcherInv, TypeOK, Sending, Idle
  <1>7. Idle.id \notin Ids BY DispatcherAssumption DEF Idle, Ids
  <1>8. TypeOK' BY <1>1, <1>2, <1>4 DEF DispatcherInv, TypeOK
  <1>9. SendInv' BY <1>1, <1>2, <1>5, <1>6, <1>7 DEF DispatcherInv, SendInv
  <1>10. QueueInv' BY <1>1, <1>2, <1>7 DEF DispatcherInv, QueueInv, TypeOK
  <1>11. WorkerInv' BY <1>1 DEF WorkerInv
  <1>12. RowInv' BY <1>1, <1>2 DEF DispatcherInv, RowInv, NothingIsLost, NeverPanics
  <1>13. BoundInv' BY <1>1 DEF DispatcherInv, BoundInv, ChannelBound
  <1> QED BY <1>8, <1>9, <1>10, <1>11, <1>12, <1>13 DEF DispatcherInv

\* A process that starts holds no id but those on its list.
LEMMA RestartKeeps ==
  ASSUME DispatcherInv, NEW observers \in Configs, Restart(observers)
  PROVE  DispatcherInv'
  <1> USE DispatcherAssumption
  <1>1. /\ caller' = [c \in Threads |-> Idle] /\ queue' = <<>> /\ worker' = Idle
        /\ UNCHANGED <<event, pending, delivered, forgotten>>
        /\ pending \subseteq Ids /\ observers \subseteq Observers
    BY DEF Restart, DispatcherInv, TypeOK
  <1>2. /\ node' \in [phase : {"recover", "run", "panicked"}, left : SUBSET Ids,
                      skipped : SUBSET Ids, missed : SUBSET Ids,
                      registered : SUBSET Observers,
                      restarts : 0..MaxRestarts]
        /\ node'.left \subseteq pending /\ node'.phase # "panicked"
    <2>1. /\ node \in [phase : {"recover", "run", "panicked"}, left : SUBSET Ids,
                       skipped : SUBSET Ids, missed : SUBSET Ids,
                      registered : SUBSET Observers,
                       restarts : 0..MaxRestarts]
          /\ node.restarts + 1 \in 0..MaxRestarts
      BY DEF Restart, DispatcherInv, TypeOK
    <2>2. \/ node' = [node EXCEPT !.phase = "recover", !.left = pending, !.skipped = {},
                                  !.registered = observers, !.restarts = node.restarts + 1]
          \/ node' = [node EXCEPT !.phase = "run", !.left = {}, !.skipped = pending,
                                  !.missed = node.missed \cup pending,
                                  !.registered = observers, !.restarts = node.restarts + 1]
      BY DEF Restart
    <2>3. CASE node' = [node EXCEPT !.phase = "recover", !.left = pending, !.skipped = {},
                                    !.registered = observers, !.restarts = node.restarts + 1]
      BY <1>1, <2>1, <2>3
    <2>4. CASE node' = [node EXCEPT !.phase = "run", !.left = {}, !.skipped = pending,
                                    !.missed = node.missed \cup pending,
                                    !.registered = observers, !.restarts = node.restarts + 1]
      <3>1. node.missed \cup pending \in SUBSET Ids  BY <1>1, <2>1
      <3> QED BY <1>1, <2>1, <2>4, <3>1
    <2> QED BY <2>2, <2>3, <2>4
  <1>3. TypeOK' BY <1>1, <1>2 DEF DispatcherInv, TypeOK
  <1>4. SendInv' /\ QueueInv' /\ WorkerInv'
    BY <1>1 DEF SendInv, QueueInv, WorkerInv, Sending, Idle
  <1>5. RowInv' BY <1>1, <1>2 DEF DispatcherInv, RowInv, NothingIsLost, NeverPanics
  <1>6. BoundInv' BY <1>1 DEF BoundInv, ChannelBound
  <1> QED BY <1>3, <1>4, <1>5, <1>6 DEF DispatcherInv

\* process_pending_payloads moves an id from the list to Main, or drops it.
LEMMA PendingKeeps == ASSUME DispatcherInv, ProcessPending PROVE DispatcherInv'
  <1> USE DispatcherAssumption
  <1> DEFINE i == NextPending(node.left)
  <1>1. i \in node.left /\ i \in pending /\ i \in Ids /\ node.left \subseteq pending
    <2>1. node.left \subseteq Nat /\ node.left # {} /\ node.left \subseteq pending
          /\ pending \subseteq Ids
      BY SMTT(30) DEF DispatcherInv, RowInv, TypeOK, Ids, ProcessPending
    <2> QED BY <2>1, MinExists DEF NextPending
  <1>2. /\ node' = [node EXCEPT !.left = node.left \ {i}]
        /\ UNCHANGED <<event, queue, worker, delivered>>
    BY DEF ProcessPending, LeftWithout
  <1>3. /\ node'.left = node.left \ {i} /\ node'.phase = node.phase
        /\ node' \in [phase : {"recover", "run", "panicked"}, left : SUBSET Ids,
                      skipped : SUBSET Ids, missed : SUBSET Ids,
                      registered : SUBSET Observers,
                      restarts : 0..MaxRestarts]
    BY <1>2 DEF DispatcherInv, TypeOK
  <1>4. /\ \A c \in Threads : Sending(c) => caller[c].id # i
        /\ \A k \in DOMAIN queue : queue[k] # i
        /\ worker.id # i
    <2>1. \A c \in Threads : Sending(c) => caller[c].id # i
      BY <1>1 DEF DispatcherInv, SendInv
    <2>2. \A k \in DOMAIN queue : queue[k] # i BY <1>1 DEF DispatcherInv, QueueInv
    <2>3. worker = Idle => worker.id # i BY <1>1 DEF Idle, Ids
    <2>4. worker # Idle => worker.id # i BY <1>1 DEF DispatcherInv, WorkerInv
    <2> QED BY <2>1, <2>2, <2>3, <2>4
  <1>5. BoundInv' BY <1>2, <1>3 DEF DispatcherInv, BoundInv, ChannelBound
  <1>6. CASE /\ pending' \in {pending, pending \ {i}}
             /\ forgotten' = forgotten \cup {i} /\ UNCHANGED caller
    <2>1. pending' \subseteq pending /\ \A j \in pending : j # i => j \in pending'
      BY <1>6
    <2>2. TypeOK' BY <1>1, <1>2, <1>3, <1>6, <2>1 DEF DispatcherInv, TypeOK
    <2>3. SendInv' BY <1>2, <1>3, <1>4, <1>6, <2>1 DEF DispatcherInv, SendInv, Sending
    <2>4. QueueInv' BY <1>2, <1>3, <1>4, <2>1 DEF DispatcherInv, QueueInv
    <2>5. WorkerInv' BY <1>2, <1>3, <1>4, <1>6, <2>1 DEF DispatcherInv, WorkerInv
    <2>6. RowInv'
      BY <1>1, <1>2, <1>3, <1>6, <2>1 DEF DispatcherInv, RowInv, NothingIsLost, NeverPanics
    <2> QED BY <1>5, <2>2, <2>3, <2>4, <2>5, <2>6 DEF DispatcherInv
  <1>7. CASE /\ caller' = [caller EXCEPT ![Main] = [pc |-> "send", id |-> i]]
             /\ UNCHANGED <<pending, forgotten>>
    <2>1. /\ caller' \in [Threads -> [pc : {"send", "wait"}, id : Ids] \cup {Idle}]
          /\ caller'[Main] = [pc |-> "send", id |-> i]
          /\ \A d \in Threads : d # Main => caller'[d] = caller[d]
      BY <1>1, <1>7 DEF DispatcherInv, TypeOK, Threads
    <2>2. TypeOK' BY <1>2, <1>3, <1>7, <2>1 DEF DispatcherInv, TypeOK
    <2>3. SendInv'
      <3> SUFFICES ASSUME NEW d \in Threads, Sending(d)'
                   PROVE  /\ caller'[d].id \in pending
                          /\ caller'[d].id # worker.id
                          /\ caller'[d].id \notin node'.left
                          /\ \A k \in DOMAIN queue : queue[k] # caller'[d].id
                          /\ \A e \in Threads : Sending(e)' /\ e # d =>
                                                  caller'[e].id # caller'[d].id
        BY <1>2, <1>7 DEF SendInv
      <3>1. \A e \in Threads : Sending(e)' /\ e # Main =>
              Sending(e) /\ caller'[e].id = caller[e].id /\ caller[e].id # i
        BY <1>4, <2>1 DEF Sending
      <3>2. CASE d = Main
        BY <3>1, <3>2, <1>1, <1>3, <1>4, <2>1
      <3>3. CASE d # Main
        BY <3>1, <3>3, <1>3, <2>1 DEF DispatcherInv, SendInv
      <3> QED BY <3>2, <3>3
    <2>4. QueueInv' BY <1>2, <1>3, <1>7 DEF DispatcherInv, QueueInv
    <2>5. WorkerInv' BY <1>2, <1>3, <1>7 DEF DispatcherInv, WorkerInv
    <2>6. RowInv'
      BY <1>2, <1>3, <1>7 DEF DispatcherInv, RowInv, NothingIsLost, NeverPanics
    <2> QED BY <1>5, <2>2, <2>3, <2>4, <2>5, <2>6 DEF DispatcherInv
  <1> QED BY <1>6, <1>7 DEF ProcessPending

\* The node starts.
LEMMA StartKeeps == ASSUME DispatcherInv, StartNode PROVE DispatcherInv'
  <1>1. /\ node' \in [phase : {"recover", "run", "panicked"}, left : SUBSET Ids,
                      skipped : SUBSET Ids, missed : SUBSET Ids,
                      registered : SUBSET Observers,
                      restarts : 0..MaxRestarts]
        /\ node'.left = node.left /\ node'.phase = "run"
        /\ UNCHANGED <<event, pending, caller, queue, worker, delivered, forgotten>>
    BY DEF StartNode, DispatcherInv, TypeOK
  <1>2. TypeOK' BY <1>1 DEF DispatcherInv, TypeOK
  <1>3. SendInv' BY <1>1 DEF DispatcherInv, SendInv, Sending
  <1>4. QueueInv' /\ WorkerInv' BY <1>1 DEF DispatcherInv, QueueInv, WorkerInv
  <1>5. RowInv' BY <1>1 DEF DispatcherInv, RowInv, NothingIsLost, NeverPanics
  <1>6. BoundInv' BY <1>1 DEF DispatcherInv, BoundInv, ChannelBound
  <1> QED BY <1>2, <1>3, <1>4, <1>5, <1>6 DEF DispatcherInv

\* Every step keeps the invariant.
LEMMA NextKeeps == ASSUME DispatcherInv, [Next]_vars PROVE DispatcherInv'
  <1>1. CASE \E c \in Callers, o \in Observers : Save(c, o) BY <1>1, SaveKeeps
  <1>2. CASE \E c \in Threads : InitiateSend(c) BY <1>2, SendKeeps
  <1>3. CASE WorkerStep
    BY <1>3, ReceiveKeeps, FetchKeeps, DeleteKeeps DEF WorkerStep
  <1>4. CASE MainStep BY <1>4, PendingKeeps, StartKeeps DEF MainStep
  <1>5. CASE RequestDone \/ RequestRefused \/ \E received \in BOOLEAN : RequestFails(received)
    BY <1>5, RequestKeeps
  <1>6. CASE \E observers \in Configs : Restart(observers) BY <1>6, RestartKeeps
  <1>7. CASE UNCHANGED vars
    <2>1. UNCHANGED <<event, pending, caller, queue, worker, node, delivered, forgotten>>
      BY <1>7 DEF vars
    <2>2. TypeOK' BY <2>1 DEF DispatcherInv, TypeOK
    <2>3. SendInv' BY <2>1 DEF DispatcherInv, SendInv, Sending
    <2>4. QueueInv' /\ WorkerInv' BY <2>1 DEF DispatcherInv, QueueInv, WorkerInv
    <2>5. RowInv' BY <2>1 DEF DispatcherInv, RowInv, NothingIsLost, NeverPanics
    <2>6. BoundInv' BY <2>1 DEF DispatcherInv, BoundInv, ChannelBound
    <2> QED BY <2>2, <2>3, <2>4, <2>5, <2>6 DEF DispatcherInv
  <1> QED BY <1>1, <1>2, <1>3, <1>4, <1>5, <1>6, <1>7 DEF Next

-----------------------------------------------------------------------------
(***************************************************************************)
(* An id is in one place at a time, over every restart of the process.     *)
(***************************************************************************)
THEOREM DispatcherCorrect == Spec => []DispatcherInv
  <1>1. Init => DispatcherInv BY InitKeeps
  <1>2. DispatcherInv /\ [Next]_vars => DispatcherInv' BY NextKeeps
  <1> QED BY <1>1, <1>2, PTL DEF Spec

(***************************************************************************)
(* The variables of the dispatcher keep their types.                       *)
(***************************************************************************)
THEOREM DispatcherTypes == Spec => []TypeOK
  <1>1. DispatcherInv => TypeOK BY DEF DispatcherInv
  <1> QED BY <1>1, DispatcherCorrect, PTL

(***************************************************************************)
(* The `expect' of main_thread_loop never fails: the row of an id is there *)
(* when the worker fetches it.                                             *)
(***************************************************************************)
THEOREM DispatcherNeverPanics == Spec => []NeverPanics
  <1>1. DispatcherInv => NeverPanics BY DEF DispatcherInv, RowInv
  <1> QED BY <1>1, DispatcherCorrect, PTL

(***************************************************************************)
(* A stored event is kept until its observer has it or it is given up for  *)
(* a named reason, whatever crashes and failed deletions happen.           *)
(***************************************************************************)
THEOREM DispatcherLosesNothing == Spec => []NothingIsLost
  <1>1. DispatcherInv => NothingIsLost BY DEF DispatcherInv, RowInv
  <1> QED BY <1>1, DispatcherCorrect, PTL

(***************************************************************************)
(* No more requests are in progress or queued than the queue size allows.  *)
(***************************************************************************)
THEOREM DispatcherQueue == Spec => []QueueIsBounded
  <1>1. ASSUME DispatcherInv PROVE QueueIsBounded
    <2>1. QueueSize \in Nat /\ Len(queue) \in Nat /\ Len(queue) <= ChannelBound
      <3>1. queue \in Seq(Ids) BY <1>1 DEF DispatcherInv, TypeOK
      <3>2. Len(queue) <= ChannelBound BY <1>1 DEF DispatcherInv, BoundInv
      <3> QED BY <3>1, <3>2, DispatcherAssumption
    <2>2. Max({1, QueueSize}) = IF QueueSize > 0 THEN QueueSize ELSE 1
      <3> DEFINE S == {1, QueueSize}
                 m == IF QueueSize > 0 THEN QueueSize ELSE 1
      <3>1. m \in S /\ \A y \in S : m >= y BY <2>1
      <3>2. Max(S) \in S /\ \A y \in S : Max(S) >= y
        <4> HIDE DEF S, m
        <4> QED BY <3>1 DEF Max
      <3> HIDE DEF m
      <3>3. Max(S) \in Nat /\ m \in Nat /\ Max(S) >= m /\ m >= Max(S) BY <2>1, <3>1, <3>2
      <3>4. Max(S) = m BY <3>3
      <3> QED BY <3>4 DEF m
    <2> QED BY <2>1, <2>2 DEF QueueIsBounded, ChannelBound
  <1> QED BY <1>1, DispatcherCorrect, PTL

-----------------------------------------------------------------------------
\* The order of the deliveries.  The strengthening says, of an event that is still to be
\* delivered, where it is, and that no later one of its thread and observer is nearer to
\* the observer.

\* still to be delivered, and every start could read its row
Open(i) == i \in DOMAIN event /\ i \notin delivered \cup forgotten \cup node.missed

Queued(i) == \E k \in DOMAIN queue : queue[k] = i

Held(i) == worker # Idle /\ worker.id = i

Carried(i) == \E c \in Threads : Sending(c) /\ caller[c].id = i

\* Two events of one thread to one observer, the first still to be delivered.
Ahead(i, j) == Open(i) /\ j \in DOMAIN event /\ i < j /\ event[i] = event[j]

\* An event that is still to be delivered is somewhere on its way.
PlaceInv ==
  \A i \in DOMAIN event : Open(i) => i \in node.left \/ Carried(i) \/ Queued(i) \/ Held(i)

\* A later event is behind it.
AheadInv ==
  \A i, j \in DOMAIN event : Ahead(i, j) =>
    /\ j \notin delivered
    /\ ~Held(j)
    /\ Carried(j) => Queued(i) \/ Held(i)
    /\ \A k \in DOMAIN queue : queue[k] = j =>
         Held(i) \/ \E m \in DOMAIN queue : m < k /\ queue[m] = i

\* A caller sends its own events.  While the rows of the last process are sent nobody
\* else is awake, and the worker has only what Main waits for; afterwards nothing is left.
PhaseInv ==
  /\ \A c \in Callers : Sending(c) =>
       caller[c].id \in DOMAIN event /\ event[caller[c].id].caller = c
  /\ node.phase = "recover" =>
       /\ \A c \in Callers : caller[c] = Idle
       /\ worker # Idle => caller[Main] = [pc |-> "wait", id |-> worker.id]
  /\ node.phase = "run" => node.left = {} /\ caller[Main] = Idle

OrderInv == delivered \subseteq DOMAIN event /\ PlaceInv /\ AheadInv /\ PhaseInv

\* There are no events at first.
LEMMA OrderInit == ASSUME Init PROVE OrderInv
  <1>1. DOMAIN event = {} /\ delivered = {}  BY DEF Init
  <1>2. \A c \in Threads : caller[c] = Idle /\ ~Sending(c)
    BY DEF Init, Sending, Idle
  <1>3. PlaceInv /\ AheadInv  BY <1>1 DEF PlaceInv, AheadInv
  <1>4. PhaseInv  BY <1>2, DispatcherAssumption DEF PhaseInv, Init, Threads
  <1> QED BY <1>1, <1>3, <1>4 DEF OrderInv

\* save_to_db: the earlier events of the thread that are still open have left its hands.
LEMMA SaveKeepsOrder ==
  ASSUME DispatcherInv, DispatcherInv', OrderInv,
         NEW c \in Callers, NEW o \in Observers, Save(c, o)
  PROVE  OrderInv'
  <1>0. TypeOK /\ SendInv /\ QueueInv /\ WorkerInv /\ RowInv  BY DEF DispatcherInv
  <1> PICK n \in Nat : n = Len(event) + 1  BY <1>0 DEF TypeOK
  <1>1. /\ event \in Seq([observer : Observers, caller : Callers])
        /\ n \in Nat /\ n \notin DOMAIN event /\ \A i \in DOMAIN event : i < n
    BY <1>0 DEF TypeOK
  <1>2. /\ event' = Append(event, [observer |-> o, caller |-> c])
        /\ caller' = [caller EXCEPT ![c] = [pc |-> "send", id |-> n]]
        /\ UNCHANGED <<queue, worker, node, delivered, forgotten>>
        /\ caller[c] = Idle /\ node.phase = "run"
    BY DEF Save, NewId
  <1>3. /\ DOMAIN event' = DOMAIN event \cup {n}
        /\ \A i \in DOMAIN event : event'[i] = event[i]
        /\ event'[n] = [observer |-> o, caller |-> c]
    BY <1>1, <1>2
  <1>4. /\ caller'[c] = [pc |-> "send", id |-> n]
        /\ \A d \in Threads : d # c => caller'[d] = caller[d]
        /\ c # Main /\ c \in Threads /\ Main \in Threads
    BY <1>0, <1>2, DispatcherAssumption DEF TypeOK, Threads
  <1>5. /\ Sending(c)' /\ ~Sending(c)
        /\ \A d \in Threads : d # c => (Sending(d)' <=> Sending(d))
    BY <1>2, <1>4 DEF Sending, Idle
  <1>6. /\ \A i \in DOMAIN event : Open(i)' <=> Open(i)
        /\ \A i \in Nat : (Queued(i)' <=> Queued(i)) /\ (Held(i)' <=> Held(i))
        /\ \A i \in DOMAIN event : Carried(i)' <=> Carried(i)
        /\ Carried(n)'
    <2>1. \A i \in DOMAIN event : Open(i)' <=> Open(i)  BY <1>2, <1>3 DEF Open
    <2>2. \A i \in Nat : (Queued(i)' <=> Queued(i)) /\ (Held(i)' <=> Held(i))
      BY <1>2 DEF Queued, Held
    <2>3. \A i \in DOMAIN event : Carried(i)' <=> Carried(i)
      BY <1>1, <1>4, <1>5 DEF Carried
    <2>4. Carried(n)'  BY <1>4, <1>5 DEF Carried
    <2> QED BY <2>1, <2>2, <2>3, <2>4
  <1>7. n \notin delivered /\ ~Held(n) /\ \A k \in DOMAIN queue : queue[k] # n
    <2>1. n \notin pending  BY <1>0, <1>1 DEF RowInv, TypeOK
    <2> QED BY <1>0, <1>1, <2>1 DEF OrderInv, WorkerInv, QueueInv, Held
  <1>8. PlaceInv'
    <2> SUFFICES ASSUME NEW i \in DOMAIN event', Open(i)'
                 PROVE  i \in node'.left \/ Carried(i)' \/ Queued(i)' \/ Held(i)'
      BY DEF PlaceInv
    <2>1. CASE i = n  BY <1>6, <2>1
    <2>2. CASE i \in DOMAIN event
      <3>1. i \in Nat  BY <1>1, <2>2
      <3> QED BY <1>2, <1>6, <2>2, <3>1 DEF OrderInv, PlaceInv
    <2> QED BY <1>3, <2>1, <2>2
  <1>9. ASSUME NEW i \in DOMAIN event, Open(i), event[i].caller = c
        PROVE  Queued(i) \/ Held(i)
    <2>1. i \in node.left \/ Carried(i) \/ Queued(i) \/ Held(i)
      BY <1>9 DEF OrderInv, PlaceInv
    <2>2. node.left = {} /\ caller[Main] = Idle  BY <1>2 DEF OrderInv, PhaseInv
    <2>3. ASSUME NEW d \in Threads, Sending(d), caller[d].id = i  PROVE FALSE
      <3>1. d # Main  BY <2>2, <2>3 DEF Sending, Idle
      <3>2. d \in Callers /\ event[i].caller = d
        BY <2>3, <3>1 DEF OrderInv, PhaseInv, Threads
      <3> QED BY <1>5, <1>9, <2>3, <3>2
    <2> QED BY <2>1, <2>2, <2>3 DEF Carried
  <1>10. AheadInv'
    <2> SUFFICES ASSUME NEW i \in DOMAIN event', NEW j \in DOMAIN event', Ahead(i, j)'
                 PROVE  /\ j \notin delivered'
                        /\ ~Held(j)'
                        /\ Carried(j)' => Queued(i)' \/ Held(i)'
                        /\ \A k \in DOMAIN queue' : queue'[k] = j =>
                             Held(i)' \/ \E m \in DOMAIN queue' : m < k /\ queue'[m] = i
      BY DEF AheadInv
    <2>1. i \in Nat /\ j \in Nat /\ i < j /\ Open(i)' /\ event'[i] = event'[j]
      BY <1>1, <1>3 DEF Ahead
    <2>2. i # n /\ i \in DOMAIN event /\ Open(i)
      BY <1>1, <1>3, <1>6, <2>1
    <2>3. CASE j = n
      <3>1. event[i].caller = c  BY <1>3, <2>1, <2>2, <2>3
      <3>2. Queued(i)' \/ Held(i)'  BY <1>6, <1>9, <2>1, <2>2, <3>1
      <3> QED BY <1>2, <1>6, <1>7, <2>3, <2>1, <3>2
    <2>4. CASE j # n
      <3>1. j \in DOMAIN event /\ Ahead(i, j)  BY <1>3, <2>1, <2>2, <2>4 DEF Ahead
      <3> QED BY <1>2, <1>6, <2>1, <2>2, <3>1 DEF OrderInv, AheadInv
    <2> QED BY <2>3, <2>4
  <1>11. PhaseInv'
    <2>1. \A d \in Callers : Sending(d)' =>
            caller'[d].id \in DOMAIN event' /\ event'[caller'[d].id].caller = d
      BY <1>3, <1>4, <1>5 DEF OrderInv, PhaseInv, Threads
    <2>2. node'.phase = "run" /\ node'.left = {} /\ caller'[Main] = Idle
      BY <1>2, <1>4 DEF OrderInv, PhaseInv
    <2> QED BY <2>1, <2>2 DEF PhaseInv
  <1>12. delivered' \subseteq DOMAIN event'  BY <1>2, <1>3 DEF OrderInv
  <1> QED BY <1>8, <1>10, <1>11, <1>12 DEF OrderInv

\* initiate_send puts an event behind those that are queued, or gives it to a worker that
\* has nothing else before it.
LEMMA SendKeepsOrder ==
  ASSUME DispatcherInv, OrderInv, NEW c \in Threads, InitiateSend(c)
  PROVE  OrderInv'
  <1>0. TypeOK /\ SendInv /\ QueueInv /\ WorkerInv /\ BoundInv  BY DEF DispatcherInv
  <1>1. PICK n \in Ids : /\ caller[c] = [pc |-> "send", id |-> n]
                         /\ n # worker.id /\ \A k \in DOMAIN queue : queue[k] # n
    BY <1>0 DEF TypeOK, InitiateSend, Idle, SendInv, Sending
  <1>2. /\ UNCHANGED <<event, node, delivered, forgotten>> /\ queue \in Seq(Ids)
        /\ \A d \in Threads : d # c => caller'[d] = caller[d]
        /\ caller'[c] \in {Idle, [pc |-> "wait", id |-> n]}
        /\ c = Main => caller'[c] = [pc |-> "wait", id |-> n]
    BY <1>0, <1>1 DEF InitiateSend, TypeOK, MustWait
  <1>3. /\ \A d \in Threads : Sending(d)' <=> Sending(d) /\ d # c
        /\ Sending(c) /\ caller[c].id = n
    BY <1>1, <1>2 DEF Sending, Idle
  <1>4. /\ \A i \in DOMAIN event : Open(i)' <=> Open(i)
        /\ \A i, j \in DOMAIN event : Ahead(i, j)' <=> Ahead(i, j)
        /\ \A i \in Nat : Carried(i)' <=> Carried(i) /\ i # n
        /\ Carried(n) /\ n \in Nat
    <2>1. \A i \in DOMAIN event : Open(i)' <=> Open(i)  BY <1>2 DEF Open
    <2>2. \A i, j \in DOMAIN event : Ahead(i, j)' <=> Ahead(i, j)
      BY <1>2, <2>1 DEF Ahead
    <2>3. \A d \in Threads : Sending(d) /\ d # c => caller[d].id # n
      BY <1>0, <1>3 DEF SendInv
    <2>4. \A i \in Nat : Carried(i)' <=> Carried(i) /\ i # n
      BY <1>2, <1>3, <2>3 DEF Carried
    <2>5. Carried(n) /\ n \in Nat  BY <1>3 DEF Carried, Ids
    <2> QED BY <2>1, <2>2, <2>4, <2>5
  <1>5. ~Queued(n) /\ ~Held(n)  BY <1>1 DEF Queued, Held
  <1>6. DOMAIN event \subseteq Nat  BY <1>0 DEF TypeOK
  <1>7. /\ \A d \in Callers : Sending(d)' => Sending(d) /\ caller'[d] = caller[d]
        /\ \A d \in Callers : caller[d] = Idle => caller'[d] = Idle
        /\ caller[Main] = Idle => caller'[Main] = Idle
    BY <1>1, <1>2, <1>3 DEF Threads, Idle, Sending
  <1>8. CASE Bound = 0 /\ worker = Idle /\ worker' = [pc |-> "fetch", id |-> n]
             /\ UNCHANGED queue
    <2>1. queue = <<>>
      <3>1. Len(queue) \in Nat /\ Len(queue) <= Bound
        BY <1>0, <1>2, <1>8 DEF BoundInv, Bound
      <3> QED BY <1>2, <1>8, <3>1
    <2>2. /\ \A i \in Nat : Held(i)' <=> i = n
          /\ \A i \in Nat : ~Queued(i) /\ ~Queued(i)' /\ ~Held(i)
          /\ DOMAIN queue' = {}
      BY <1>8, <2>1 DEF Held, Queued, Idle
    <2>3. PlaceInv'
      BY <1>2, <1>4, <1>6, <2>2 DEF OrderInv, PlaceInv
    <2>4. \A i, j \in DOMAIN event : Ahead(i, j) => ~Carried(j)
      BY <1>6, <2>2 DEF OrderInv, AheadInv
    <2>5. AheadInv'
      BY <1>2, <1>4, <1>6, <2>2, <2>4 DEF OrderInv, AheadInv
    <2>6. PhaseInv'
      <3>1. node.phase = "recover" => c = Main
        BY <1>3 DEF OrderInv, PhaseInv, Threads, Sending, Idle
      <3> QED BY <1>2, <1>8, <1>7, <3>1 DEF OrderInv, PhaseInv, Threads
    <2> QED BY <1>2, <2>3, <2>5, <2>6 DEF OrderInv
  <1>9. CASE Len(queue) < Bound /\ queue' = Append(queue, n) /\ UNCHANGED worker
    <2>0. /\ DOMAIN queue' = DOMAIN queue \cup {Len(queue) + 1}
          /\ \A k \in DOMAIN queue : queue'[k] = queue[k] /\ k < Len(queue) + 1
          /\ queue'[Len(queue) + 1] = n
      BY <1>1, <1>2, <1>9
    <2>1. /\ \A i \in Nat : Held(i)' <=> Held(i)
          /\ \A i \in Nat : Queued(i)' <=> Queued(i) \/ i = n
      <3>1. \A i \in Nat : Held(i)' <=> Held(i)  BY <1>9 DEF Held
      <3>2. \A i \in Nat : Queued(i)' <=> Queued(i) \/ i = n  BY <2>0 DEF Queued
      <3> QED BY <3>1, <3>2
    <2>2. PlaceInv'
      BY <1>2, <1>4, <1>6, <2>1 DEF OrderInv, PlaceInv
    <2>3. AheadInv'
      <3> SUFFICES ASSUME NEW i \in DOMAIN event, NEW j \in DOMAIN event, Ahead(i, j)
                   PROVE  /\ j \notin delivered
                          /\ ~Held(j)'
                          /\ Carried(j)' => Queued(i)' \/ Held(i)'
                          /\ \A k \in DOMAIN queue' : queue'[k] = j =>
                               Held(i)' \/ \E m \in DOMAIN queue' : m < k /\ queue'[m] = i
        BY <1>2, <1>4 DEF AheadInv
      <3>1. /\ j \notin delivered /\ ~Held(j) /\ i \in Nat /\ j \in Nat
            /\ Carried(j) => Queued(i) \/ Held(i)
            /\ \A k \in DOMAIN queue : queue[k] = j =>
                 Held(i) \/ \E m \in DOMAIN queue : m < k /\ queue[m] = i
        BY <1>6 DEF OrderInv, AheadInv
      <3>2. ASSUME NEW k \in DOMAIN queue', queue'[k] = j
            PROVE  Held(i)' \/ \E m \in DOMAIN queue' : m < k /\ queue'[m] = i
        <4>1. CASE k \in DOMAIN queue  BY <2>0, <2>1, <3>1, <3>2, <4>1
        <4>2. CASE k = Len(queue) + 1
          <5>1. j = n  BY <2>0, <3>2, <4>2
          <5>2. Queued(i) \/ Held(i)  BY <1>4, <3>1, <5>1
          <5> QED BY <2>0, <2>1, <3>1, <4>2, <5>2 DEF Queued
        <4> QED BY <2>0, <4>1, <4>2
      <3> QED BY <1>4, <2>1, <3>1, <3>2
    <2>4. PhaseInv'
      <3>1. node.phase # "recover"  BY <1>2, <1>9 DEF Bound
      <3> QED BY <1>2, <1>7, <3>1 DEF OrderInv, PhaseInv, Threads
    <2> QED BY <1>2, <2>2, <2>3, <2>4 DEF OrderInv
  <1> QED BY <1>1, <1>8, <1>9 DEF InitiateSend

\* recv takes the first of the queue: nothing that is still open is before it.
LEMMA ReceiveKeepsOrder == ASSUME DispatcherInv, OrderInv, Receive PROVE OrderInv'
  <1>0. TypeOK /\ QueueInv /\ BoundInv  BY DEF DispatcherInv
  <1>1. PICK n \in Ids : n = Head(queue)
    BY <1>0 DEF TypeOK, Receive
  <1>2. /\ queue \in Seq(Ids) /\ queue # <<>> /\ worker = Idle
        /\ worker' = [pc |-> "fetch", id |-> n] /\ queue' = Tail(queue)
        /\ UNCHANGED <<event, caller, node, delivered, forgotten>>
    BY <1>0, <1>1 DEF TypeOK, Receive
  <1>3. /\ 1 \in DOMAIN queue /\ queue[1] = n /\ n \in Nat
        /\ \A k \in DOMAIN queue' : k + 1 \in DOMAIN queue /\ queue'[k] = queue[k + 1]
                                    /\ k \in Nat /\ k # 0
        /\ \A k \in DOMAIN queue : k \in Nat /\ k # 0
                                   /\ (k # 1 => k - 1 \in DOMAIN queue' /\ queue'[k - 1] = queue[k])
    BY <1>1, <1>2 DEF Ids
  <1>4. /\ \A i \in DOMAIN event : Open(i)' <=> Open(i)
        /\ \A i, j \in DOMAIN event : Ahead(i, j)' <=> Ahead(i, j)
        /\ \A i \in Nat : Carried(i)' <=> Carried(i)
        /\ \A i \in Nat : ~Held(i) /\ (Held(i)' <=> i = n)
        /\ \A i \in Nat : Queued(i) => Queued(i)' \/ i = n
    <2>1. \A i \in DOMAIN event : Open(i)' <=> Open(i)  BY <1>2 DEF Open
    <2>2. \A i, j \in DOMAIN event : Ahead(i, j)' <=> Ahead(i, j)
      BY <1>2, <2>1 DEF Ahead
    <2>3. \A i \in Nat : Carried(i)' <=> Carried(i)  BY <1>2 DEF Carried, Sending
    <2>4. \A i \in Nat : ~Held(i) /\ (Held(i)' <=> i = n)  BY <1>2 DEF Held, Idle
    <2>5. \A i \in Nat : Queued(i) => Queued(i)' \/ i = n  BY <1>3 DEF Queued
    <2> QED BY <2>1, <2>2, <2>3, <2>4, <2>5
  <1>5. DOMAIN event \subseteq Nat  BY <1>0 DEF TypeOK
  <1>6. PlaceInv'  BY <1>2, <1>4, <1>5 DEF OrderInv, PlaceInv
  <1>7. AheadInv'
    <2> SUFFICES ASSUME NEW i \in DOMAIN event, NEW j \in DOMAIN event, Ahead(i, j)
                 PROVE  /\ j \notin delivered
                        /\ ~Held(j)'
                        /\ Carried(j)' => Queued(i)' \/ Held(i)'
                        /\ \A k \in DOMAIN queue' : queue'[k] = j =>
                             Held(i)' \/ \E m \in DOMAIN queue' : m < k /\ queue'[m] = i
      BY <1>2, <1>4 DEF AheadInv
    <2>1. /\ j \notin delivered /\ i \in Nat /\ j \in Nat
          /\ Carried(j) => Queued(i)
          /\ \A k \in DOMAIN queue : queue[k] = j =>
               \E m \in DOMAIN queue : m < k /\ queue[m] = i
      BY <1>4, <1>5 DEF OrderInv, AheadInv
    <2>2. j # n  BY <1>3, <2>1
    <2>3. ASSUME NEW k \in DOMAIN queue', queue'[k] = j
          PROVE  i = n \/ \E m \in DOMAIN queue' : m < k /\ queue'[m] = i
      <3>1. PICK m \in DOMAIN queue : m < k + 1 /\ queue[m] = i
        BY <1>3, <2>1, <2>3
      <3>2. CASE m = 1  BY <1>3, <3>1, <3>2
      <3>3. CASE m # 1
        <4>1. m - 1 \in DOMAIN queue' /\ queue'[m - 1] = i /\ m - 1 < k
          BY <1>3, <3>1, <3>3
        <4> QED BY <4>1
      <3> QED BY <3>2, <3>3
    <2> QED BY <1>4, <2>1, <2>2, <2>3
  <1>8. PhaseInv'
    <2>1. node.phase # "recover"  BY <1>0, <1>2 DEF BoundInv
    <2> QED BY <1>2, <2>1 DEF OrderInv, PhaseInv, Sending
  <1> QED BY <1>2, <1>6, <1>7, <1>8 DEF OrderInv

\* The worker stays with its event while it fetches the row and makes requests: what it
\* delivers has nothing open before it.
LEMMA WorkKeepsOrder ==
  ASSUME DispatcherInv, OrderInv, worker # Idle, worker' # Idle, worker'.id = worker.id,
         delivered \subseteq delivered', delivered' \subseteq delivered \cup {worker.id},
         forgotten \subseteq forgotten', UNCHANGED <<event, caller, queue, node>>
  PROVE  OrderInv'
  <1>0. TypeOK /\ WorkerInv /\ RowInv  BY DEF DispatcherInv
  <1>1. DOMAIN event \subseteq Nat /\ worker.id \in DOMAIN event
    <2>1. DOMAIN event = 1..Len(event) /\ Len(event) \in Nat  BY <1>0 DEF TypeOK
    <2>2. worker.id \in pending  BY <1>0 DEF WorkerInv
    <2>3. pending \subseteq 1..Len(event)  BY <1>0 DEF RowInv
    <2>4. 1..Len(event) \subseteq Nat  BY <2>1
    <2> QED BY <2>1, <2>2, <2>3, <2>4, Zenon
  <1>2. /\ \A i \in DOMAIN event : Open(i)' => Open(i)
        /\ \A i, j \in DOMAIN event : Ahead(i, j)' => Ahead(i, j)
        /\ \A i \in Nat : (Carried(i)' <=> Carried(i)) /\ (Queued(i)' <=> Queued(i))
                          /\ (Held(i)' <=> Held(i)) /\ (Held(i) <=> i = worker.id)
    <2>1. \A i \in DOMAIN event : Open(i)' => Open(i)  BY DEF Open
    <2>2. \A i, j \in DOMAIN event : Ahead(i, j)' => Ahead(i, j)  BY <2>1 DEF Ahead
    <2>3. \A i \in Nat : (Carried(i)' <=> Carried(i)) /\ (Queued(i)' <=> Queued(i))
                         /\ (Held(i)' <=> Held(i)) /\ (Held(i) <=> i = worker.id)
      BY DEF Carried, Sending, Queued, Held
    <2> QED BY <2>1, <2>2, <2>3
  <1>3. PlaceInv'  BY <1>1, <1>2 DEF OrderInv, PlaceInv
  <1>4. AheadInv'  BY <1>1, <1>2 DEF OrderInv, AheadInv
  <1>5. PhaseInv'  BY DEF OrderInv, PhaseInv, Sending
  <1>6. delivered' \subseteq DOMAIN event'  BY <1>1 DEF OrderInv
  <1> QED BY <1>3, <1>4, <1>5, <1>6 DEF OrderInv

\* The steps of the worker from its row to the answer.
LEMMA RequestKeepsOrder ==
  ASSUME DispatcherInv, OrderInv,
         \/ Fetch \/ RequestDone \/ RequestRefused
         \/ \E received \in BOOLEAN : RequestFails(received)
  PROVE  OrderInv'
  <1>0. TypeOK /\ WorkerInv  BY DEF DispatcherInv
  <1>1. /\ worker # Idle /\ worker.pc \in {"fetch", "request"}
        /\ UNCHANGED <<event, caller, queue>>
        /\ delivered \subseteq delivered' /\ delivered' \subseteq delivered \cup {worker.id}
        /\ forgotten \subseteq forgotten'
    BY DEF Fetch, RequestDone, RequestRefused, RequestFails, RequestUnchanged, Idle
  <1>2. worker \in [pc : {"fetch", "request", "delete"}, id : Ids]
    BY <1>0, <1>1 DEF TypeOK
  <1>3. worker' # Idle /\ worker'.id = worker.id
    BY <1>1, <1>2 DEF Fetch, RequestDone, RequestRefused, RequestFails, Idle
  <1>4. node' = node
    BY <1>0, <1>1
    DEF WorkerInv, Fetch, RequestDone, RequestRefused, RequestFails, RequestUnchanged
  <1> QED BY <1>1, <1>3, <1>4, WorkKeepsOrder

\* What the worker lets go is not open any more.
LEMMA DeleteKeepsOrder == ASSUME DispatcherInv, OrderInv, Delete PROVE OrderInv'
  <1>0. TypeOK /\ WorkerInv  BY DEF DispatcherInv
  <1>1. /\ worker # Idle /\ worker.id \in delivered \cup forgotten /\ worker' = Idle
        /\ UNCHANGED <<event, queue, node, delivered, forgotten>>
    BY <1>0 DEF WorkerInv, Delete, Idle
  <1>2. /\ \A c \in Threads : caller'[c] = Idle \/ caller'[c] = caller[c]
        /\ \A c \in Threads : caller[c] = [pc |-> "wait", id |-> worker.id] => caller'[c] = Idle
        /\ \A c \in Threads : Sending(c) => caller'[c] = caller[c]
    BY DEF Delete, Acknowledge, Sending
  <1>3. \A c \in Threads : Sending(c)' <=> Sending(c)
    BY <1>2 DEF Sending, Idle
  <1>4. DOMAIN event \subseteq Nat  BY <1>0 DEF TypeOK
  <1>5. /\ \A i \in DOMAIN event : Open(i)' <=> Open(i)
        /\ \A i, j \in DOMAIN event : Ahead(i, j)' <=> Ahead(i, j)
        /\ \A i \in Nat : (Carried(i)' <=> Carried(i)) /\ (Queued(i)' <=> Queued(i)) /\ ~Held(i)'
        /\ \A i \in DOMAIN event : Open(i) => ~Held(i)
    <2>1. \A i \in DOMAIN event : Open(i)' <=> Open(i)  BY <1>1 DEF Open
    <2>2. \A i, j \in DOMAIN event : Ahead(i, j)' <=> Ahead(i, j)  BY <1>1, <2>1 DEF Ahead
    <2>3. \A i \in Nat : Carried(i)' <=> Carried(i)  BY <1>2, <1>3 DEF Carried
    <2>4. \A i \in Nat : (Queued(i)' <=> Queued(i)) /\ ~Held(i)'  BY <1>1 DEF Queued, Held
    <2>5. \A i \in DOMAIN event : Open(i) => ~Held(i)  BY <1>1 DEF Open, Held
    <2> QED BY <2>1, <2>2, <2>3, <2>4, <2>5
  <1>6. PlaceInv'  BY <1>1, <1>4, <1>5 DEF OrderInv, PlaceInv
  <1>7. \A i, j \in DOMAIN event : Ahead(i, j) => ~Held(i)  BY <1>5 DEF Ahead
  <1>8. AheadInv'  BY <1>1, <1>4, <1>5, <1>7 DEF OrderInv, AheadInv
  <1>9. PhaseInv'
    <2>1. Main \in Threads /\ Callers \subseteq Threads  BY DEF Threads
    <2> QED BY <1>1, <1>2, <1>3, <2>1 DEF OrderInv, PhaseInv
  <1> QED BY <1>1, <1>6, <1>8, <1>9 DEF OrderInv

\* A process that starts has everything that is open on its list, or could not read it.
LEMMA RestartKeepsOrder ==
  ASSUME DispatcherInv, OrderInv, NEW observers \in Configs, Restart(observers)
  PROVE  OrderInv'
  <1>0. TypeOK /\ RowInv  BY DEF DispatcherInv
  <1>1. /\ caller' = [c \in Threads |-> Idle] /\ queue' = <<>> /\ worker' = Idle
        /\ UNCHANGED <<event, pending, delivered, forgotten>>
    BY DEF Restart
  <1>2. \/ node'.phase = "recover" /\ node'.left = pending /\ node'.missed = node.missed
        \/ node'.phase = "run" /\ node'.left = {} /\ node'.missed = node.missed \cup pending
    BY <1>0 DEF Restart, TypeOK
  <1>3. /\ \A i \in DOMAIN event : Open(i)' => Open(i)
        /\ \A i, j \in DOMAIN event : Ahead(i, j)' => Ahead(i, j)
        /\ \A i \in Nat : ~Carried(i)' /\ ~Held(i)'
        /\ DOMAIN queue' = {} /\ DOMAIN event \subseteq Nat
    <2>1. \A i \in DOMAIN event : Open(i)' => Open(i)  BY <1>1, <1>2 DEF Open
    <2>2. \A i, j \in DOMAIN event : Ahead(i, j)' => Ahead(i, j)  BY <1>1, <2>1 DEF Ahead
    <2>3. \A i \in Nat : ~Carried(i)' /\ ~Held(i)'
      BY <1>1 DEF Carried, Held, Sending, Idle
    <2> QED BY <1>0, <1>1, <2>1, <2>2, <2>3 DEF TypeOK
  <1>4. PlaceInv'
    <2> SUFFICES ASSUME NEW i \in DOMAIN event, Open(i)'  PROVE i \in node'.left
      BY <1>1 DEF PlaceInv
    <2>1. i \in pending  BY <1>0, <1>3 DEF RowInv, NothingIsLost, Open
    <2> QED BY <1>2, <2>1 DEF Open
  <1>5. AheadInv'  BY <1>1, <1>3 DEF OrderInv, AheadInv
  <1>6. PhaseInv'  BY <1>1, <1>2 DEF PhaseInv, Sending, Idle, Threads
  <1> QED BY <1>1, <1>4, <1>5, <1>6 DEF OrderInv

\* process_pending_payloads takes the smallest id, and only when the last one is done:
\* nothing that is still open is before it.
LEMMA PendingKeepsOrder == ASSUME DispatcherInv, OrderInv, ProcessPending PROVE OrderInv'
  <1>0. TypeOK /\ RowInv /\ BoundInv  BY DEF DispatcherInv
  <1>1. PICK n \in Ids : /\ n = NextPending(node.left) /\ n \in node.left
                         /\ \A i \in node.left : n <= i
    <2>1. node.left \subseteq Nat /\ node.left # {} /\ node.left \subseteq Ids
      BY <1>0 DEF TypeOK, Ids, ProcessPending
    <2>2. NextPending(node.left) \in node.left /\ \A i \in node.left : NextPending(node.left) <= i
      BY <2>1, MinExists DEF NextPending
    <2> QED BY <2>1, <2>2
  <1>2. /\ node' = [node EXCEPT !.left = node.left \ {n}]
        /\ UNCHANGED <<event, queue, worker, delivered>>
        /\ node.phase = "recover" /\ caller[Main] = Idle
    BY <1>1 DEF ProcessPending, LeftWithout
  <1>3. /\ node'.left = node.left \ {n} /\ node'.phase = node.phase
        /\ node'.missed = node.missed
    BY <1>0, <1>2 DEF TypeOK
  <1>4. DOMAIN event \subseteq Nat /\ n \in Nat /\ DOMAIN queue = {} /\ worker = Idle
        /\ \A c \in Threads : caller[c] = Idle
    <2>1. queue = <<>>  BY <1>0, <1>2 DEF BoundInv
    <2>2. \A c \in Threads : caller[c] = Idle
      BY <1>2 DEF OrderInv, PhaseInv, Threads
    <2>3. worker = Idle  BY <1>2 DEF OrderInv, PhaseInv, Idle
    <2> QED BY <1>0, <2>1, <2>2, <2>3 DEF TypeOK, Ids
  <1>5. \/ /\ forgotten' = forgotten \cup {n} /\ UNCHANGED caller
        \/ /\ forgotten' = forgotten
           /\ caller' = [caller EXCEPT ![Main] = [pc |-> "send", id |-> n]]
    BY <1>1 DEF ProcessPending
  <1>6. /\ \A i \in DOMAIN event : Open(i)' => Open(i)
        /\ \A i, j \in DOMAIN event : Ahead(i, j)' => Ahead(i, j)
        /\ \A i \in DOMAIN event : Open(i) => i \in node.left
        /\ \A i \in Nat : ~Held(i)'
        /\ \A i \in Nat : Carried(i)' => i = n
        /\ n \in forgotten' \/ Carried(n)'
    <2>1. \A i \in DOMAIN event : Open(i)' => Open(i)  BY <1>2, <1>3, <1>5 DEF Open
    <2>2. \A i, j \in DOMAIN event : Ahead(i, j)' => Ahead(i, j)  BY <1>2, <2>1 DEF Ahead
    <2>3. \A i \in DOMAIN event : Open(i) => i \in node.left
      BY <1>4 DEF OrderInv, PlaceInv, Carried, Queued, Held, Sending, Idle
    <2>4. \A i \in Nat : ~Held(i)'  BY <1>2, <1>4 DEF Held
    <2>5. Main \in Threads /\ caller \in [Threads -> [pc : {"send", "wait"}, id : Ids] \cup {Idle}]
      BY <1>0 DEF TypeOK, Threads
    <2>6. \A c \in Threads : Sending(c)' => c = Main /\ caller'[c].id = n
      BY <1>4, <1>5, <2>5 DEF Sending, Idle
    <2>7. \A i \in Nat : Carried(i)' => i = n  BY <2>6 DEF Carried
    <2>8. n \in forgotten' \/ Carried(n)'  BY <1>5, <2>5 DEF Carried, Sending
    <2> QED BY <2>1, <2>2, <2>3, <2>4, <2>7, <2>8
  <1>7. PlaceInv'
    <2> SUFFICES ASSUME NEW i \in DOMAIN event, Open(i)'
                 PROVE  i \in node'.left \/ Carried(i)'
      BY <1>2 DEF PlaceInv
    <2>1. i \in node.left /\ i \notin forgotten'  BY <1>6 DEF Open
    <2> QED BY <1>3, <1>6, <2>1
  <1>8. AheadInv'
    <2> SUFFICES ASSUME NEW i \in DOMAIN event, NEW j \in DOMAIN event, Ahead(i, j)'
                 PROVE  j \notin delivered /\ ~Held(j)' /\ ~Carried(j)'
      BY <1>2, <1>4 DEF AheadInv
    <2>1. Ahead(i, j) /\ i \in Nat /\ j \in Nat /\ i < j /\ Open(i)
      BY <1>4, <1>6 DEF Ahead
    <2>2. i \in node.left /\ n <= i  BY <1>1, <1>6, <2>1
    <2>3. j # n  BY <1>4, <2>1, <2>2
    <2> QED BY <1>6, <2>1, <2>3 DEF OrderInv, AheadInv
  <1>9. PhaseInv'
    <2>1. \A c \in Callers : caller'[c] = Idle
      BY <1>0, <1>4, <1>5, DispatcherAssumption DEF TypeOK, Threads
    <2> QED BY <1>2, <1>3, <1>4, <2>1 DEF PhaseInv, Sending, Idle
  <1> QED BY <1>2, <1>7, <1>8, <1>9 DEF OrderInv

\* The node starts when nothing is left.
LEMMA StartKeepsOrder == ASSUME DispatcherInv, OrderInv, StartNode PROVE OrderInv'
  <1>1. /\ UNCHANGED <<event, caller, queue, worker, delivered, forgotten>>
        /\ node.left = {} /\ caller[Main] = Idle
        /\ node'.phase = "run" /\ node'.left = node.left /\ node'.missed = node.missed
    BY DEF DispatcherInv, TypeOK, StartNode
  <1>2. \A i : Open(i)' <=> Open(i)  BY <1>1 DEF Open
  <1>3. PlaceInv' /\ AheadInv'
    BY <1>1, <1>2 DEF OrderInv, PlaceInv, AheadInv, Ahead, Carried, Sending, Queued, Held
  <1>4. PhaseInv'  BY <1>1 DEF OrderInv, PhaseInv, Sending
  <1> QED BY <1>1, <1>3, <1>4 DEF OrderInv

\* Every step keeps the order.
LEMMA NextKeepsOrder ==
  ASSUME DispatcherInv, DispatcherInv', OrderInv, [Next]_vars PROVE OrderInv'
  <1>1. CASE Next
    BY <1>1, SaveKeepsOrder, SendKeepsOrder, ReceiveKeepsOrder, RequestKeepsOrder,
       DeleteKeepsOrder, RestartKeepsOrder, PendingKeepsOrder, StartKeepsOrder
    DEF Next, WorkerStep, MainStep
  <1>2. CASE UNCHANGED vars
    BY <1>2 DEF vars, OrderInv, PlaceInv, AheadInv, PhaseInv, Open, Ahead, Carried, Sending,
                Queued, Held
  <1> QED BY <1>1, <1>2

(***************************************************************************)
(* The events of one thread to one observer are delivered in the order     *)
(* they were dispatched, over any number of restarts and failed attempts,  *)
(* except those that some start could not read.                            *)
(***************************************************************************)
THEOREM DispatcherKeepsOrder == Spec => []FirstDeliveriesInOrder
  <1>1. Init => OrderInv  BY OrderInit
  <1>2. DispatcherInv /\ DispatcherInv' /\ OrderInv /\ [Next]_vars => OrderInv'
    BY NextKeepsOrder
  <1>3. OrderInv => FirstDeliveriesInOrder
    BY DEF OrderInv, AheadInv, Ahead, Open, FirstDeliveriesInOrder
  <1> QED BY <1>1, <1>2, <1>3, DispatcherCorrect, PTL DEF Spec
=============================================================================
