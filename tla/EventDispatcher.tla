--------------------------- MODULE EventDispatcher ---------------------------
(***************************************************************************)
(* How the stacks-node delivers events to its observers over HTTP          *)
(* (stacks-node/src/event_dispatcher.rs, event_dispatcher/worker.rs and    *)
(* db.rs).  A calling thread stores the payload and hands its id to the    *)
(* worker thread over a bounded channel; the worker sends the requests one *)
(* at a time, retrying, and deletes each row afterwards.  When the node    *)
(* starts, a dispatcher of its own first sends what the last process left  *)
(* in the database (send_pending_event_payloads in main.rs).               *)
(*                                                                         *)
(* Payloads, URLs and timeouts are left out; inserts and reads of a row    *)
(* are repeated until they succeed, so they are steps that do.             *)
(***************************************************************************)
EXTENDS Integers, Sequences, FiniteSetsExt

CONSTANTS
  Callers,     \* the threads of the node that dispatch events
  Main,        \* the thread that sends the pending payloads
  Waiting,     \* the callers that wait_until_complete (proposal responses)
  Observers,
  Impatient,   \* the observers with disable_retries
  Lookup,      \* Lookup[c]: the observers interested in the events of c
  Configs,     \* bound: the sets of observers a start may register
  QueueSize,   \* event_dispatcher_queue_size
  MaxEvents,   \* bound: payloads stored
  MaxRestarts, \* bound: times the process ends and is started again
  None

ASSUME DispatcherAssumption ==
  /\ QueueSize \in Nat /\ MaxEvents \in Nat /\ MaxRestarts \in Nat
  /\ Main \notin Callers /\ Waiting \subseteq Callers /\ Impatient \subseteq Observers
  /\ Configs \subseteq SUBSET Observers /\ Lookup \in [Callers -> SUBSET Observers]
  /\ None \notin Nat

VARIABLES
  event,      \* every payload ever stored, by id: its observer and its caller
  pending,    \* pending_payloads: the ids of the rows
  caller,     \* caller[c]: where dispatch_to_observer is, and for which id
  queue,      \* the channel to the worker
  worker,     \* the worker thread
  node,       \* the process: what it is doing, the registered observers
  delivered,  \* history: ids an observer has received
  forgotten   \* history: ids given up: a failed only attempt, no such observer

vars == <<event, pending, caller, queue, worker, node, delivered, forgotten>>

Ids     == 1..MaxEvents
Threads == Callers \cup {Main}

Idle == [pc |-> "idle", id |-> None]

Init ==
  /\ event     = <<>>
  /\ pending   = {}
  /\ caller    = [c \in Threads |-> Idle]
  /\ queue     = <<>>
  /\ worker    = Idle
  /\ node      = [phase |-> "run", left |-> {}, skipped |-> {}, missed |-> {},
                  registered |-> Observers, restarts |-> 0]
  /\ delivered = {}
  /\ forgotten = {}

-----------------------------------------------------------------------------
\* The callers.

\* Variant with a fault (the bound is the queue size).
ChannelBoundWhole == QueueSize

\* EventDispatcherWorker::new.  The dispatcher of Main has a queue size of 0.
ChannelBound == IF QueueSize > 0 THEN QueueSize - 1 ELSE 0

Bound == IF node.phase = "recover" THEN 0 ELSE ChannelBound

MustWait(c) == c = Main \/ QueueSize = 0 \/ c \in Waiting

\* insert_payload: ids are not used again (AUTOINCREMENT).
NewId == Len(event) + 1

\* dispatch_to_observer: save_to_db
Save(c, o) ==
  /\ node.phase = "run" /\ c # Main /\ caller[c] = Idle
  /\ o \in node.registered \cap Lookup[c] /\ Len(event) < MaxEvents
  /\ event'   = Append(event, [observer |-> o, caller |-> c])
  /\ pending' = pending \cup {NewId}
  /\ caller'  = [caller EXCEPT ![c] = [pc |-> "send", id |-> NewId]]
  /\ UNCHANGED <<queue, worker, node, delivered, forgotten>>

\* initiate_send: a full channel blocks; one without room hands over to a worker
\* that is receiving.
InitiateSend(c) ==
  /\ caller[c].pc = "send"
  /\ \/ /\ Bound = 0 /\ worker = Idle
        /\ worker' = [pc |-> "fetch", id |-> caller[c].id]
        /\ UNCHANGED queue
     \/ /\ Len(queue) < Bound
        /\ queue' = Append(queue, caller[c].id)
        /\ UNCHANGED worker
  /\ caller' = [caller EXCEPT ![c] = IF MustWait(c) THEN [@ EXCEPT !.pc = "wait"] ELSE Idle]
  /\ UNCHANGED <<event, pending, node, delivered, forgotten>>

-----------------------------------------------------------------------------
\* The worker: main_thread_loop.

Receive ==
  /\ worker = Idle /\ queue # <<>>
  /\ worker' = [pc |-> "fetch", id |-> Head(queue)]
  /\ queue'  = Tail(queue)
  /\ UNCHANGED <<event, pending, caller, node, delivered, forgotten>>

\* get_payload_with_retry; a row that is not there is a panic, which aborts the
\* process.
Fetch ==
  /\ worker.pc = "fetch"
  /\ worker' = [worker EXCEPT !.pc = "request"]
  /\ node'   = IF worker.id \in pending THEN node
               ELSE [node EXCEPT !.phase = "panicked"]
  /\ UNCHANGED <<event, pending, caller, queue, delivered, forgotten>>

RequestUnchanged == UNCHANGED <<event, pending, caller, queue, node>>

\* make_http_request: a request answered with 200.
RequestDone ==
  /\ worker.pc = "request"
  /\ worker'    = [worker EXCEPT !.pc = "delete"]
  /\ delivered' = delivered \cup {worker.id}
  /\ UNCHANGED forgotten /\ RequestUnchanged

\* Variant with a fault (any answer is an answer).
AnyAnswerIsDone ==
  /\ worker.pc = "request"
  /\ worker' = [worker EXCEPT !.pc = "delete"]
  /\ UNCHANGED <<delivered, forgotten>> /\ RequestUnchanged

\* Any other answer: the request is made again, whatever disable_retries says.
RequestRefused ==
  /\ worker.pc = "request"
  /\ UNCHANGED <<worker, delivered, forgotten>> /\ RequestUnchanged

\* No answer; the observer may have received the request.
RequestFails(received) ==
  /\ worker.pc = "request"
  /\ delivered' = IF received THEN delivered \cup {worker.id} ELSE delivered
  /\ \/ /\ event[worker.id].observer \in Impatient
        /\ worker'    = [worker EXCEPT !.pc = "delete"]
        /\ forgotten' = forgotten \cup {worker.id}
     \/ /\ event[worker.id].observer \notin Impatient
        /\ UNCHANGED <<worker, forgotten>>
  /\ RequestUnchanged

\* Variant with a fault (no acknowledgement if the row could not be deleted).
AcknowledgeDeleted ==
  caller' = [c \in Threads |->
               IF caller[c] = [pc |-> "wait", id |-> worker.id] /\ pending' # pending
               THEN Idle ELSE caller[c]]

\* The worker acknowledges, whoever waits goes on.
Acknowledge ==
  caller' = [c \in Threads |->
               IF caller[c] = [pc |-> "wait", id |-> worker.id] THEN Idle ELSE caller[c]]

\* delete_payload, which may fail, and the acknowledgement.
Delete ==
  /\ worker.pc = "delete"
  /\ pending' \in {pending, pending \ {worker.id}}
  /\ Acknowledge
  /\ worker' = Idle
  /\ UNCHANGED <<event, queue, node, delivered, forgotten>>

-----------------------------------------------------------------------------
\* The process ends, by a crash or otherwise, and is started again with these
\* observers.  If the rows cannot be read they stay until the next start: skipped by
\* this one, and missed (history) by one of the starts so far.
Restart(observers) ==
  /\ node.restarts < MaxRestarts
  /\ caller' = [c \in Threads |-> Idle]
  /\ queue'  = <<>>
  /\ worker' = Idle
  /\ \/ node' = [node EXCEPT !.phase = "recover", !.left = pending, !.skipped = {},
                             !.registered = observers, !.restarts = @ + 1]
     \/ node' = [node EXCEPT !.phase = "run", !.left = {}, !.skipped = pending,
                             !.missed = @ \cup pending,
                             !.registered = observers, !.restarts = @ + 1]
  /\ UNCHANGED <<event, pending, delivered, forgotten>>

\* Variant with a fault (the newest row first).
NewestPending(ids) == Max(ids)

\* get_pending_payloads: ORDER BY id
NextPending(ids) == Min(ids)

\* Variant with a fault (the row stays on the list).
LeftWith(i) == node.left

LeftWithout(i) == node.left \ {i}

\* process_pending_payloads, for one row: the row of an observer that is no longer
\* registered is deleted, if that works; another is sent, and waited for.
ProcessPending ==
  LET i == NextPending(node.left)
  IN  /\ node.phase = "recover" /\ caller[Main] = Idle /\ node.left # {}
      /\ node' = [node EXCEPT !.left = LeftWithout(i)]
      /\ \/ /\ event[i].observer \notin node.registered
            /\ pending'   \in {pending, pending \ {i}}
            /\ forgotten' = forgotten \cup {i}
            /\ UNCHANGED caller
         \/ /\ event[i].observer \in node.registered
            /\ caller' = [caller EXCEPT ![Main] = [pc |-> "send", id |-> i]]
            /\ UNCHANGED <<pending, forgotten>>
      /\ UNCHANGED <<event, queue, worker, delivered>>

\* Variant with a fault (the rest waits for the worker of the node).
StartEarly ==
  /\ node.phase = "recover"
  /\ node' = [node EXCEPT !.phase = "run", !.left = {}]
  /\ UNCHANGED <<event, pending, caller, queue, worker, delivered, forgotten>>

\* All rows done: this dispatcher is dropped, and the node starts.
StartNode ==
  /\ node.phase = "recover" /\ caller[Main] = Idle /\ node.left = {}
  /\ node' = [node EXCEPT !.phase = "run"]
  /\ UNCHANGED <<event, pending, caller, queue, worker, delivered, forgotten>>

-----------------------------------------------------------------------------
WorkerStep == Receive \/ Fetch \/ Delete
MainStep   == ProcessPending \/ StartNode

Next ==
  \/ \E c \in Callers, o \in Observers : Save(c, o)
  \/ \E c \in Threads : InitiateSend(c)
  \/ WorkerStep \/ MainStep
  \/ RequestDone \/ RequestRefused
  \/ \E received \in BOOLEAN : RequestFails(received)
  \/ \E observers \in Configs : Restart(observers)

Spec == Init /\ [][Next]_vars

\* The threads run; a blocked sender gets its turn in the end; an observer that is
\* asked again and again answers 200 in the end (without that one dead observer
\* holds up all the others).
FairSpec ==
  /\ Spec
  /\ WF_vars(WorkerStep) /\ WF_vars(MainStep) /\ SF_vars(RequestDone)
  /\ \A c \in Threads : SF_vars(InitiateSend(c))

-----------------------------------------------------------------------------
(***************************************************************************)
(* The variables have their types.                                         *)
(***************************************************************************)
TypeOK ==
  /\ event \in Seq([observer : Observers, caller : Callers]) /\ Len(event) <= MaxEvents
  /\ pending \subseteq Ids
  /\ caller \in [Threads -> [pc : {"send", "wait"}, id : Ids] \cup {Idle}]
  /\ queue \in Seq(Ids)
  /\ worker \in [pc : {"fetch", "request", "delete"}, id : Ids] \cup {Idle}
  /\ node \in [phase : {"recover", "run", "panicked"}, left : SUBSET Ids,
               skipped : SUBSET Ids, missed : SUBSET Ids, registered : SUBSET Observers,
               restarts : 0..MaxRestarts]
  /\ delivered \subseteq Ids /\ forgotten \subseteq Ids

(***************************************************************************)
(* The worker finds the row of every id it is given: no id is given twice, *)
(* not by the caller and again from the rows a dead process left (the      *)
(* `expect' in main_thread_loop).                                          *)
(***************************************************************************)
NeverPanics == node.phase # "panicked"

(***************************************************************************)
(* An event is dropped only once its observer has it, unless its only      *)
(* attempt failed or the observer is not registered any more: a row        *)
(* survives every restart until then.                                      *)
(***************************************************************************)
NothingIsLost ==
  \A i \in DOMAIN event : i \in pending \/ i \in delivered \/ i \in forgotten

(***************************************************************************)
(* The events of one thread to one observer arrive in the order they were  *)
(* dispatched, over restarts too, if every start could read the rows.      *)
(***************************************************************************)
FirstDeliveriesInOrder ==
  \A i, j \in DOMAIN event :
    i < j /\ event[i] = event[j] /\ j \in delivered /\ i \notin node.missed
      => i \in delivered \/ i \in forgotten

(***************************************************************************)
(* "how many requests are allowed to be pending (i.e. not complete) before *)
(* a call to initiate_send starts blocking": beyond that no caller is let  *)
(* go, and with 0 or 1 no request is left behind the one in progress.      *)
(***************************************************************************)
QueueIsBounded ==
  Len(queue) + (IF worker = Idle THEN 0 ELSE 1) <= Max({1, QueueSize})

(***************************************************************************)
(* "This ensures that all events will eventually be delivered": so they    *)
(* are, unless they are forgotten or a start could not read them; whatever *)
(* deletions fail.                                                         *)
(***************************************************************************)
AllEventuallyDelivered ==
  \A i \in Ids : i \in pending ~> i \in delivered \/ i \in forgotten \/ i \in node.skipped

(***************************************************************************)
(* A thread that waits for its event to be sent goes on in the end, though *)
(* the deletion of the row may fail.                                       *)
(***************************************************************************)
CallersGoOn == \A c \in Waiting \cup {Main} : caller[c] # Idle ~> caller[c] = Idle
=============================================================================
