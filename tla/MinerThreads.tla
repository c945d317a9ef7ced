---------------------------- MODULE MinerThreads ----------------------------
(***************************************************************************)
(* The threads that mine for one stacks-node (nakamoto_node/relayer.rs and *)
(* the frame of miner.rs): the relayer starts, continues and stops tenures *)
(* by spawning threads and holds the handle of the latest one; a new miner *)
(* thread first stops and joins its predecessor.  Every miner thread has a *)
(* listener thread, and all listeners receive through the one channel of   *)
(* the event dispatcher (event_dispatcher/stacker_db.rs).                  *)
(*                                                                         *)
(* What a miner thread does while it mines is in module MinerCoordinator;  *)
(* here it only goes on until it leaves.  Which directive the relayer      *)
(* decides on is an input.  A panic ends the whole process (main.rs), so   *)
(* every thread that is joined has returned.                               *)
(***************************************************************************)
EXTENDS Integers, Sequences

CONSTANTS
  MaxThreads,   \* bound: threads ever spawned
  MaxBurn,      \* bound: burn blocks
  None

Ids  == 1..MaxThreads
Tips == 0..MaxBurn

\* A MinerStopHandle: the thread to join, and the miner whose abort flag it sets.
Handles == [id : Ids, flag : Ids]

ASSUME ThreadsAssumption ==
  /\ MaxThreads \in Nat \ {0}
  /\ MaxBurn \in Nat
  /\ None \notin Int \cup Handles

VARIABLES
  thread,    \* the threads in the order they were spawned
  relayer,   \* the relayer thread: miner_thread, miner_thread_burn_view
  aborted,   \* the miner threads whose abort flag is set
  blockers,  \* MinerStatus: who blocks mining, 0 for the relayer
  listener,  \* listener[i]: the listener thread of miner thread i
  channel,   \* whose sender the StackerDBChannel holds
  burn,      \* canonical burn chain tip
  dropped    \* history: the last thread when its handle was dropped unjoined

vars == <<thread, relayer, aborted, blockers, listener, channel, burn, dropped>>

\* pc: where a thread is in stop(), in run_miner and in shutdown().
Threads ==
  [kind : {"miner", "stop"}, prior : Handles \cup {None}, tip : Tips,
   pc : {"abort", "block", "join", "start", "launch", "mine", "shutdown",
         "joinListener", "done"}]

Init ==
  /\ thread   = <<>>
  /\ relayer  = [running |-> TRUE, handle |-> None, view |-> None]
  /\ aborted  = {}
  /\ blockers = {}
  /\ listener = [i \in Ids |-> "none"]
  /\ channel  = None
  /\ burn     = 0
  /\ dropped  = {}

-----------------------------------------------------------------------------
\* The relayer.  What it does to its handle and the threads it spawns, as
\* functions of r = [handle, view, thread, dropped].

Relayer == [handle |-> relayer.handle, view |-> relayer.view,
            thread |-> thread, dropped |-> dropped]

Spawn(r, kind, tip) ==
  Append(r.thread, [kind |-> kind, prior |-> r.handle, tip |-> tip,
                    pc |-> IF r.handle = None THEN "start" ELSE "abort"])

\* The handle goes out of scope: nobody will abort or join that thread.
DropHandle(r) ==
  [handle |-> None, view |-> None, thread |-> r.thread,
   dropped |-> IF r.handle = None THEN r.dropped ELSE r.dropped \cup {r.handle.id}]

\* Variant with a fault: the new miner does not stop the one before.
StartUnjoined(r, tip, view) ==
  [handle |-> [id |-> Len(r.thread) + 1, flag |-> Len(r.thread) + 1], view |-> view,
   thread |-> Spawn([r EXCEPT !.handle = None], "miner", tip), dropped |-> r.dropped]

\* start_new_tenure: the new thread takes the old handle along.  Without an active
\* VRF key, with a stale tip, or if the thread cannot be made, it is dropped.
StartNewTenure(r, tip, view) ==
  [handle |-> [id |-> Len(r.thread) + 1, flag |-> Len(r.thread) + 1], view |-> view,
   thread |-> Spawn(r, "miner", tip), dropped |-> r.dropped]

\* stop_tenure: a thread that stops the miner; its handle has the miner's flag.
StopTenure(r) ==
  IF r.handle = None THEN r
  ELSE [handle |-> [id |-> Len(r.thread) + 1, flag |-> r.handle.flag], view |-> None,
        thread |-> Spawn(r, "stop", 0), dropped |-> r.dropped]

\* The results start_new_tenure can have when the tip was `tip' as the directive
\* was decided; stop_tenure can have.
Started(r, tip, view) ==
  {DropHandle(r)} \cup
  (IF tip = burn THEN {StartNewTenure(r, tip, view)} ELSE {})

Stopped(r) == {StopTenure(r)} \cup {DropHandle(r)}

Relayed(results) ==
  \E r \in results :
    /\ Len(r.thread) <= MaxThreads
    /\ thread'  = r.thread
    /\ dropped' = r.dropped
    /\ relayer' = [relayer EXCEPT !.handle = r.handle, !.view = r.view]

RelayerUnchanged == UNCHANGED <<aborted, blockers, listener, channel, burn>>

\* MinerDirective::BeginTenure.  For a late BlockFound, by the directive or when
\* check_tenure_timers finds the one in flight lost, the elected view is older.
BeginTenure(tip, view) ==
  /\ relayer.running /\ tip <= burn /\ view <= tip
  /\ Relayed(Started(Relayer, tip, view))
  /\ RelayerUnchanged

\* MinerDirective::ContinueTenure: if the tenure cannot be stopped, or the tip not
\* be read, that is all.
ContinueTenure(tip) ==
  /\ relayer.running /\ tip <= burn
  /\ \/ Relayed(Stopped(Relayer))
     \/ /\ StopTenure(Relayer).view # burn
        /\ Relayed(Started(StopTenure(Relayer), tip, tip))
  /\ RelayerUnchanged

\* MinerDirective::StopTenure
StopDirective ==
  /\ relayer.running /\ relayer.handle # None
  /\ Relayed(Stopped(Relayer))
  /\ RelayerUnchanged

\* check_tenure_timers: extend, unless the miner already has this burn view.
TimerExtends ==
  /\ relayer.running /\ relayer.view # burn
  /\ \/ Relayed({DropHandle(Relayer)})
     \/ Relayed(Started(StopTenure(Relayer), burn, burn))
  /\ RelayerUnchanged

\* The main loop ends: the node is to stop, or a continue_tenure that stopped the
\* miner did not find a snapshot.  The relayer is a blocker from then on.
RelayerExits ==
  /\ relayer.running
  /\ relayer'  = [relayer EXCEPT !.running = FALSE]
  /\ blockers' = blockers \cup {0}
  /\ UNCHANGED <<thread, aborted, listener, channel, burn, dropped>>

-----------------------------------------------------------------------------
\* The spawned threads.

At(i, pc) == i \in DOMAIN thread /\ thread[i].pc = pc

Goto(i, pc) == thread' = [thread EXCEPT ![i].pc = pc]

\* MinerStopHandle::stop: set_aborted, block_miner, join, unblock_miner.

\* Variant with a fault: the prior miner is only blocked.
SetNothing(i) ==
  /\ At(i, "abort")
  /\ Goto(i, "block")
  /\ UNCHANGED <<relayer, aborted, blockers, listener, channel, burn, dropped>>

SetAborted(i) ==
  /\ At(i, "abort")
  /\ aborted' = aborted \cup {thread[i].prior.flag}
  /\ Goto(i, "block")
  /\ UNCHANGED <<relayer, blockers, listener, channel, burn, dropped>>

BlockMiner(i) ==
  /\ At(i, "block")
  /\ blockers' = blockers \cup {i}
  /\ Goto(i, "join")
  /\ UNCHANGED <<relayer, aborted, listener, channel, burn, dropped>>

JoinPrior(i) ==
  /\ At(i, "join") /\ At(thread[i].prior.id, "done")
  /\ blockers' = blockers \ {i}
  /\ Goto(i, IF thread[i].kind = "miner" THEN "start" ELSE "done")
  /\ UNCHANGED <<relayer, aborted, listener, channel, burn, dropped>>

\* Before the coordinator: a database, the signer set or the mining key is missing.
StartFails(i) ==
  /\ At(i, "start")
  /\ Goto(i, "done")
  /\ UNCHANGED <<relayer, aborted, blockers, listener, channel, burn, dropped>>

\* StackerDBListener::new: register_miner_coordinator replaces the sender.  If the
\* reward set is no good the receiver is dropped, and the sender stays.
Register(i) ==
  /\ At(i, "start")
  /\ channel' = i
  /\ \/ Goto(i, "launch") /\ listener' = [listener EXCEPT ![i] = "new"]
     \/ Goto(i, "done") /\ UNCHANGED listener
  /\ UNCHANGED <<relayer, aborted, blockers, burn, dropped>>

\* The rest of SignerCoordinator::new.  If it fails the listener is dropped.
Launch(i) ==
  /\ At(i, "launch")
  /\ \/ /\ Goto(i, "mine")
        /\ listener' = [listener EXCEPT ![i] = "running"]
        /\ UNCHANGED channel
     \/ /\ Goto(i, "done")
        /\ listener' = [listener EXCEPT ![i] = "ended"]
        /\ channel'  = None
  /\ UNCHANGED <<relayer, aborted, blockers, burn, dropped>>

\* attempt_mine_and_propose_block ends with an error: the thread was aborted, the
\* burn chain tip changed, or another error not worth another attempt.
Leaves(i) ==
  /\ At(i, "mine") /\ (i \in aborted \/ burn # thread[i].tip)
  /\ Goto(i, "shutdown")
  /\ UNCHANGED <<relayer, aborted, blockers, listener, channel, burn, dropped>>

Fails(i) ==
  /\ At(i, "mine")
  /\ Goto(i, "shutdown")
  /\ UNCHANGED <<relayer, aborted, blockers, listener, channel, burn, dropped>>

\* coordinator.shutdown(): unset the listener's keep_running, and join it.
Shutdown(i) ==
  /\ At(i, "shutdown")
  /\ Goto(i, "joinListener")
  /\ UNCHANGED <<relayer, aborted, blockers, listener, channel, burn, dropped>>

\* Variant with a fault: the listener is left to end by itself.
JoinNothing(i) ==
  /\ At(i, "joinListener")
  /\ Goto(i, "done")
  /\ UNCHANGED <<relayer, aborted, blockers, listener, channel, burn, dropped>>

JoinListener(i) ==
  /\ At(i, "joinListener") /\ listener[i] = "ended"
  /\ Goto(i, "done")
  /\ UNCHANGED <<relayer, aborted, blockers, listener, channel, burn, dropped>>

\* The loop of the listener ends: it was asked to, the node stops, or its sender
\* is gone.  Drop empties the channel, whoever's sender is in it.
EndListener(i) ==
  /\ listener' = [listener EXCEPT ![i] = "ended"]
  /\ channel'  = None
  /\ UNCHANGED <<thread, relayer, aborted, blockers, burn, dropped>>

ListenerStops(i) ==
  /\ listener[i] = "running"
  /\ At(i, "joinListener") \/ At(i, "done") \/ ~relayer.running \/ channel # i
  /\ EndListener(i)

\* A chunk came from a slot of no signer.
ListenerFails(i) ==
  /\ listener[i] = "running"
  /\ EndListener(i)

\* External: the burn chain.
BurnBlock ==
  /\ burn < MaxBurn
  /\ burn' = burn + 1
  /\ UNCHANGED <<thread, relayer, aborted, blockers, listener, channel, dropped>>

-----------------------------------------------------------------------------
ThreadStep(i) ==
  \/ SetAborted(i) \/ BlockMiner(i) \/ JoinPrior(i) \/ Register(i) \/ Launch(i)
  \/ Leaves(i) \/ Shutdown(i) \/ JoinListener(i)

Next ==
  \/ \E tip, view \in Tips : BeginTenure(tip, view)
  \/ \E tip \in Tips : ContinueTenure(tip)
  \/ StopDirective \/ TimerExtends \/ RelayerExits \/ BurnBlock
  \/ \E i \in Ids : ThreadStep(i) \/ StartFails(i) \/ Fails(i)
                    \/ ListenerStops(i) \/ ListenerFails(i)

Spec == Init /\ [][Next]_vars

\* The threads run.  A thread that mines need never fail, but one that was
\* aborted or whose tip is old leaves: MinerCoordinator!AbortStops.
FairSpec == Spec /\ \A i \in Ids : WF_vars(ThreadStep(i)) /\ WF_vars(ListenerStops(i))

-----------------------------------------------------------------------------
(***************************************************************************)
(* The threads, the handles and the channel have their types.              *)
(***************************************************************************)
TypeOK ==
  /\ thread \in Seq(Threads) /\ Len(thread) <= MaxThreads
  /\ \A i \in DOMAIN thread :
       thread[i].pc \in {"abort", "block", "join"} => thread[i].prior # None
  /\ relayer \in [running : BOOLEAN, handle : Handles \cup {None},
                  view : Tips \cup {None}]
  /\ aborted \subseteq Ids /\ blockers \subseteq Ids \cup {0}
  /\ listener \in [Ids -> {"none", "new", "running", "ended"}]
  /\ channel \in Ids \cup {None}
  /\ burn \in Tips /\ dropped \subseteq Ids

\* A handle dropped between the spawns of i and j leaves them unordered.
DroppedBetween(i, j) == \E k \in dropped : i <= k /\ k < j

\* The thread has a coordinator.
Active(i) == i \in DOMAIN thread
             /\ thread[i].pc \in {"launch", "mine", "shutdown", "joinListener"}

(***************************************************************************)
(* Two threads mine at the same time only when the relayer lost a handle   *)
(* between spawning them (start_new_tenure and stop_tenure take the handle *)
(* before the steps that can fail): as long as no handle is lost, joining  *)
(* the predecessor alone keeps every earlier miner out.                    *)
(***************************************************************************)
OneMiner ==
  \A j \in Ids : \A i \in 1..(j - 1) :
    Active(i) /\ Active(j) => DroppedBetween(i, j)

(***************************************************************************)
(* The listener of a miner that goes on mining receives what the signers   *)
(* send, unless a handle was lost or the node stops: no other listener     *)
(* took the channel from it or emptied it on its way out.                  *)
(***************************************************************************)
ListenerIsHeard ==
  \A i \in Ids :
    listener[i] = "running" /\ channel # i => dropped # {}

(***************************************************************************)
(* Stopping a thread ends: the miner stopped notices its abort flag, even  *)
(* if it is itself still stopping others, and mining is not left blocked.  *)
(***************************************************************************)
StopEnds == \A i \in Ids : At(i, "join") ~> i \notin blockers

(***************************************************************************)
(* What replace_receiver says of two threads subscribed at once: "it would *)
(* just result in temporary over-use of memory while the prior channel is  *)
(* still open".  So a sender is only removed by a thread registering its   *)
(* own, or when its listener ends.                                         *)
(***************************************************************************)
DocChannel ==
  [][\A i \in Ids : listener[i] = "running" /\ channel = i /\ channel' = None
                    => listener'[i] = "ended"]_vars
=============================================================================
