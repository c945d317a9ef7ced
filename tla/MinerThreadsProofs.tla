------------------------ MODULE MinerThreadsProofs ------------------------
(***************************************************************************)
(* Joining the predecessor is enough: OneMiner and ListenerIsHeard of      *)
(* module MinerThreads for any number of threads.                          *)
(*                                                                         *)
(* Neither is inductive.  The strengthening orders the threads: a thread   *)
(* beyond stop() has a finished predecessor, which itself was beyond       *)
(* stop(), so that everything before it is finished, back to the last      *)
(* handle the relayer lost.                                                *)
(***************************************************************************)
EXTENDS MinerThreads, TLAPS

\* Not in stop() any more, or never.
Past(t) == t.pc \notin {"abort", "block", "join"}

Lost(d, i, j) == \E k \in d : i <= k /\ k < j

\* The handle is that of the last thread, or was dropped.
HandleInv(r) ==
  /\ r.handle # None => r.handle.id = Len(r.thread)
  /\ r.handle = None /\ Len(r.thread) > 0 => Len(r.thread) \in r.dropped

\* A thread stops the thread before it, unless that one's handle was dropped.
PriorInv(r) ==
  \A i \in 1..Len(r.thread) :
    /\ r.thread[i].prior # None => i > 1 /\ r.thread[i].prior.id = i - 1
    /\ r.thread[i].prior = None => Past(r.thread[i])
    /\ r.thread[i].prior = None /\ i > 1 => (i - 1) \in r.dropped

OrderInv(r) ==
  \A j \in 1..Len(r.thread) : \A i \in 1..(j - 1) :
    Past(r.thread[j]) /\ ~Lost(r.dropped, i, j) => r.thread[i].pc = "done"

RTypes(r) ==
  /\ r \in [handle : Handles \cup {None}, view : Tips \cup {None},
             thread : Seq(Threads), dropped : SUBSET Ids]
  /\ Len(r.thread) <= MaxThreads

RInv(r) == RTypes(r) /\ HandleInv(r) /\ PriorInv(r) /\ OrderInv(r)

\* What the relayer leaves of the threads it had.
Grows(r, q) ==
  /\ Len(r.thread) <= Len(q.thread)
  /\ \A i \in 1..Len(r.thread) : q.thread[i] = r.thread[i]
  /\ \A i \in 1..Len(q.thread) : q.thread[i].pc = "launch" => i \in 1..Len(r.thread)
  /\ r.dropped \subseteq q.dropped

Launching(i) == At(i, "launch")

\* A listener belongs to a thread with a coordinator; it starts with it.
ListenerInv ==
  \A i \in Ids : /\ listener[i] \in {"new", "running"} => Active(i)
                 /\ Launching(i) => listener[i] = "new"

\* While no handle is lost, the channel is that of the one listener.
ChannelInv ==
  dropped = {} => \A i \in Ids : listener[i] \in {"new", "running"} => channel = i

OtherTypes ==
  /\ relayer = [running |-> relayer.running, handle |-> relayer.handle,
                view |-> relayer.view]
  /\ relayer.running \in BOOLEAN
  /\ aborted \subseteq Ids /\ blockers \subseteq Ids \cup {0}
  /\ listener \in [Ids -> {"none", "new", "running", "ended"}]
  /\ channel \in Ids \cup {None}
  /\ burn \in Tips

ThreadInv == OtherTypes /\ RInv(Relayer) /\ ListenerInv /\ ChannelInv

-----------------------------------------------------------------------------
\* What the relayer does.

\* A dropped handle leaves the threads in order (the end of a scope in
\* start_new_tenure and stop_tenure).
LEMMA DropKeeps ==
  ASSUME NEW r, RInv(r)
  PROVE  RInv(DropHandle(r)) /\ Grows(r, DropHandle(r))
  <1> DEFINE q == DropHandle(r)
  <1> USE ThreadsAssumption
  <1>1. /\ q.thread = r.thread /\ q.handle = None /\ q.view = None
        /\ q = [handle |-> q.handle, view |-> q.view, thread |-> q.thread,
                dropped |-> q.dropped]
        /\ q.dropped = IF r.handle = None THEN r.dropped
                       ELSE r.dropped \cup {r.handle.id}
    BY DEF DropHandle
  <1>2. r.dropped \subseteq q.dropped /\ q.dropped \subseteq Ids
    BY <1>1 DEF RInv, RTypes, Handles
  <1>3. RTypes(q)
    BY <1>1, <1>2 DEF RInv, RTypes
  <1>4. HandleInv(q)
    BY <1>1 DEF RInv, HandleInv
  <1>5. PriorInv(q)
    BY <1>1, <1>2 DEF RInv, PriorInv
  <1>6. OrderInv(q)
    BY <1>1, <1>2 DEF RInv, OrderInv, Lost
  <1>7. Grows(r, q)
    BY <1>1, <1>2 DEF Grows, RInv, RTypes
  <1> QED BY <1>3, <1>4, <1>5, <1>6, <1>7 DEF RInv

\* A spawned thread takes its place behind the others (Builder::spawn in
\* start_new_tenure and stop_tenure).
LEMMA SpawnKeeps ==
  ASSUME NEW r, RInv(r), NEW q, NEW kind \in {"miner", "stop"}, NEW tip \in Tips,
         Len(r.thread) < MaxThreads,
         q.thread = Spawn(r, kind, tip), q.dropped = r.dropped,
         q.handle \in Handles, q.handle.id = Len(r.thread) + 1,
         q.view \in Tips \cup {None},
         q = [handle |-> q.handle, view |-> q.view, thread |-> q.thread,
              dropped |-> q.dropped]
  PROVE  RInv(q) /\ Grows(r, q)
  <1> USE ThreadsAssumption
  <1> DEFINE n == Len(r.thread)
             new == [kind |-> kind, prior |-> r.handle, tip |-> tip,
                     pc |-> IF r.handle = None THEN "start" ELSE "abort"]
  <1>1. r.thread \in Seq(Threads) /\ n \in Nat /\ r.handle \in Handles \cup {None}
        /\ r.dropped \subseteq Ids
    BY DEF RInv, RTypes
  <1>2. new \in Threads
    BY <1>1 DEF Threads
  <1>3. q.thread = Append(r.thread, new)
    BY DEF Spawn
  <1> HIDE DEF new
  <1>4. /\ q.thread \in Seq(Threads) /\ Len(q.thread) = n + 1
        /\ \A i \in 1..n : q.thread[i] = r.thread[i]
        /\ q.thread[n + 1] = new
    BY <1>1, <1>2, <1>3
  <1>5. /\ new.prior = r.handle
        /\ r.handle = None => Past(new)
        /\ Past(new) => r.handle = None
        /\ new.pc # "launch"
    BY DEF new, Past
  <1>6. HandleInv(r) /\ PriorInv(r) /\ OrderInv(r)
    BY DEF RInv
  <1>7. RTypes(q)
    BY <1>1, <1>4 DEF RTypes
  <1>8. HandleInv(q)
    BY <1>4, <1>1 DEF HandleInv, Handles
  <1>9. PriorInv(q)
    <2> SUFFICES ASSUME NEW i \in 1..(n + 1)
                 PROVE  /\ q.thread[i].prior # None => i > 1 /\ q.thread[i].prior.id = i - 1
                        /\ q.thread[i].prior = None => Past(q.thread[i])
                        /\ q.thread[i].prior = None /\ i > 1 => (i - 1) \in q.dropped
      BY <1>4 DEF PriorInv
    <2>1. CASE i \in 1..n
      BY <2>1, <1>1, <1>4, <1>6 DEF PriorInv
    <2>2. CASE i = n + 1
      <3>1. q.thread[i] = new BY <2>2, <1>4
      <3>2. r.handle # None => r.handle.id \in Ids /\ r.handle.id = n
        BY <1>1, <1>6 DEF HandleInv, Handles
      <3>3. i > 1 /\ r.handle = None => (i - 1) \in r.dropped
        BY <1>1, <1>6, <2>2 DEF HandleInv
      <3> QED BY <3>1, <3>2, <3>3, <1>5, <1>1, <2>2 DEF Ids
    <2> QED BY <1>1, <2>1, <2>2
  <1>10. OrderInv(q)
    <2> SUFFICES ASSUME NEW j \in 1..(n + 1), NEW i \in 1..(j - 1),
                        Past(q.thread[j]), ~Lost(q.dropped, i, j)
                 PROVE  q.thread[i].pc = "done"
      BY <1>4 DEF OrderInv
    <2>1. CASE j \in 1..n
      <3>1. i \in 1..n BY <2>1, <1>1
      <3>2. q.thread[j] = r.thread[j] /\ q.thread[i] = r.thread[i] BY <2>1, <3>1, <1>4
      <3>3. Past(r.thread[j]) /\ ~Lost(r.dropped, i, j) BY <3>2
      <3> QED BY <2>1, <3>2, <3>3, <1>6 DEF OrderInv
    <2>2. CASE j = n + 1
      <3>1. r.handle = None BY <2>2, <1>4, <1>5
      <3>2. n \in r.dropped BY <3>1, <2>2, <1>1, <1>6 DEF HandleInv
      <3>3. i <= n /\ n < j BY <2>2, <1>1
      <3>4. Lost(q.dropped, i, j) BY <3>2, <3>3 DEF Lost
      <3> QED BY <3>4
    <2> QED BY <1>1, <2>1, <2>2
  <1>11. Grows(r, q)
    BY <1>1, <1>4, <1>5 DEF Grows
  <1> QED BY <1>7, <1>8, <1>9, <1>10, <1>11 DEF RInv

\* start_new_tenure keeps the order, if it succeeds.
LEMMA StartKeeps ==
  ASSUME NEW r, RInv(r), NEW tip \in Tips, NEW view \in Tips,
         Len(StartNewTenure(r, tip, view).thread) <= MaxThreads
  PROVE  /\ RInv(StartNewTenure(r, tip, view))
         /\ Grows(r, StartNewTenure(r, tip, view))
  <1> USE ThreadsAssumption
  <1> DEFINE q == StartNewTenure(r, tip, view)
             h == [id |-> Len(r.thread) + 1, flag |-> Len(r.thread) + 1]
  <1>1. /\ q.thread = Spawn(r, "miner", tip) /\ q.dropped = r.dropped
        /\ q.handle = h /\ q.view = view
        /\ q = [handle |-> q.handle, view |-> q.view, thread |-> q.thread,
                dropped |-> q.dropped]
    BY DEF StartNewTenure
  <1>2. Len(r.thread) \in Nat /\ Len(q.thread) = Len(r.thread) + 1
    BY <1>1 DEF Spawn, RInv, RTypes
  <1>3. h \in Handles /\ h.id = Len(r.thread) + 1 /\ Len(r.thread) < MaxThreads
    BY <1>2 DEF Handles, Ids
  <1> HIDE DEF q, h
  <1>4. RInv(q) /\ Grows(r, q)
    BY <1>1, <1>2, <1>3, SpawnKeeps
  <1> QED BY <1>4 DEF q

\* stop_tenure keeps the order, if it succeeds.
LEMMA StopKeeps ==
  ASSUME NEW r, RInv(r), Len(StopTenure(r).thread) <= MaxThreads
  PROVE  RInv(StopTenure(r)) /\ Grows(r, StopTenure(r))
  <1> USE ThreadsAssumption
  <1> DEFINE q == StopTenure(r)
             h == [id |-> Len(r.thread) + 1, flag |-> r.handle.flag]
  <1>1. CASE r.handle = None
    <2>1. q = r BY <1>1 DEF StopTenure
    <2>2. Grows(r, r) BY DEF Grows, RInv, RTypes
    <2> QED BY <2>1, <2>2
  <1>2. CASE r.handle # None
    <2>1. /\ q.thread = Spawn(r, "stop", 0) /\ q.dropped = r.dropped
          /\ q.handle = h /\ q.view = None
          /\ q = [handle |-> q.handle, view |-> q.view, thread |-> q.thread,
                  dropped |-> q.dropped]
      BY <1>2 DEF StopTenure, RInv, RTypes
    <2>2. Len(r.thread) \in Nat /\ Len(q.thread) = Len(r.thread) + 1
      BY <2>1 DEF Spawn, RInv, RTypes
    <2>3. h \in Handles /\ h.id = Len(r.thread) + 1 /\ Len(r.thread) < MaxThreads
      BY <2>2, <1>2 DEF Handles, Ids, RInv, RTypes
    <2>4. 0 \in Tips BY DEF Tips
    <2> HIDE DEF q, h
    <2>5. RInv(q) /\ Grows(r, q)
      BY <2>1, <2>2, <2>3, <2>4, SpawnKeeps
    <2> QED BY <2>5 DEF q
  <1> QED BY <1>1, <1>2

\* A directive of the relayer leaves the threads in order.
LEMMA RelayedKeeps ==
  ASSUME ThreadInv, NEW results, Relayed(results), RelayerUnchanged,
         \A r \in results : Len(r.thread) <= MaxThreads =>
                               RInv(r) /\ Grows(Relayer, r)
  PROVE  ThreadInv'
  <1> USE ThreadsAssumption
  <1>1. PICK r \in results :
          /\ Len(r.thread) <= MaxThreads
          /\ thread'  = r.thread
          /\ dropped' = r.dropped
          /\ relayer' = [relayer EXCEPT !.handle = r.handle, !.view = r.view]
    BY DEF Relayed
  <1>2. RInv(r) /\ Grows(Relayer, r)
    BY <1>1
  <1>3. relayer' = [running |-> relayer.running, handle |-> r.handle, view |-> r.view]
    BY <1>1 DEF ThreadInv, OtherTypes
  <1>4. Relayer' = r
    BY <1>1, <1>2, <1>3 DEF Relayer, RInv, RTypes
  <1>5. RInv(Relayer)'
    BY <1>2, <1>4
  <1>6. OtherTypes'
    BY <1>3 DEF OtherTypes, ThreadInv, RelayerUnchanged
  <1>7. /\ \A i \in DOMAIN thread : i \in DOMAIN thread' /\ thread'[i] = thread[i]
        /\ dropped \subseteq dropped'
    <2>1. thread \in Seq(Threads) /\ r.thread \in Seq(Threads)
      BY <1>2 DEF ThreadInv, RInv, RTypes, Relayer
    <2> QED BY <2>1, <1>1, <1>2 DEF Grows, Relayer
  <1>8. ListenerInv'
    <2>1. ASSUME NEW i \in Ids, Launching(i)' PROVE Launching(i)
      <3>1. thread \in Seq(Threads) /\ r.thread \in Seq(Threads)
        BY <1>2 DEF ThreadInv, RInv, RTypes, Relayer
      <3>2. i \in 1..Len(r.thread) /\ r.thread[i].pc = "launch"
        BY <2>1, <3>1, <1>1 DEF Launching, At
      <3> QED BY <3>1, <3>2, <1>2 DEF Grows, Relayer, Launching, At
    <2> QED BY <1>7, <2>1 DEF ThreadInv, ListenerInv, Active, RelayerUnchanged
  <1>9. ChannelInv'
    BY <1>7 DEF ThreadInv, ChannelInv, RelayerUnchanged
  <1> QED BY <1>5, <1>6, <1>8, <1>9 DEF ThreadInv

\* The results of start_new_tenure, and of stop_tenure.
LEMMA StartedKeeps ==
  ASSUME NEW r, RInv(r), NEW tip \in Tips, NEW view \in Tips,
         NEW q \in Started(r, tip, view), Len(q.thread) <= MaxThreads
  PROVE  RInv(q) /\ Grows(r, q)
  BY DropKeeps, StartKeeps DEF Started

LEMMA StoppedKeeps ==
  ASSUME NEW r, RInv(r), NEW q \in Stopped(r), Len(q.thread) <= MaxThreads
  PROVE  RInv(q) /\ Grows(r, q)
  BY DropKeeps, StopKeeps DEF Stopped

\* stop_tenure and then start_new_tenure.
LEMMA RestartedKeeps ==
  ASSUME NEW r, RInv(r), NEW tip \in Tips, NEW view \in Tips,
         NEW q \in Started(StopTenure(r), tip, view), Len(q.thread) <= MaxThreads
  PROVE  RInv(q) /\ Grows(r, q)
  <1> DEFINE s == StopTenure(r)
  <1>1. Len(s.thread) \in Nat /\ Len(q.thread) \in Nat /\ Len(s.thread) <= Len(q.thread)
    <2>1. s.thread \in Seq(Threads)
      <3>1. [kind |-> "stop", prior |-> r.handle, tip |-> 0,
             pc |-> IF r.handle = None THEN "start" ELSE "abort"] \in Threads
        BY ThreadsAssumption DEF Threads, Tips, RInv, RTypes
      <3>2. r.thread \in Seq(Threads) BY DEF RInv, RTypes
      <3>3. Spawn(r, "stop", 0) \in Seq(Threads) BY <3>1, <3>2 DEF Spawn
      <3> QED BY <3>2, <3>3 DEF StopTenure
    <2> QED BY <2>1 DEF Started, DropHandle, StartNewTenure, Spawn
  <1>2. Len(s.thread) <= MaxThreads BY <1>1, ThreadsAssumption
  <1>3. RInv(s) /\ Grows(r, s) BY <1>2, StopKeeps
  <1>4. RInv(q) /\ Grows(s, q) BY <1>3, StartedKeeps
  <1>5. Grows(r, q)
    <2>1. Len(r.thread) \in Nat /\ Len(s.thread) \in Nat /\ Len(q.thread) \in Nat
      BY <1>3, <1>4 DEF RInv, RTypes
    <2> HIDE DEF s
    <2>2. Len(r.thread) <= Len(q.thread) /\ r.dropped \subseteq q.dropped
      BY <1>3, <1>4, <2>1 DEF Grows
    <2>3. \A i \in 1..Len(r.thread) : q.thread[i] = r.thread[i]
      BY <1>3, <1>4, <2>1 DEF Grows
    <2>4. \A i \in 1..Len(q.thread) : q.thread[i].pc = "launch" => i \in 1..Len(r.thread)
      BY <1>3, <1>4, <2>1 DEF Grows
    <2> QED BY <2>2, <2>3, <2>4 DEF Grows
  <1> QED BY <1>4, <1>5

-----------------------------------------------------------------------------
\* What the spawned threads do.

\* Thread i goes on to pc, and not back into stop(): the order is kept if it was
\* beyond stop() before, or now is because its predecessor is done.
LEMMA GotoKeeps ==
  ASSUME ThreadInv, NEW i \in Ids, NEW old, NEW pc, At(i, old), Goto(i, pc),
         old # "done",
         pc \in {"block", "join", "start", "launch", "mine", "shutdown",
                 "joinListener", "done"},
         old \in {"abort", "block", "join"} \/ pc \notin {"block", "join"},
         \/ old \notin {"abort", "block", "join"}
         \/ pc \in {"block", "join"}
         \/ At(thread[i].prior.id, "done"),
         UNCHANGED <<relayer, dropped>>
  PROVE  RInv(Relayer)'
  <1> USE ThreadsAssumption
  <1> DEFINE n == Len(thread)
  <1>1. /\ thread \in Seq(Threads) /\ n \in Nat /\ n <= MaxThreads
        /\ DOMAIN thread = 1..n /\ i \in 1..n /\ dropped \subseteq Ids
        /\ relayer.handle \in Handles \cup {None} /\ relayer.view \in Tips \cup {None}
    BY DEF ThreadInv, RInv, RTypes, Relayer, At
  <1>2. /\ thread' = [thread EXCEPT ![i].pc = pc]
        /\ Relayer' = [handle |-> relayer.handle, view |-> relayer.view,
                       thread |-> thread', dropped |-> dropped]
    BY DEF Goto, Relayer
  <1>3. /\ thread' \in Seq(Threads) /\ Len(thread') = n
        /\ \A k \in 1..n : k # i => thread'[k] = thread[k]
        /\ thread'[i] = [thread[i] EXCEPT !.pc = pc]
    <2>1. thread[i] \in Threads BY <1>1
    <2>2. [thread[i] EXCEPT !.pc = pc] \in Threads BY <2>1 DEF Threads
    <2> QED BY <1>1, <1>2, <2>2
  <1>4. thread'[i].prior = thread[i].prior /\ thread'[i].pc = pc
    <2>1. thread[i] \in Threads BY <1>1
    <2> QED BY <1>3, <2>1 DEF Threads
  <1>5. HandleInv(Relayer) /\ PriorInv(Relayer) /\ OrderInv(Relayer)
    BY DEF ThreadInv, RInv
  <1>6. RTypes(Relayer')
    BY <1>1, <1>2, <1>3 DEF RTypes
  <1>7. HandleInv(Relayer')
    BY <1>2, <1>3, <1>5 DEF HandleInv, Relayer
  <1>8. PriorInv(Relayer')
    <2>1. thread[i].prior = None => Past(thread[i])
      BY <1>1, <1>5 DEF PriorInv, Relayer
    <2>2. Past(thread[i]) => Past(thread'[i])
      BY <1>4, <1>1 DEF Past, At
    <2> QED BY <2>1, <2>2, <1>1, <1>2, <1>3, <1>4, <1>5 DEF PriorInv, Relayer
  <1>9. OrderInv(Relayer')
    <2> SUFFICES ASSUME NEW j \in 1..n, NEW k \in 1..(j - 1),
                        Past(thread'[j]), ~Lost(dropped, k, j)
                 PROVE  thread'[k].pc = "done"
      BY <1>2, <1>3 DEF OrderInv
    <2>0. k \in 1..n /\ k < j BY <1>1
    <2>1. Past(thread[j]) => thread[k].pc = "done"
      BY <1>5, <1>1 DEF OrderInv, Relayer
    <2>2. thread[k].pc = "done" => thread'[k].pc = "done"
      <3>1. thread[k].pc = "done" => k # i BY DEF At
      <3> QED BY <3>1, <2>0, <1>3
    <2>3. ASSUME ~Past(thread[j]) PROVE thread[k].pc = "done"
      <3>1. j = i BY <2>3, <1>3
      <3>2. thread[i].prior # None BY <2>3, <3>1, <1>1, <1>5 DEF PriorInv, Relayer
      <3>3. thread[i].prior.id = i - 1 BY <3>2, <1>1, <1>5 DEF PriorInv, Relayer
      <3>4. At(i - 1, "done") BY <3>1, <3>3, <2>3, <1>4 DEF Past, At
      <3>5. CASE k = i - 1 BY <3>4, <3>5 DEF At
      <3>6. CASE k # i - 1
        <4>1. k \in 1..((i - 1) - 1) /\ (i - 1) \in 1..n BY <3>1, <3>6, <2>0, <1>1
        <4>2. Past(thread[i - 1]) BY <3>4 DEF Past, At
        <4>3. ~Lost(dropped, k, i - 1)
          <5>1. \A m \in dropped : m \in Int BY <1>1 DEF Ids
          <5> QED BY <5>1, <3>1, <1>1 DEF Lost, Ids
        <4> QED BY <4>1, <4>2, <4>3, <1>5 DEF OrderInv, Relayer
      <3> QED BY <3>5, <3>6
    <2> QED BY <2>1, <2>2, <2>3
  <1>10. RInv(Relayer') BY <1>6, <1>7, <1>8, <1>9 DEF RInv
  <1> QED BY <1>10

\* Beyond stop(), and not finished.
Busy(i) == i \in DOMAIN thread /\ Past(thread[i]) /\ thread[i].pc # "done"

\* Of two threads beyond stop(), one was spawned after a handle was lost.
LEMMA BusyOrder ==
  ASSUME ThreadInv, NEW i \in Ids, NEW j \in Ids, i < j, Busy(i), Busy(j)
  PROVE  DroppedBetween(i, j)
  <1>1. OrderInv(Relayer) /\ thread \in Seq(Threads)
    BY DEF ThreadInv, RInv, RTypes, Relayer
  <1>2. j \in 1..Len(thread) /\ i \in 1..(j - 1) BY <1>1 DEF Busy, Ids
  <1>3. Lost(dropped, i, j) BY <1>1, <1>2 DEF OrderInv, Relayer, Busy
  <1> QED BY <1>3 DEF Lost, DroppedBetween

LEMMA OneBusy ==
  ASSUME ThreadInv, dropped = {}, NEW i \in Ids, NEW j \in Ids, Busy(i), Busy(j)
  PROVE  i = j
  BY BusyOrder DEF DroppedBetween, Ids

LEMMA ActiveIsBusy ==
  ASSUME NEW i, Active(i)
  PROVE  Busy(i)
  BY DEF Active, Busy, Past

\* A listener ends, and empties the channel: with no handle lost it is the only
\* one (Drop of StackerDBListener).
LEMMA EndKeeps ==
  ASSUME ThreadInv, NEW i \in Ids, listener[i] \in {"new", "running"},
         listener' = [listener EXCEPT ![i] = "ended"], channel' = None,
         \A j \in Ids \ {i} : /\ Active(j) => Active(j)'
                              /\ Launching(j)' => Launching(j),
         ~Launching(i)', UNCHANGED dropped
  PROVE  ListenerInv' /\ ChannelInv'
  <1>1. /\ \A j \in Ids \ {i} : listener'[j] = listener[j]
        /\ listener'[i] = "ended"
    BY DEF ThreadInv, OtherTypes
  <1>2. ListenerInv'
    BY <1>1 DEF ThreadInv, ListenerInv
  <1>3. ChannelInv'
    <2> SUFFICES ASSUME dropped = {}, NEW j \in Ids, listener'[j] \in {"new", "running"}
                 PROVE  FALSE
      BY DEF ChannelInv
    <2>1. j # i /\ listener[j] = listener'[j] BY <1>1
    <2>2. Active(i) /\ Active(j) BY <2>1 DEF ThreadInv, ListenerInv
    <2> QED BY <2>1, <2>2, ActiveIsBusy, OneBusy
  <1> QED BY <1>2, <1>3

\* A thread goes on; the others keep their places.
LEMMA OthersStay ==
  ASSUME ThreadInv, NEW i \in Ids, NEW old, NEW pc, At(i, old), Goto(i, pc)
  PROVE  /\ \A j \in Ids \ {i} : /\ Active(j)' <=> Active(j)
                                 /\ Launching(j)' <=> Launching(j)
         /\ Active(i)' <=> pc \in {"launch", "mine", "shutdown", "joinListener"}
         /\ Launching(i)' <=> pc = "launch"
  <1>1. thread \in Seq(Threads) /\ i \in DOMAIN thread /\ thread[i] \in Threads
    BY DEF ThreadInv, RInv, RTypes, Relayer, At
  <1>2. thread' = [thread EXCEPT ![i].pc = pc] BY DEF Goto
  <1>3. /\ DOMAIN thread' = DOMAIN thread
        /\ \A j \in DOMAIN thread \ {i} : thread'[j] = thread[j]
        /\ thread'[i].pc = pc
    BY <1>1, <1>2 DEF Threads
  <1> QED BY <1>1, <1>3 DEF Active, Launching, At

\* Steps that leave listeners and channel alone.
LEMMA QuietKeeps ==
  ASSUME ThreadInv, NEW i \in Ids, NEW old, NEW pc, At(i, old), Goto(i, pc),
         RInv(Relayer)', UNCHANGED <<relayer, listener, channel, burn, dropped>>,
         aborted' \subseteq Ids, blockers' \subseteq Ids \cup {0},
         listener[i] \in {"new", "running"} =>
           pc \in {"mine", "shutdown", "joinListener"},
         pc # "launch"
  PROVE  ThreadInv'
  <1>1. OtherTypes' BY DEF ThreadInv, OtherTypes
  <1>s. /\ \A j \in Ids \ {i} : /\ Active(j)' <=> Active(j)
                                /\ Launching(j)' <=> Launching(j)
        /\ Active(i)' <=> pc \in {"launch", "mine", "shutdown", "joinListener"}
        /\ Launching(i)' <=> pc = "launch"
    BY OthersStay
  <1>2. ListenerInv' BY <1>s DEF ThreadInv, ListenerInv
  <1>3. ChannelInv' BY DEF ThreadInv, ChannelInv
  <1> QED BY <1>1, <1>2, <1>3 DEF ThreadInv

-----------------------------------------------------------------------------
\* Every step of a thread keeps the invariant.
LEMMA ThreadStepKeeps ==
  ASSUME ThreadInv, NEW i \in Ids, ThreadStep(i) \/ StartFails(i) \/ Fails(i)
  PROVE  ThreadInv'
  <1> USE ThreadsAssumption
  <1>0. /\ thread \in Seq(Threads) /\ aborted \subseteq Ids /\ blockers \subseteq Ids \cup {0}
        /\ listener \in [Ids -> {"none", "new", "running", "ended"}]
    BY DEF ThreadInv, RInv, RTypes, Relayer, OtherTypes
  <1>a. listener[i] \in {"new", "running"} => Active(i)
    BY DEF ThreadInv, ListenerInv
  <1>1. CASE SetAborted(i)
    <2>1. RInv(Relayer)' BY <1>1, GotoKeeps DEF SetAborted
    <2>2. aborted' \subseteq Ids
      <3>1. thread[i] \in Threads /\ thread[i].prior # None
        BY <1>0, <1>1 DEF SetAborted, At, ThreadInv, RInv, PriorInv, Relayer, Past
      <3>2. thread[i].prior.flag \in Ids BY <3>1 DEF Threads, Handles
      <3> QED BY <1>0, <1>1, <3>2 DEF SetAborted
    <2>3. listener[i] \notin {"new", "running"} BY <1>a, <1>1 DEF SetAborted, At, Active
    <2> QED BY <1>0, <1>1, <2>1, <2>2, <2>3, QuietKeeps DEF SetAborted
  <1>2. CASE BlockMiner(i)
    <2>1. RInv(Relayer)' BY <1>2, GotoKeeps DEF BlockMiner
    <2>2. blockers' \subseteq Ids \cup {0} BY <1>0, <1>2 DEF BlockMiner
    <2>3. listener[i] \notin {"new", "running"} BY <1>a, <1>2 DEF BlockMiner, At, Active
    <2> QED BY <1>0, <1>2, <2>1, <2>2, <2>3, QuietKeeps DEF BlockMiner
  <1>3. CASE JoinPrior(i)
    <2>1. PICK pc \in {"start", "done"} : Goto(i, pc) BY <1>3 DEF JoinPrior
    <2>2. RInv(Relayer)' BY <1>3, <2>1, GotoKeeps DEF JoinPrior
    <2>3. blockers' \subseteq Ids \cup {0} BY <1>0, <1>3 DEF JoinPrior
    <2>4. listener[i] \notin {"new", "running"} BY <1>a, <1>3 DEF JoinPrior, At, Active
    <2> QED BY <1>0, <1>3, <2>1, <2>2, <2>3, <2>4, QuietKeeps DEF JoinPrior
  <1>4. CASE Register(i)
    <2>1. PICK pc \in {"launch", "done"} :
            /\ Goto(i, pc)
            /\ pc = "launch" => listener' = [listener EXCEPT ![i] = "new"]
            /\ pc = "done" => UNCHANGED listener
      BY <1>4 DEF Register
    <2>2. RInv(Relayer)' BY <1>4, <2>1, GotoKeeps DEF Register
    <2>3. listener[i] \notin {"new", "running"} BY <1>a, <1>4 DEF Register, At, Active
    <2>4. /\ \A j \in Ids \ {i} : listener'[j] = listener[j]
          /\ pc = "launch" => listener'[i] = "new"
          /\ pc = "done" => listener'[i] = listener[i]
      BY <1>0, <2>1
    <2>5. OtherTypes'
      <3>1. listener' \in [Ids -> {"none", "new", "running", "ended"}]
        BY <1>0, <2>1
      <3> QED BY <3>1, <1>4 DEF ThreadInv, OtherTypes, Register
    <2>s. /\ \A j \in Ids \ {i} : /\ Active(j)' <=> Active(j)
                                  /\ Launching(j)' <=> Launching(j)
          /\ Active(i)' <=> pc \in {"launch", "mine", "shutdown", "joinListener"}
          /\ Launching(i)' <=> pc = "launch"
      BY <1>4, <2>1, OthersStay DEF Register
    <2>6. ListenerInv'
      BY <2>1, <2>3, <2>4, <2>s DEF ThreadInv, ListenerInv
    <2>7. ChannelInv'
      <3> SUFFICES ASSUME dropped = {}, NEW j \in Ids \ {i},
                          listener'[j] \in {"new", "running"}
                   PROVE  FALSE
        BY <1>4 DEF ChannelInv, Register
      <3>1. Active(j) BY <2>4 DEF ThreadInv, ListenerInv
      <3>2. Busy(i) BY <1>4 DEF Register, At, Busy, Past
      <3> QED BY <3>1, <3>2, ActiveIsBusy, OneBusy
    <2> QED BY <2>2, <2>5, <2>6, <2>7 DEF ThreadInv
  <1>5. CASE Launch(i)
    <2>1. CASE Goto(i, "mine") /\ listener' = [listener EXCEPT ![i] = "running"]
               /\ UNCHANGED channel
      <3>1. RInv(Relayer)' BY <1>5, <2>1, GotoKeeps DEF Launch
      <3>2. OtherTypes'
        <4>1. listener' \in [Ids -> {"none", "new", "running", "ended"}]
          BY <1>0, <2>1
        <4> QED BY <4>1, <1>5, <2>1 DEF ThreadInv, OtherTypes, Launch
      <3>s. /\ \A j \in Ids \ {i} : /\ Active(j)' <=> Active(j)
                                    /\ Launching(j)' <=> Launching(j)
            /\ Active(i)' <=> "mine" \in {"launch", "mine", "shutdown", "joinListener"}
            /\ Launching(i)' <=> "mine" = "launch"
        BY <1>5, <2>1, OthersStay DEF Launch
      <3>3. ListenerInv'
        BY <1>0, <2>1, <3>s DEF ThreadInv, ListenerInv
      <3>4. ChannelInv'
        <4> SUFFICES ASSUME dropped = {}, NEW j \in Ids,
                            listener'[j] \in {"new", "running"}
                     PROVE  channel = j
          BY <1>5, <2>1 DEF ChannelInv, Launch
        <4>1. CASE j # i BY <1>0, <2>1, <4>1 DEF ThreadInv, ChannelInv
        <4>2. CASE j = i
          BY <1>5, <4>2 DEF ThreadInv, ListenerInv, ChannelInv, Launch, Launching
        <4> QED BY <4>1, <4>2
      <3> QED BY <3>1, <3>2, <3>3, <3>4 DEF ThreadInv
    <2>2. CASE Goto(i, "done") /\ listener' = [listener EXCEPT ![i] = "ended"]
               /\ channel' = None
      <3>1. RInv(Relayer)' BY <1>5, <2>2, GotoKeeps DEF Launch
      <3>2. OtherTypes'
        <4>1. listener' \in [Ids -> {"none", "new", "running", "ended"}]
          BY <1>0, <2>2
        <4> QED BY <4>1, <1>5, <2>2 DEF ThreadInv, OtherTypes, Launch
      <3>3. listener[i] = "new" BY <1>5 DEF ThreadInv, ListenerInv, Launch, Launching
      <3>s. /\ \A j \in Ids \ {i} : /\ Active(j)' <=> Active(j)
                                    /\ Launching(j)' <=> Launching(j)
            /\ Active(i)' <=> "done" \in {"launch", "mine", "shutdown", "joinListener"}
            /\ Launching(i)' <=> "done" = "launch"
        BY <1>5, <2>2, OthersStay DEF Launch
      <3>4. ListenerInv' /\ ChannelInv'
        BY <1>5, <2>2, <3>3, <3>s, EndKeeps DEF Launch
      <3> QED BY <3>1, <3>2, <3>4 DEF ThreadInv
    <2> QED BY <1>5, <2>1, <2>2 DEF Launch
  <1>6. CASE Leaves(i) \/ Fails(i)
    <2>1. RInv(Relayer)' BY <1>6, GotoKeeps DEF Leaves, Fails
    <2> QED BY <1>0, <1>6, <2>1, QuietKeeps DEF Leaves, Fails
  <1>7. CASE Shutdown(i)
    <2>1. RInv(Relayer)' BY <1>7, GotoKeeps DEF Shutdown
    <2> QED BY <1>0, <1>7, <2>1, QuietKeeps DEF Shutdown
  <1>8. CASE JoinListener(i)
    <2>1. RInv(Relayer)' BY <1>8, GotoKeeps DEF JoinListener
    <2> QED BY <1>0, <1>8, <2>1, QuietKeeps DEF JoinListener
  <1>9. CASE StartFails(i)
    <2>1. RInv(Relayer)' BY <1>9, GotoKeeps DEF StartFails
    <2>2. listener[i] \notin {"new", "running"} BY <1>a, <1>9 DEF StartFails, At, Active
    <2> QED BY <1>0, <1>9, <2>1, <2>2, QuietKeeps DEF StartFails
  <1> QED BY <1>1, <1>2, <1>3, <1>4, <1>5, <1>6, <1>7, <1>8, <1>9 DEF ThreadStep

\* A listener that ends keeps the invariant.
LEMMA ListenerStepKeeps ==
  ASSUME ThreadInv, NEW i \in Ids, listener[i] = "running", EndListener(i)
  PROVE  ThreadInv'
  <1>1. Relayer' = Relayer BY DEF Relayer, EndListener
  <1>2. RInv(Relayer') BY <1>1 DEF ThreadInv
  <1>3. OtherTypes'
    <2>1. listener' \in [Ids -> {"none", "new", "running", "ended"}]
      BY DEF ThreadInv, OtherTypes, EndListener
    <2> QED BY <2>1 DEF ThreadInv, OtherTypes, EndListener
  <1>4. ~Launching(i) BY DEF ThreadInv, ListenerInv
  <1>5. \A j \in Ids : (Active(j)' <=> Active(j)) /\ (Launching(j)' <=> Launching(j))
    BY DEF EndListener, Active, Launching, At
  <1>6. ListenerInv' /\ ChannelInv'
    BY <1>4, <1>5, EndKeeps DEF EndListener
  <1> QED BY <1>2, <1>3, <1>6 DEF ThreadInv

\* The invariant holds initially.
LEMMA InitInv == ASSUME Init PROVE ThreadInv
  <1> USE ThreadsAssumption DEF Init
  <1>1. Relayer = [handle |-> None, view |-> None, thread |-> <<>>, dropped |-> {}]
    BY DEF Relayer
  <1>2. RInv(Relayer)
    BY <1>1 DEF RInv, RTypes, HandleInv, PriorInv, OrderInv
  <1>3. OtherTypes BY DEF OtherTypes, Tips
  <1>4. ListenerInv /\ ChannelInv BY DEF ListenerInv, ChannelInv, Launching, At
  <1> QED BY <1>2, <1>3, <1>4 DEF ThreadInv

\* Every step keeps it.
LEMMA NextInv == ASSUME ThreadInv, [Next]_vars PROVE ThreadInv'
  <1> USE ThreadsAssumption
  <1>0. RInv(Relayer) /\ burn \in Tips BY DEF ThreadInv, OtherTypes
  <1>1. ASSUME NEW tip \in Tips, NEW view \in Tips, BeginTenure(tip, view)
        PROVE  ThreadInv'
    BY <1>0, <1>1, StartedKeeps, RelayedKeeps DEF BeginTenure
  <1>2. ASSUME NEW tip \in Tips, ContinueTenure(tip)
        PROVE  ThreadInv'
    <2>1. CASE Relayed(Stopped(Relayer))
      BY <1>0, <1>2, <2>1, StoppedKeeps, RelayedKeeps DEF ContinueTenure
    <2>2. CASE Relayed(Started(StopTenure(Relayer), tip, tip))
      BY <1>0, <1>2, <2>2, RestartedKeeps, RelayedKeeps DEF ContinueTenure
    <2> QED BY <1>2, <2>1, <2>2 DEF ContinueTenure
  <1>3. CASE StopDirective
    BY <1>0, <1>3, StoppedKeeps, RelayedKeeps DEF StopDirective
  <1>4. CASE TimerExtends
    <2>1. CASE Relayed({DropHandle(Relayer)})
      BY <1>0, <1>4, <2>1, DropKeeps, RelayedKeeps DEF TimerExtends
    <2>2. CASE Relayed(Started(StopTenure(Relayer), burn, burn))
      BY <1>0, <1>4, <2>2, RestartedKeeps, RelayedKeeps DEF TimerExtends
    <2> QED BY <1>4, <2>1, <2>2 DEF TimerExtends
  <1>5. CASE RelayerExits
    <2>1. relayer' = [running |-> FALSE, handle |-> relayer.handle, view |-> relayer.view]
      BY <1>5 DEF RelayerExits, ThreadInv, OtherTypes
    <2>2. Relayer' = Relayer BY <1>5, <2>1 DEF Relayer, RelayerExits
    <2>3. RInv(Relayer') BY <1>0, <2>2
    <2>4. OtherTypes' BY <1>5, <2>1 DEF RelayerExits, ThreadInv, OtherTypes
    <2>5. ListenerInv' /\ ChannelInv'
      BY <1>5 DEF RelayerExits, ThreadInv, ListenerInv, ChannelInv, Active, Launching, At
    <2> QED BY <2>3, <2>4, <2>5 DEF ThreadInv
  <1>6. CASE BurnBlock
    <2>1. Relayer' = Relayer BY <1>6 DEF Relayer, BurnBlock
    <2>2. RInv(Relayer') BY <1>0, <2>1
    <2>3. OtherTypes' BY <1>6 DEF BurnBlock, ThreadInv, OtherTypes, Tips
    <2>4. ListenerInv' /\ ChannelInv'
      BY <1>6 DEF BurnBlock, ThreadInv, ListenerInv, ChannelInv, Active, Launching, At
    <2> QED BY <2>2, <2>3, <2>4 DEF ThreadInv
  <1>7. ASSUME NEW i \in Ids, ThreadStep(i) \/ StartFails(i) \/ Fails(i)
        PROVE  ThreadInv'
    BY <1>7, ThreadStepKeeps
  <1>8. ASSUME NEW i \in Ids, ListenerStops(i) \/ ListenerFails(i)
        PROVE  ThreadInv'
    BY <1>8, ListenerStepKeeps DEF ListenerStops, ListenerFails
  <1>9. CASE UNCHANGED vars
    <2>1. Relayer' = Relayer BY <1>9 DEF Relayer, vars
    <2>2. RInv(Relayer') BY <1>0, <2>1
    <2>3. OtherTypes' /\ ListenerInv' /\ ChannelInv'
      BY <1>9 DEF vars, ThreadInv, OtherTypes, ListenerInv, ChannelInv, Active, Launching, At
    <2> QED BY <2>2, <2>3 DEF ThreadInv
  <1> QED BY <1>1, <1>2, <1>3, <1>4, <1>5, <1>6, <1>7, <1>8, <1>9 DEF Next

-----------------------------------------------------------------------------
(***************************************************************************)
(* The strengthened invariant, for any number of threads and burn blocks.  *)
(***************************************************************************)
THEOREM ThreadsCorrect == Spec => []ThreadInv
  BY InitInv, NextInv, PTL DEF Spec

(***************************************************************************)
(* The threads, handles and the channel keep their types.                  *)
(***************************************************************************)
THEOREM ThreadsTypes == Spec => []TypeOK
  <1>1. ThreadInv => TypeOK
    <2> SUFFICES ASSUME ThreadInv PROVE TypeOK OBVIOUS
    <2>1. /\ Relayer.thread = thread /\ Relayer.handle = relayer.handle
          /\ Relayer.view = relayer.view /\ Relayer.dropped = dropped
      BY DEF Relayer
    <2>2. /\ thread \in Seq(Threads) /\ Len(thread) <= MaxThreads /\ dropped \subseteq Ids
          /\ relayer.handle \in Handles \cup {None} /\ relayer.view \in Tips \cup {None}
      BY <2>1 DEF ThreadInv, RInv, RTypes
    <2>3. \A i \in DOMAIN thread :
            thread[i].pc \in {"abort", "block", "join"} => thread[i].prior # None
      BY <2>1, <2>2 DEF ThreadInv, RInv, PriorInv, Past
    <2>4. relayer \in [running : BOOLEAN, handle : Handles \cup {None},
                       view : Tips \cup {None}]
      BY <2>2 DEF ThreadInv, OtherTypes
    <2> QED BY <2>2, <2>3, <2>4 DEF ThreadInv, OtherTypes, TypeOK
  <1> QED BY <1>1, ThreadsCorrect, PTL

(***************************************************************************)
(* Two threads mine at once only across a handle the relayer lost, however *)
(* many tenures it started, continued and stopped.                         *)
(***************************************************************************)
THEOREM ThreadsOneMiner == Spec => []OneMiner
  <1>1. ThreadInv => OneMiner
    <2> SUFFICES ASSUME ThreadInv, NEW j \in Ids, NEW i \in 1..(j - 1),
                        Active(i), Active(j)
                 PROVE  DroppedBetween(i, j)
      BY DEF OneMiner
    <2>1. i \in Ids /\ i < j BY ThreadsAssumption DEF Ids
    <2> QED BY <2>1, BusyOrder, ActiveIsBusy
  <1> QED BY <1>1, ThreadsCorrect, PTL

(***************************************************************************)
(* Unless a handle was lost, no listener takes the channel from another,   *)
(* on its way in or out.                                                   *)
(***************************************************************************)
THEOREM ThreadsListener == Spec => []ListenerIsHeard
  <1>1. ThreadInv => ListenerIsHeard
    BY DEF ThreadInv, ChannelInv, ListenerIsHeard
  <1> QED BY <1>1, ThreadsCorrect, PTL
=============================================================================
