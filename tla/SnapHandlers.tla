---------------------------- MODULE SnapHandlers ----------------------------
(***************************************************************************)
(* The daemon snapuserd around its snapshot handlers: the thread of the    *)
(* socket server, which carries out the commands of the clients one after  *)
(* another; a thread for each started handler, which serves its partition  *)
(* until the device is gone; and the merge monitor, which takes handlers   *)
(* from a queue and lets at most NumMergeThreads of them merge at a time.  *)
(* Each step is one critical section under lock_, or a step without it.    *)
(* A handler is its SnapMerge seen from outside: it is told to merge, its  *)
(* merge ends well or badly, and its Start() returns.                      *)
(***************************************************************************)
EXTENDS Integers, Sequences, FiniteSets

CONSTANTS
    Names,              \* misc names, one for each snapshot
    NumMergeThreads,    \* ro.virtual_ab.num_merge_threads
    MaxHandlers,        \* bound: how many handlers are ever added
    MaxQueue,           \* bound: how many merges wait at a time
    Faults              \* the faults that may strike

(* The kinds of faults: a merge that fails, a worker that cannot read, a   *)
(* device that is removed before its merge is complete, and a client that  *)
(* asks for the merge of one handler more than once.                       *)
FaultNames == {"merge", "worker", "removed", "again"}

ManagerAssumption ==
    /\ NumMergeThreads \in Nat \ {0}
    /\ MaxHandlers \in Nat
    /\ Faults \subseteq FaultNames
ASSUME ManagerAssumption

Handlers == 1 .. MaxHandlers        \* in the order they are added

VARIABLES
    added,          \* how many handlers there were
    name,           \* misc_name_
    dmUsers,        \* dm_users_
    thread,         \* where RunThread of a handler is
    detached,       \* the handlers whose thread is detached
    freed,          \* the handlers whose snapuserd_ is null
    gone,           \* the handlers whose device is gone
    initiated,      \* the handlers with merge_initiated_
    merge,          \* how the merge of a handler went
    mergeCompleted, \* merge_completed of RunThread
    queue,          \* merge_handlers_
    active,         \* active_merge_threads_
    event,          \* whether monitor_merge_event_fd_ can be read
    monitor,        \* where MonitorMerge is
    stop,           \* stop_monitor_merge_thread_
    server,         \* where the thread of the server is
    target          \* the handlers it deletes or joins

lists == <<added, name, dmUsers>>
threads == <<thread, detached, freed, mergeCompleted>>
merges == <<gone, initiated, merge>>
monitorVars == <<queue, active, event, monitor, stop>>
serverVars == <<server, target>>
vars == <<lists, threads, merges, monitorVars, serverVars>>

Init ==
    /\ added = 0 /\ name = [h \in Handlers |-> "none"]
    /\ dmUsers = {}
    /\ thread = [h \in Handlers |-> "none"]
    /\ mergeCompleted = [h \in Handlers |-> FALSE]
    /\ detached = {} /\ freed = {} /\ gone = {} /\ initiated = {}
    /\ merge = [h \in Handlers |-> "none"]
    /\ queue = <<>> /\ active = 0 /\ event = FALSE
    /\ monitor = "none" /\ stop = FALSE
    /\ server = "idle" /\ target = {}

FindHandler(n) == {h \in dmUsers : name[h] = n}
IsAttached(h) == thread[h] # "none"
Joinable(h) == IsAttached(h) /\ h \notin detached
WakeupMonitorMergeThread == event' = TRUE

-----------------------------------------------------------------------------
(* The commands of the clients, carried out by the thread of the server.   *)

AddHandler(n) ==
    /\ server = "idle" /\ added < MaxHandlers
    /\ FindHandler(n) = {}
    /\ added' = added + 1
    /\ name' = [name EXCEPT ![added + 1] = n]
    /\ dmUsers' = dmUsers \cup {added + 1}
    /\ UNCHANGED <<threads, merges, monitorVars, serverVars>>

StartHandler(h) ==
    /\ server = "idle"
    /\ h \in dmUsers /\ ~IsAttached(h)
    /\ thread' = [thread EXCEPT ![h] = "serving"]
    /\ UNCHANGED <<lists, detached, freed, mergeCompleted, merges, monitorVars, serverVars>>

(* InitiateMerge and StartMerge.                                           *)
InitiateMerge(h) ==
    /\ server = "idle"
    /\ h \in dmUsers /\ IsAttached(h)
    /\ Len(queue) < MaxQueue
    /\ "again" \in Faults \/ (h \notin initiated /\ \A i \in 1 .. Len(queue) : queue[i] # h)
    /\ monitor' = IF monitor = "none" THEN "top" ELSE monitor
    /\ queue' = Append(queue, h)
    /\ WakeupMonitorMergeThread
    /\ UNCHANGED <<lists, threads, merges, active, stop, serverVars>>

(* A handler whose merge is told to end does not complete it.              *)
Terminated(hs) ==
    merge' = [h \in Handlers |-> IF h \in hs /\ merge[h] = "none" THEN "failed" ELSE merge[h]]

(* DeleteHandler: clients send it when the device is gone.  Between its    *)
(* two critical sections the handler may end by itself.                    *)
DeleteHandler(h) ==
    /\ server = "idle"
    /\ h \in dmUsers /\ (IsAttached(h) => h \in gone)
    /\ Terminated({h})
    /\ server' = "delete" /\ target' = {h}
    /\ UNCHANGED <<lists, threads, gone, initiated, monitorVars>>

RemoveAndJoinHandler ==
    /\ server = "delete"
    /\ LET found == {h \in dmUsers : \E t \in target : name[h] = name[t]}
       IN  /\ dmUsers' = dmUsers \ found
           /\ target' = found
           /\ server' = IF found = {} THEN "idle" ELSE "join"
    /\ UNCHANGED <<added, name, threads, merges, monitorVars>>

ThreadsEndedOrGone == \A h \in target : Joinable(h) => thread[h] = "done" \/ h \in gone
ThreadsEnded == \A h \in target : Joinable(h) => thread[h] = "done"

Join ==
    /\ server = "join" /\ ThreadsEnded
    /\ server' = "idle" /\ target' = {}
    /\ UNCHANGED <<lists, threads, merges, monitorVars>>

(* stop; or detach, which also ends the merges: TerminateMergeThreads.     *)
JoinAllThreads ==
    /\ server = "idle"
    /\ \/ UNCHANGED merge
       \/ Terminated(dmUsers)
    /\ target' = dmUsers
    /\ dmUsers' = {}
    /\ server' = "joinAll"
    /\ UNCHANGED <<added, name, threads, gone, initiated, monitorVars>>

StopUnseen == stop' = TRUE /\ UNCHANGED event
Stop == stop' = TRUE /\ WakeupMonitorMergeThread

JoinMonitor ==
    /\ server = "joinAll" /\ ThreadsEnded
    /\ IF monitor = "none"
       THEN server' = "down" /\ UNCHANGED <<stop, event>>
       ELSE server' = "joinMonitor" /\ Stop
    /\ UNCHANGED <<lists, threads, merges, queue, active, monitor, target>>

Down ==
    /\ server = "joinMonitor" /\ monitor = "done"
    /\ server' = "down"
    /\ UNCHANGED <<lists, threads, merges, monitorVars, target>>

-----------------------------------------------------------------------------
(* The merge monitor.                                                      *)

MonitorTop ==
    /\ monitor = "top"
    /\ monitor' = IF stop THEN "done" ELSE "read"
    /\ UNCHANGED <<lists, threads, merges, queue, active, event, stop, serverVars>>

MonitorRead ==
    /\ monitor = "read" /\ event
    /\ event' = FALSE
    /\ monitor' = "loop"
    /\ UNCHANGED <<lists, threads, merges, queue, active, stop, serverVars>>

(* The loop of MonitorMerge takes the first k of the queue, where those    *)
(* that still have a snapuserd_ are told to merge and counted.             *)
RoomForMore(k) == active + k <= NumMergeThreads
RoomFor(k) == active + k < NumMergeThreads
Alive(k) == {i \in 1 .. k : queue[i] \notin freed}

MonitorMerge ==
    /\ monitor = "loop"
    /\ \E k \in 0 .. Len(queue) :
           /\ \A j \in 0 .. k - 1 : RoomFor(Cardinality(Alive(j)))
           /\ k = Len(queue) \/ ~RoomFor(Cardinality(Alive(k)))
           /\ initiated' = initiated \cup {queue[i] : i \in Alive(k)}
           /\ active' = active + Cardinality(Alive(k))
           /\ queue' = SubSeq(queue, k + 1, Len(queue))
    /\ monitor' = "top"
    /\ UNCHANGED <<lists, threads, gone, merge, event, stop, serverVars>>

-----------------------------------------------------------------------------
(* The handlers.                                                           *)

MergeEnds(h) ==
    /\ thread[h] = "serving" /\ h \in initiated /\ merge[h] = "none"
    /\ \E end \in {"complete"} \cup (IF "merge" \in Faults THEN {"failed"} ELSE {}) :
           merge' = [merge EXCEPT ![h] = end]
    /\ UNCHANGED <<lists, threads, gone, initiated, monitorVars, serverVars>>

(* The client sees a complete merge and removes the device.                *)
DeviceGone(h) ==
    /\ thread[h] = "serving" /\ h \notin gone
    /\ merge[h] = "complete" \/ "removed" \in Faults
    /\ gone' = gone \cup {h}
    /\ UNCHANGED <<lists, threads, initiated, merge, monitorVars, serverVars>>

(* RunThread: Start() returns.                                             *)
StartReturns(h) ==
    /\ thread[h] = "serving"
    /\ h \in gone \/ "worker" \in Faults
    /\ thread' = [thread EXCEPT ![h] = "check"]
    /\ Terminated({h})
    /\ UNCHANGED <<lists, detached, freed, mergeCompleted, gone, initiated,
                   monitorVars, serverVars>>

(* It asks whether the merge was initiated, without lock_.                 *)
CheckMergeCompletionStatus(h) ==
    /\ thread[h] = "check"
    /\ mergeCompleted' = [mergeCompleted EXCEPT ![h] = h \in initiated]
    /\ thread' = [thread EXCEPT ![h] = "exit"]
    /\ UNCHANGED <<lists, detached, freed, merges, monitorVars, serverVars>>

CountedAnyhow(h) == TRUE
Counted(h) == mergeCompleted[h]
SlotFreedUnseen == active' = active - 1 /\ UNCHANGED event
SlotFreed == active' = active - 1 /\ WakeupMonitorMergeThread
FreedBeforeErased(found) == UNCHANGED dmUsers
Erased(found) == dmUsers' = dmUsers \ found

(* The last critical section.  A handler that is no more in the list is    *)
(* being joined; one that is leaves it, and nobody will join it.           *)
Exit(h) ==
    /\ thread[h] = "exit"
    /\ IF Counted(h) THEN SlotFreed ELSE UNCHANGED <<active, event>>
    /\ LET found == FindHandler(name[h])
       IN  /\ Erased(found)
           /\ detached' = IF found = {} THEN detached ELSE detached \cup {h}
    /\ freed' = freed \cup {h}
    /\ thread' = [thread EXCEPT ![h] = "done"]
    /\ UNCHANGED <<added, name, mergeCompleted, merges, queue, monitor, stop, serverVars>>

-----------------------------------------------------------------------------
Server ==
    \/ \E n \in Names : AddHandler(n)
    \/ \E h \in Handlers : StartHandler(h) \/ InitiateMerge(h) \/ DeleteHandler(h)
    \/ RemoveAndJoinHandler \/ Join \/ JoinAllThreads \/ JoinMonitor \/ Down

Monitor == MonitorTop \/ MonitorRead \/ MonitorMerge

RunThread(h) == StartReturns(h) \/ CheckMergeCompletionStatus(h) \/ Exit(h)

Next ==
    \/ Server
    \/ Monitor
    \/ \E h \in Handlers : MergeEnds(h) \/ DeviceGone(h) \/ RunThread(h)

(* Every thread goes on, a merge ends, and a client that sees it complete  *)
(* removes the device; no command need ever come.                          *)
Fairness ==
    /\ WF_vars(RemoveAndJoinHandler \/ Join \/ JoinMonitor \/ Down)
    /\ WF_vars(Monitor)
    /\ \A h \in Handlers :
           /\ WF_vars(MergeEnds(h))
           /\ WF_vars(DeviceGone(h) /\ merge[h] = "complete")
           /\ WF_vars(StartReturns(h) /\ h \in gone)
           /\ WF_vars(CheckMergeCompletionStatus(h) \/ Exit(h))

Spec == Init /\ [][Next]_vars
FairSpec == Spec /\ Fairness

-----------------------------------------------------------------------------
TypeOK ==
    /\ added \in 0 .. MaxHandlers
    /\ name \in [Handlers -> Names \cup {"none"}]
    /\ dmUsers \subseteq 1 .. added
    /\ thread \in [Handlers -> {"none", "serving", "check", "exit", "done"}]
    /\ mergeCompleted \in [Handlers -> BOOLEAN]
    /\ {detached, freed, gone, initiated, target} \subseteq SUBSET Handlers
    /\ merge \in [Handlers -> {"none", "complete", "failed"}]
    /\ queue \in Seq(Handlers)
    /\ active \in 0 .. NumMergeThreads
    /\ {event, stop} \subseteq BOOLEAN
    /\ monitor \in {"none", "top", "read", "loop", "done"}
    /\ server \in {"idle", "delete", "join", "joinAll", "joinMonitor", "down"}

(* num_merge_threads: whatever the clients ask for and however handlers    *)
(* end, no more handlers merge at a time than there are slots, and each    *)
(* of them holds one.                                                      *)
Merging == {h \in initiated : thread[h] # "done"}
MergesBounded == Cardinality(Merging) <= active /\ active <= NumMergeThreads

(* "Important: free resources within the lock": a handler that a command   *)
(* finds in the list still has its snapuserd_, which GetMergeStatus and    *)
(* the others use without looking.                                         *)
ListedIsAlive == dmUsers \cap freed = {}

(* RunThread looks for its name, not for itself, in the list: what it      *)
(* takes out is its own entry, and a thread that is joined was not let go. *)
OwnEntry ==
    /\ \A h \in Handlers : thread[h] \in {"serving", "check", "exit"}
          => FindHandler(name[h]) \subseteq {h}
    /\ server \in {"join", "joinAll"} => \A h \in target : h \notin detached

(* The eventfd loses no wakeup: while the monitor sleeps there is nothing  *)
(* it could start.                                                         *)
NoLostWakeup ==
    monitor = "read" /\ ~event => queue = <<>> \/ active = NumMergeThreads

(* A queued merge is started or dropped unless every slot is held by a     *)
(* merge that failed or was lost: to a handler that was asked for twice,   *)
(* or told to merge after it had looked at merge_initiated_.               *)
Lost == active - Cardinality({h \in Merging : merge[h] # "failed"})
QueueGoesOn ==
    \A h \in Handlers :
        (\E i \in 1 .. Len(queue) : queue[i] = h)
            ~> h \in initiated \cup freed \/ Lost >= NumMergeThreads

(* A shutdown or the removal of a handler ends once the devices are gone.  *)
CommandEnds ==
    server \in {"delete", "join", "joinAll", "joinMonitor"} /\ target \subseteq gone
        ~> server \in {"idle", "down"}

=============================================================================
