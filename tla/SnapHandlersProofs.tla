------------------------- MODULE SnapHandlersProofs -------------------------
(***************************************************************************)
(* For any number of handlers, names and merge slots, any queue and any    *)
(* faults: the types of SnapHandlers, the bound on the merges that run,    *)
(* that a handler in the list is alive and is taken out by its own thread  *)
(* or by who joins it, and that the monitor sleeps through no work.        *)
(***************************************************************************)
EXTENDS SnapHandlers, FiniteSetTheorems, TLAPS

(* TypeOK without the bounds of active.                                    *)
Typed ==
    /\ added \in 0 .. MaxHandlers
    /\ name \in [Handlers -> Names \cup {"none"}]
    /\ dmUsers \subseteq 1 .. added
    /\ thread \in [Handlers -> {"none", "serving", "check", "exit", "done"}]
    /\ mergeCompleted \in [Handlers -> BOOLEAN]
    /\ detached \subseteq Handlers /\ freed \subseteq Handlers
    /\ gone \subseteq Handlers /\ initiated \subseteq Handlers
    /\ target \subseteq Handlers
    /\ merge \in [Handlers -> {"none", "complete", "failed"}]
    /\ queue \in Seq(Handlers)
    /\ active \in Int
    /\ event \in BOOLEAN /\ stop \in BOOLEAN
    /\ monitor \in {"none", "top", "read", "loop", "done"}
    /\ server \in {"idle", "delete", "join", "joinAll", "joinMonitor", "down"}

(* What is left of a queue, and whom it told to merge.                     *)
LEMMA TakenFromQueue ==
    ASSUME Typed, NEW k \in 0 .. Len(queue)
    PROVE  /\ SubSeq(queue, k + 1, Len(queue)) \in Seq(Handlers)
           /\ Alive(k) \subseteq 1 .. k
           /\ IsFiniteSet(Alive(k))
           /\ Cardinality(Alive(k)) \in Nat
           /\ {queue[i] : i \in Alive(k)} \subseteq Handlers
           /\ k = Len(queue) => SubSeq(queue, k + 1, Len(queue)) = <<>>
<1>1. Alive(k) \subseteq 1 .. k BY DEF Alive
<1>2. IsFiniteSet(1 .. k) BY FS_Interval
<1>3. IsFiniteSet(Alive(k)) BY <1>1, <1>2, FS_Subset
<1>4. Cardinality(Alive(k)) \in Nat BY <1>3, FS_CardinalityType
<1>5. queue \in Seq(Handlers) BY DEF Typed
<1>6. \A i \in 1 .. k : queue[i] \in Handlers BY <1>5
<1>7. {queue[i] : i \in Alive(k)} \subseteq Handlers BY <1>1, <1>6
<1>8. SubSeq(queue, k + 1, Len(queue)) \in Seq(Handlers) BY <1>5
<1>9. k = Len(queue) => SubSeq(queue, k + 1, Len(queue)) = <<>> BY <1>5
<1> QED BY <1>1, <1>3, <1>4, <1>7, <1>8, <1>9

LEMMA AddedAreHandlers == Typed => 1 .. added \subseteq Handlers /\ added \in Nat
BY ManagerAssumption DEF Typed, Handlers, ManagerAssumption

LEMMA TypedInit == Init => Typed
<1> SUFFICES ASSUME Init PROVE Typed
    OBVIOUS
<1>1. added \in 0 .. MaxHandlers /\ dmUsers \subseteq 1 .. added /\ active \in Int
    BY ManagerAssumption DEF Init, ManagerAssumption
<1>2. /\ name \in [Handlers -> Names \cup {"none"}]
      /\ thread \in [Handlers -> {"none", "serving", "check", "exit", "done"}]
      /\ merge \in [Handlers -> {"none", "complete", "failed"}]
    BY DEF Init
<1>3. mergeCompleted \in [Handlers -> BOOLEAN]
    BY DEF Init
<1>4. /\ detached \subseteq Handlers /\ freed \subseteq Handlers
      /\ gone \subseteq Handlers /\ initiated \subseteq Handlers
      /\ target \subseteq Handlers
    BY DEF Init
<1>5. queue \in Seq(Handlers)
    BY DEF Init
<1>6. event \in BOOLEAN /\ stop \in BOOLEAN
    BY DEF Init
<1>7. /\ monitor \in {"none", "top", "read", "loop", "done"}
      /\ server \in {"idle", "delete", "join", "joinAll", "joinMonitor", "down"}
    BY DEF Init
<1> QED BY <1>1, <1>2, <1>3, <1>4, <1>5, <1>6, <1>7 DEF Typed

LEMMA TypedStep == Typed /\ [Next]_vars => Typed'
<1> SUFFICES ASSUME Typed, [Next]_vars PROVE Typed'
    OBVIOUS
<1>1. ASSUME NEW n \in Names, AddHandler(n) PROVE Typed'
  <2>1. added + 1 \in Handlers /\ added' = added + 1 /\ added' \in 0 .. MaxHandlers
      BY <1>1, ManagerAssumption DEF AddHandler, Typed, Handlers, ManagerAssumption
  <2>2. name' \in [Handlers -> Names \cup {"none"}] BY <1>1, <2>1 DEF AddHandler, Typed
  <2>3. dmUsers' \subseteq 1 .. added' BY <1>1, <2>1 DEF AddHandler, Typed
  <2>4. UNCHANGED <<thread, detached, freed, mergeCompleted, gone, initiated, merge, queue,
                    active, event, monitor, stop, server, target>>
      BY <1>1 DEF AddHandler, threads, merges, monitorVars, serverVars
  <2> QED BY <2>1, <2>2, <2>3, <2>4 DEF Typed
<1>2. ASSUME NEW h \in Handlers, StartHandler(h) PROVE Typed'
    BY <1>2 DEF StartHandler, Typed, lists, merges, monitorVars, serverVars
<1>3. ASSUME NEW h \in Handlers, InitiateMerge(h) PROVE Typed'
  <2>1. queue' \in Seq(Handlers)
      BY <1>3 DEF InitiateMerge, Typed
  <2>2. monitor' \in {"none", "top", "read", "loop", "done"}
      BY <1>3 DEF InitiateMerge, Typed
  <2>3. event' = TRUE
      BY <1>3 DEF InitiateMerge, WakeupMonitorMergeThread
  <2>4. UNCHANGED <<added, name, dmUsers, thread, detached, freed, mergeCompleted, gone,
                    initiated, merge, active, stop, server, target>>
      BY <1>3 DEF InitiateMerge, lists, threads, merges, serverVars
  <2> QED BY <2>1, <2>2, <2>3, <2>4 DEF Typed
<1>4. ASSUME NEW h \in Handlers, DeleteHandler(h) PROVE Typed'
  <2>1. merge' \in [Handlers -> {"none", "complete", "failed"}]
      BY <1>4 DEF DeleteHandler, Terminated, Typed
  <2> QED BY <1>4, <2>1 DEF DeleteHandler, Typed, lists, threads, monitorVars
<1>5. CASE RemoveAndJoinHandler
  <2>1. 1 .. added \subseteq Handlers BY AddedAreHandlers
  <2> QED BY <1>5, <2>1 DEF RemoveAndJoinHandler, Typed, threads, merges, monitorVars
<1>6. CASE Join
    BY <1>6 DEF Join, Typed, lists, threads, merges, monitorVars
<1>7. CASE JoinAllThreads
  <2>1. 1 .. added \subseteq Handlers BY AddedAreHandlers
  <2>2. merge' \in [Handlers -> {"none", "complete", "failed"}]
      BY <1>7 DEF JoinAllThreads, Terminated, Typed
  <2> QED BY <1>7, <2>1, <2>2 DEF JoinAllThreads, Typed, threads, monitorVars
<1>8. CASE JoinMonitor
    BY <1>8 DEF JoinMonitor, Stop, WakeupMonitorMergeThread, Typed, lists, threads, merges
<1>9. CASE Down
    BY <1>9 DEF Down, Typed, lists, threads, merges, monitorVars
<1>10. CASE MonitorTop
    BY <1>10 DEF MonitorTop, Typed, lists, threads, merges, serverVars
<1>11. CASE MonitorRead
    BY <1>11 DEF MonitorRead, Typed, lists, threads, merges, serverVars
<1>12. CASE MonitorMerge
  <2>1. PICK k \in 0 .. Len(queue) :
            /\ initiated' = initiated \cup {queue[i] : i \in Alive(k)}
            /\ active' = active + Cardinality(Alive(k))
            /\ queue' = SubSeq(queue, k + 1, Len(queue))
      BY <1>12 DEF MonitorMerge
  <2>2. queue' \in Seq(Handlers) /\ initiated' \subseteq Handlers /\ active' \in Int
      BY <2>1, TakenFromQueue DEF Typed
  <2> QED BY <1>12, <2>2 DEF MonitorMerge, Typed, lists, threads, serverVars
<1>13. ASSUME NEW h \in Handlers, MergeEnds(h) PROVE Typed'
  <2>1. merge' \in [Handlers -> {"none", "complete", "failed"}]
      BY <1>13 DEF MergeEnds, Typed
  <2> QED BY <1>13, <2>1 DEF MergeEnds, Typed, lists, threads, monitorVars, serverVars
<1>14. ASSUME NEW h \in Handlers, DeviceGone(h) PROVE Typed'
    BY <1>14 DEF DeviceGone, Typed, lists, threads, monitorVars, serverVars
<1>15. ASSUME NEW h \in Handlers, StartReturns(h) PROVE Typed'
  <2>1. merge' \in [Handlers -> {"none", "complete", "failed"}]
      BY <1>15 DEF StartReturns, Terminated, Typed
  <2> QED BY <1>15, <2>1 DEF StartReturns, Typed, lists, monitorVars, serverVars
<1>16. ASSUME NEW h \in Handlers, CheckMergeCompletionStatus(h) PROVE Typed'
    BY <1>16 DEF CheckMergeCompletionStatus, Typed, lists, merges, monitorVars, serverVars
<1>17. ASSUME NEW h \in Handlers, Exit(h) PROVE Typed'
  <2>1. active' \in Int /\ event' \in BOOLEAN
    <3>1. CASE Counted(h)
        BY <1>17, <3>1 DEF Exit, SlotFreed, WakeupMonitorMergeThread, Typed
    <3>2. CASE ~Counted(h)
        BY <1>17, <3>2 DEF Exit, Typed
    <3> QED BY <3>1, <3>2
  <2>2. dmUsers' \subseteq 1 .. added' /\ detached' \subseteq Handlers
      BY <1>17 DEF Exit, Erased, Typed
  <2>3. thread' \in [Handlers -> {"none", "serving", "check", "exit", "done"}]
      BY <1>17 DEF Exit, Typed
  <2> QED BY <1>17, <2>1, <2>2, <2>3 DEF Exit, Typed, merges, serverVars
<1>18. CASE UNCHANGED vars
    BY <1>18 DEF vars, lists, threads, merges, monitorVars, serverVars, Typed
<1> QED BY <1>1, <1>2, <1>3, <1>4, <1>5, <1>6, <1>7, <1>8, <1>9, <1>10, <1>11, <1>12,
           <1>13, <1>14, <1>15, <1>16, <1>17, <1>18 DEF Next, Server, Monitor, RunThread

-----------------------------------------------------------------------------
(* The list and the threads.  Live handlers are in the list, or the server *)
(* is joining them; in the list each name is there once.                   *)

Live == {h \in Handlers : thread[h] \in {"serving", "check", "exit"}}
Joining == server \in {"join", "joinAll"}

Roles ==
    /\ \A h \in Handlers : thread[h] # "none" => h \in 1 .. added
    /\ freed = {h \in Handlers : thread[h] = "done"}
    /\ detached \subseteq freed
    /\ dmUsers \cap freed = {}
    /\ \A g, h \in dmUsers : name[g] = name[h] => g = h
    /\ \A h \in Live : h \in dmUsers \/ (Joining /\ h \in target)
    /\ \A h \in Live, g \in dmUsers : name[g] = name[h] => g = h
    /\ Joining => target \cap dmUsers = {} /\ target \cap detached = {}

LEMMA RolesInit == Init => Roles
BY DEF Init, Roles, Live, Joining, Handlers

LEMMA RolesStep == Typed /\ Roles /\ [Next]_vars => Roles'
<1> SUFFICES ASSUME Typed, Roles, [Next]_vars PROVE Roles'
    OBVIOUS
<1>0. 1 .. added \subseteq Handlers /\ added \in Nat BY AddedAreHandlers
<1>1. ASSUME NEW n \in Names, AddHandler(n) PROVE Roles'
  <2>1. added' = added + 1 /\ dmUsers' = dmUsers \cup {added + 1} /\ added + 1 \in Handlers
        /\ added + 1 \notin 1 .. added /\ 1 .. added \subseteq 1 .. added'
      BY <1>0, <1>1, ManagerAssumption DEF AddHandler, Handlers, ManagerAssumption
  <2>2. \A h \in 1 .. added : name'[h] = name[h]
      BY <1>0, <1>1, <2>1 DEF AddHandler, Typed
  <2>3. name'[added + 1] = n
      BY <1>1, <2>1 DEF AddHandler, Typed
  <2>4. \A h \in dmUsers : name[h] # n /\ h \in 1 .. added
      BY <1>1 DEF AddHandler, FindHandler, Typed
  <2>5. UNCHANGED <<thread, freed, detached, server, target>> /\ ~Joining
      BY <1>1 DEF AddHandler, threads, serverVars, Joining
  <2>6. Live \subseteq dmUsers
      BY <2>5 DEF Roles
  <2>7. thread[added + 1] = "none"
      BY <2>1 DEF Roles
  <2>8. (Live)' \subseteq dmUsers \cap Live
      BY <2>5, <2>6 DEF Live
  <2>9. \A g, h \in dmUsers' : name'[g] = name'[h] => g = h
      BY <2>1, <2>2, <2>3, <2>4 DEF Roles
  <2>10. dmUsers' \cap freed' = {}
      BY <2>1, <2>5, <2>7 DEF Roles
  <2>11. \A h \in (Live)', f \in dmUsers' : name'[f] = name'[h] => f = h
      BY <2>8, <2>9, <2>1 DEF FindHandler
  <2>12. \A h \in Handlers : thread'[h] # "none" => h \in 1 .. added'
      BY <2>1, <2>5 DEF Roles
  <2>13. ~(Joining)' BY <2>5 DEF Joining
  <2> QED BY <2>1, <2>5, <2>8, <2>9, <2>10, <2>11, <2>12, <2>13 DEF Roles, Live
<1>2. ASSUME NEW h \in Handlers, StartHandler(h) PROVE Roles'
  <2>1. UNCHANGED <<added, name, dmUsers, freed, detached, server, target>> /\ ~Joining
      BY <1>2 DEF StartHandler, lists, serverVars, Joining
  <2>2. h \in dmUsers /\ h \in 1 .. added /\ thread[h] = "none"
      BY <1>2 DEF StartHandler, IsAttached, Typed
  <2>3. \A g \in Handlers : thread'[g] = IF g = h THEN "serving" ELSE thread[g]
      BY <1>2 DEF StartHandler, Typed
  <2>4. freed' = {g \in Handlers : thread'[g] = "done"}
      BY <2>1, <2>2, <2>3 DEF Roles
  <2>5. FindHandler(name[h]) \subseteq {h}
      BY <2>2 DEF Roles, FindHandler
  <2>6. (Live)' \subseteq Live \cup {h}
      BY <2>3 DEF Live
  <2>7. (Live)' \subseteq dmUsers'
      BY <2>1, <2>2, <2>6 DEF Roles
  <2>8. \A g \in (Live)', f \in dmUsers' : name'[f] = name'[g] => f = g
      BY <2>1, <2>5, <2>6 DEF Roles, FindHandler
  <2>9. \A g \in Handlers : thread'[g] # "none" => g \in 1 .. added'
      BY <2>1, <2>2, <2>3 DEF Roles
  <2>10. ~(Joining)' BY <2>1 DEF Joining
  <2> QED BY <2>1, <2>4, <2>7, <2>8, <2>9, <2>10 DEF Roles
<1>3. CASE RemoveAndJoinHandler
  <2> DEFINE found == {h \in dmUsers : \E t \in target : name[h] = name[t]}
  <2>1. UNCHANGED <<added, name, thread, freed, detached>> /\ ~Joining
      BY <1>3 DEF RemoveAndJoinHandler, threads, Joining
  <2>2. dmUsers' = dmUsers \ found /\ target' = found
      BY <1>3 DEF RemoveAndJoinHandler
  <2>3. (Joining)' <=> found # {}
      BY <1>3 DEF RemoveAndJoinHandler, Joining
  <2>4. (Live)' = Live
      BY <2>1 DEF Live
  <2>5. \A h \in (Live)' : h \in dmUsers' \/ ((Joining)' /\ h \in target')
      BY <2>1, <2>2, <2>3, <2>4 DEF Roles
  <2>6. \A h \in (Live)', f \in dmUsers' : name'[f] = name'[h] => f = h
      BY <2>1, <2>2, <2>4 DEF Roles, FindHandler
  <2>7. target' \cap dmUsers' = {} /\ target' \cap detached' = {}
      BY <2>1, <2>2 DEF Roles
  <2> QED BY <2>1, <2>2, <2>5, <2>6, <2>7 DEF Roles
<1>4. CASE Join
  <2>1. UNCHANGED <<added, name, dmUsers, thread, freed, detached>> /\ ThreadsEnded
      BY <1>4 DEF Join, lists, threads
  <2>2. Live \subseteq dmUsers
      BY <2>1 DEF Roles, ThreadsEnded, Joinable, IsAttached, Live
  <2>3. ~(Joining)' BY <1>4 DEF Join, Joining
  <2> QED BY <2>1, <2>2, <2>3 DEF Roles, Live, FindHandler
<1>5. CASE JoinAllThreads
  <2>1. UNCHANGED <<added, name, thread, freed, detached>> /\ ~Joining
        /\ target' = dmUsers /\ dmUsers' = {} /\ (Joining)'
      BY <1>5 DEF JoinAllThreads, threads, Joining
  <2> QED BY <2>1 DEF Roles, Live, FindHandler
<1>6. CASE JoinMonitor
  <2>1. UNCHANGED <<added, name, dmUsers, thread, freed, detached>> /\ ThreadsEnded
      BY <1>6 DEF JoinMonitor, lists, threads
  <2>2. Live \subseteq dmUsers
      BY <2>1 DEF Roles, ThreadsEnded, Joinable, IsAttached, Live
  <2>3. ~(Joining)' BY <1>6 DEF JoinMonitor, Joining
  <2> QED BY <2>1, <2>2, <2>3 DEF Roles, Live, FindHandler
<1>7. ASSUME NEW h \in Handlers, Exit(h) PROVE Roles'
  <2>1. UNCHANGED <<added, name, server, target>> /\ freed' = freed \cup {h}
        /\ thread[h] = "exit" /\ h \in Live
      BY <1>7 DEF Exit, serverVars, Live
  <2>2. \A g \in Handlers : thread'[g] = IF g = h THEN "done" ELSE thread[g]
      BY <1>7 DEF Exit, Typed
  <2>3. FindHandler(name[h]) \subseteq {h} /\ FindHandler(name[h]) \subseteq dmUsers
      BY <2>1 DEF Roles, FindHandler
  <2>4. dmUsers' = dmUsers \ {h}
      BY <1>7, <2>3 DEF Exit, Erased, FindHandler
  <2>5. detached' \subseteq detached \cup {h}
        /\ (h \notin dmUsers => detached' = detached)
      BY <1>7, <2>3 DEF Exit
  <2>6. freed' = {g \in Handlers : thread'[g] = "done"}
      BY <2>1, <2>2 DEF Roles
  <2>7. (Live)' \subseteq Live \ {h}
      BY <2>2 DEF Live
  <2>8. (Joining)' = Joining BY <2>1 DEF Joining
  <2>9. \A g \in (Live)' : g \in dmUsers' \/ ((Joining)' /\ g \in target')
      BY <2>1, <2>4, <2>7, <2>8 DEF Roles
  <2>10. \A g \in (Live)', f \in dmUsers' : name'[f] = name'[g] => f = g
      BY <2>1, <2>4, <2>7 DEF Roles, FindHandler
  <2>11. Joining => target' \cap dmUsers' = {} /\ target' \cap detached' = {}
      BY <2>1, <2>4, <2>5 DEF Roles
  <2>12. dmUsers' \cap freed' = {} /\ detached' \subseteq freed'
      BY <2>1, <2>4, <2>5 DEF Roles
  <2>13. \A g \in Handlers : thread'[g] # "none" => g \in 1 .. added'
      BY <2>1, <2>2 DEF Roles
  <2>14. \A f, g \in dmUsers' : name'[f] = name'[g] => f = g
      BY <2>1, <2>4 DEF Roles
  <2> QED BY <2>6, <2>8, <2>9, <2>10, <2>11, <2>12, <2>13, <2>14 DEF Roles
<1>8. ASSUME NEW h \in Handlers, StartReturns(h) \/ CheckMergeCompletionStatus(h)
      PROVE  Roles'
  <2>1. UNCHANGED <<added, name, dmUsers, freed, detached, server, target>>
      BY <1>8 DEF StartReturns, CheckMergeCompletionStatus, lists, serverVars
  <2>2. \A g \in Handlers : thread'[g] = thread[g]
            \/ (thread[g] \in {"serving", "check"} /\ thread'[g] \in {"check", "exit"})
      BY <1>8 DEF StartReturns, CheckMergeCompletionStatus, Typed
  <2>3. freed' = {g \in Handlers : thread'[g] = "done"}
      BY <2>1, <2>2 DEF Roles
  <2>4. (Live)' = Live
      BY <2>2 DEF Live
  <2>5. \A g \in Handlers : thread'[g] # "none" => g \in 1 .. added'
      BY <2>1, <2>2 DEF Roles
  <2> QED BY <2>1, <2>3, <2>4, <2>5 DEF Roles, FindHandler, Joining
<1>9. CASE UNCHANGED <<lists, thread, detached, freed>> /\ ~(Joining)' /\ ~Joining
    BY <1>9 DEF lists, Roles, Live, FindHandler
<1>10. CASE UNCHANGED <<lists, thread, detached, freed, serverVars>>
    BY <1>10 DEF lists, serverVars, Roles, Live, FindHandler, Joining
<1>11. ASSUME NEW h \in Handlers, InitiateMerge(h) PROVE Roles'
    BY <1>11, <1>10 DEF InitiateMerge, threads
<1>12. ASSUME NEW h \in Handlers, DeleteHandler(h) PROVE Roles'
    BY <1>12, <1>9 DEF DeleteHandler, threads, Joining
<1>13. CASE Down BY <1>13, <1>9 DEF Down, threads, Joining
<1>14. CASE MonitorTop BY <1>14, <1>10 DEF MonitorTop, threads
<1>15. CASE MonitorRead BY <1>15, <1>10 DEF MonitorRead, threads
<1>16. CASE MonitorMerge BY <1>16, <1>10 DEF MonitorMerge, threads
<1>17. ASSUME NEW h \in Handlers, MergeEnds(h) \/ DeviceGone(h) PROVE Roles'
    BY <1>17, <1>10 DEF MergeEnds, DeviceGone, threads
<1>18. CASE UNCHANGED vars BY <1>18, <1>10 DEF vars, threads
<1> QED BY <1>1, <1>2, <1>3, <1>4, <1>5, <1>6, <1>7, <1>8, <1>11, <1>12, <1>13, <1>14,
           <1>15, <1>16, <1>17, <1>18 DEF Next, Server, Monitor, RunThread

-----------------------------------------------------------------------------
(* The slots.                                                              *)

Slots ==
    /\ \A h \in Handlers : thread[h] = "exit" /\ mergeCompleted[h] => h \in initiated
    /\ MergesBounded

LEMMA MergingFinite ==
    ASSUME Typed
    PROVE  Merging \subseteq Handlers /\ IsFiniteSet(Merging) /\ Cardinality(Merging) \in Nat
<1>1. Merging \subseteq Handlers BY DEF Merging, Typed
<1>2. IsFiniteSet(Handlers) BY ManagerAssumption, FS_Interval DEF Handlers, ManagerAssumption
<1>3. IsFiniteSet(Merging) BY <1>1, <1>2, FS_Subset
<1> QED BY <1>1, <1>3, FS_CardinalityType

LEMMA SlotsInit == Init => Slots
<1> SUFFICES ASSUME Init PROVE Slots
    OBVIOUS
<1>1. Merging = {} BY DEF Init, Merging
<1>2. Cardinality(Merging) = 0 BY <1>1, FS_EmptySet
<1> QED BY <1>2, ManagerAssumption DEF Init, Slots, MergesBounded, ManagerAssumption

LEMMA SlotsStep == Typed /\ Slots /\ [Next]_vars => Slots'
<1> SUFFICES ASSUME Typed, Slots, [Next]_vars PROVE Slots'
    OBVIOUS
<1>1. CASE UNCHANGED <<thread, mergeCompleted, initiated, active>>
    BY <1>1 DEF Slots, MergesBounded, Merging
<1>2. ASSUME NEW h \in Handlers, NEW pc \in {"serving", "check"}, thread[h] # "done",
             thread' = [thread EXCEPT ![h] = pc],
             UNCHANGED <<mergeCompleted, initiated, active>>
      PROVE  Slots'
  <2>1. Merging' = Merging BY <1>2 DEF Merging, Typed
  <2> QED BY <1>2, <2>1 DEF Slots, MergesBounded, Typed
<1>3. ASSUME NEW h \in Handlers, StartHandler(h) PROVE Slots'
    BY <1>2, <1>3 DEF StartHandler, IsAttached, merges, monitorVars
<1>4. ASSUME NEW h \in Handlers, StartReturns(h) PROVE Slots'
    BY <1>2, <1>4 DEF StartReturns, monitorVars
<1>5. ASSUME NEW h \in Handlers, CheckMergeCompletionStatus(h) PROVE Slots'
  <2>1. Merging' = Merging
      BY <1>5 DEF CheckMergeCompletionStatus, Merging, merges, Typed
  <2> QED BY <1>5, <2>1
          DEF CheckMergeCompletionStatus, Slots, MergesBounded, merges, monitorVars, Typed
<1>6. CASE MonitorMerge
  <2>1. PICK k \in 0 .. Len(queue) :
            /\ \A j \in 0 .. k - 1 : RoomFor(Cardinality(Alive(j)))
            /\ initiated' = initiated \cup {queue[i] : i \in Alive(k)}
            /\ active' = active + Cardinality(Alive(k))
      BY <1>6 DEF MonitorMerge
  <2> DEFINE told == {queue[i] : i \in Alive(k)}
  <2>2. IsFiniteSet(Alive(k)) /\ Cardinality(Alive(k)) \in Nat
      BY TakenFromQueue
  <2>3. IsFiniteSet(told) /\ Cardinality(told) <= Cardinality(Alive(k))
        /\ Cardinality(told) \in Nat
    <3> DEFINE f == [i \in Alive(k) |-> queue[i]]
    <3>1. f \in Surjection(Alive(k), told) BY DEF Surjection
    <3> HIDE DEF f
    <3>2. IsFiniteSet(told) /\ Cardinality(told) <= Cardinality(Alive(k))
        BY <2>2, <3>1, FS_Surjection
    <3> QED BY <3>2, FS_CardinalityType
  <2>4. Merging' \subseteq Merging \cup told
      BY <1>6, <2>1 DEF MonitorMerge, Merging, threads
  <2> HIDE DEF told
  <2>5. /\ Cardinality(Merging') <= Cardinality(Merging) + Cardinality(told)
        /\ Cardinality(Merging) \in Nat /\ Cardinality(Merging') \in Nat
    <3>1. IsFiniteSet(Merging \cup told)
          /\ Cardinality(Merging \cup told)
               = Cardinality(Merging) + Cardinality(told) - Cardinality(Merging \cap told)
        BY <2>3, MergingFinite, FS_Union
    <3>2. IsFiniteSet(Merging') /\ Cardinality(Merging') <= Cardinality(Merging \cup told)
        BY <2>4, <3>1, FS_Subset
    <3>3. Cardinality(Merging \cap told) \in Nat
        BY MergingFinite, FS_Intersection, FS_CardinalityType
    <3>4. Cardinality(Merging) \in Nat /\ Cardinality(Merging') \in Nat
          /\ Cardinality(Merging \cup told) \in Nat
        BY <3>1, <3>2, MergingFinite, FS_CardinalityType
    <3> QED BY <2>3, <3>1, <3>2, <3>3, <3>4
  <2>6. active' <= NumMergeThreads
    <3>1. CASE k = 0
      <4>1. Alive(k) = {} BY <3>1, <2>2 DEF Alive
      <4>2. Cardinality(Alive(k)) = 0 BY <4>1, FS_EmptySet
      <4> QED BY <2>1, <4>2 DEF Slots, MergesBounded, Typed
    <3>2. CASE k # 0
      <4>1. k - 1 \in 0 .. Len(queue) /\ k - 1 \in 0 .. k - 1 BY <3>2 DEF Typed
      <4>2. IsFiniteSet(Alive(k - 1)) /\ Cardinality(Alive(k - 1)) \in Nat
          BY <4>1, TakenFromQueue
      <4>3. active + Cardinality(Alive(k - 1)) < NumMergeThreads
          BY <2>1, <4>1 DEF RoomFor
      <4>4. Alive(k) \subseteq Alive(k - 1) \cup {k} BY DEF Alive
      <4> DEFINE before == Alive(k - 1)
      <4> HIDE DEF before
      <4>5. IsFiniteSet(before \cup {k}) /\ Cardinality(before \cup {k}) <= Cardinality(before) + 1
        <5>1. IsFiniteSet(before) /\ Cardinality(before) \in Nat BY <4>2 DEF before
        <5>2. IsFiniteSet(before \cup {k})
              /\ (Cardinality(before \cup {k}) = Cardinality(before)
                  \/ Cardinality(before \cup {k}) = Cardinality(before) + 1)
            BY <5>1, FS_AddElement
        <5> QED BY <5>1, <5>2
      <4>6. Cardinality(before \cup {k}) \in Nat BY <4>5, FS_CardinalityType
      <4>7. Alive(k) \subseteq before \cup {k} BY <4>4 DEF before
      <4>8. Cardinality(Alive(k)) <= Cardinality(before \cup {k})
          BY <4>5, <4>7, FS_Subset
      <4>9. Cardinality(before) \in Nat /\ active + Cardinality(before) < NumMergeThreads
          BY <4>2, <4>3 DEF before
      <4> QED BY <2>1, <2>2, <4>5, <4>6, <4>8, <4>9, ManagerAssumption
              DEF Typed, ManagerAssumption
    <3> QED BY <3>1, <3>2
  <2>7. Cardinality(Merging') <= active'
      BY <2>1, <2>2, <2>3, <2>5 DEF Slots, MergesBounded, Typed
  <2> QED BY <1>6, <2>1, <2>6, <2>7 DEF MonitorMerge, Slots, MergesBounded, threads
<1>7. ASSUME NEW h \in Handlers, Exit(h) PROVE Slots'
  <2>1. UNCHANGED <<mergeCompleted, initiated>> /\ thread[h] = "exit"
        /\ \A g \in Handlers : thread'[g] = IF g = h THEN "done" ELSE thread[g]
      BY <1>7 DEF Exit, merges, Typed
  <2>2. Merging' = Merging \ {h} BY <2>1 DEF Merging, Typed
  <2>3. Cardinality(Merging') = IF h \in Merging THEN Cardinality(Merging) - 1
                                ELSE Cardinality(Merging)
      BY <2>2, MergingFinite, FS_RemoveElement
  <2>4. Cardinality(Merging) \in Nat BY MergingFinite
  <2>5. CASE mergeCompleted[h]
    <3>1. h \in Merging BY <2>1, <2>5 DEF Slots, Merging
    <3>2. active' = active - 1 BY <1>7, <2>5 DEF Exit, Counted, SlotFreed
    <3> QED BY <2>1, <2>3, <2>4, <3>1, <3>2, ManagerAssumption
            DEF Slots, MergesBounded, Typed, ManagerAssumption
  <2>6. CASE ~mergeCompleted[h]
    <3>1. active' = active BY <1>7, <2>6 DEF Exit, Counted
    <3> QED BY <2>1, <2>3, <2>4, <3>1 DEF Slots, MergesBounded, Typed
  <2> QED BY <2>5, <2>6
<1>8. ASSUME NEW n \in Names, AddHandler(n) PROVE Slots'
    BY <1>1, <1>8 DEF AddHandler, threads, merges, monitorVars
<1>9. ASSUME NEW h \in Handlers, InitiateMerge(h) PROVE Slots'
    BY <1>1, <1>9 DEF InitiateMerge, threads, merges
<1>10. ASSUME NEW h \in Handlers, DeleteHandler(h) PROVE Slots'
    BY <1>1, <1>10 DEF DeleteHandler, threads, monitorVars
<1>11. CASE RemoveAndJoinHandler
    BY <1>1, <1>11 DEF RemoveAndJoinHandler, threads, merges, monitorVars
<1>12. CASE Join BY <1>1, <1>12 DEF Join, threads, merges, monitorVars
<1>13. CASE JoinAllThreads BY <1>1, <1>13 DEF JoinAllThreads, threads, merges, monitorVars
<1>14. CASE JoinMonitor BY <1>1, <1>14 DEF JoinMonitor, threads, merges
<1>15. CASE Down BY <1>1, <1>15 DEF Down, threads, merges, monitorVars
<1>16. CASE MonitorTop BY <1>1, <1>16 DEF MonitorTop, threads, merges
<1>17. CASE MonitorRead BY <1>1, <1>17 DEF MonitorRead, threads, merges
<1>18. ASSUME NEW h \in Handlers, MergeEnds(h) \/ DeviceGone(h) PROVE Slots'
    BY <1>1, <1>18 DEF MergeEnds, DeviceGone, threads, monitorVars
<1>19. CASE UNCHANGED vars BY <1>1, <1>19 DEF vars, threads, merges, monitorVars
<1> QED BY <1>3, <1>4, <1>5, <1>6, <1>7, <1>8, <1>9, <1>10, <1>11, <1>12, <1>13, <1>14,
           <1>15, <1>16, <1>17, <1>18, <1>19 DEF Next, Server, Monitor, RunThread

-----------------------------------------------------------------------------
(* The wakeups.                                                            *)

Awake ==
    /\ monitor = "none" => queue = <<>>
    /\ monitor \in {"top", "read"} /\ ~event => queue = <<>> \/ active >= NumMergeThreads

LEMMA AwakeInit == Init => Awake
BY DEF Init, Awake

LEMMA AwakeStep == Typed /\ Awake /\ [Next]_vars => Awake'
<1> SUFFICES ASSUME Typed, Awake, [Next]_vars PROVE Awake'
    OBVIOUS
<1>1. CASE UNCHANGED monitorVars
    BY <1>1 DEF monitorVars, Awake
<1>2. ASSUME NEW h \in Handlers, InitiateMerge(h) PROVE Awake'
    BY <1>2 DEF InitiateMerge, WakeupMonitorMergeThread, Awake
<1>3. CASE JoinMonitor
    BY <1>3 DEF JoinMonitor, Stop, WakeupMonitorMergeThread, Awake
<1>4. CASE MonitorTop BY <1>4 DEF MonitorTop, Awake
<1>5. CASE MonitorRead BY <1>5 DEF MonitorRead, Awake
<1>6. CASE MonitorMerge
  <2>1. PICK k \in 0 .. Len(queue) :
            /\ k = Len(queue) \/ ~RoomFor(Cardinality(Alive(k)))
            /\ active' = active + Cardinality(Alive(k))
            /\ queue' = SubSeq(queue, k + 1, Len(queue))
      BY <1>6 DEF MonitorMerge
  <2>2. CASE k = Len(queue)
    <3>1. queue' = <<>> BY <2>1, <2>2, TakenFromQueue
    <3> QED BY <3>1 DEF Awake
  <2>3. CASE ~RoomFor(Cardinality(Alive(k)))
    <3>1. active' >= NumMergeThreads
        BY <2>1, <2>3, TakenFromQueue, ManagerAssumption DEF RoomFor, Typed, ManagerAssumption
    <3> QED BY <1>6, <3>1 DEF MonitorMerge, Awake
  <2> QED BY <2>1, <2>2, <2>3
<1>7. ASSUME NEW h \in Handlers, Exit(h) PROVE Awake'
    BY <1>7 DEF Exit, SlotFreed, WakeupMonitorMergeThread, Awake
<1>8. ASSUME NEW n \in Names, AddHandler(n) PROVE Awake'
    BY <1>1, <1>8 DEF AddHandler
<1>9. ASSUME NEW h \in Handlers, StartHandler(h) \/ DeleteHandler(h) PROVE Awake'
    BY <1>1, <1>9 DEF StartHandler, DeleteHandler
<1>10. CASE RemoveAndJoinHandler \/ Join \/ JoinAllThreads \/ Down
    BY <1>1, <1>10 DEF RemoveAndJoinHandler, Join, JoinAllThreads, Down
<1>11. ASSUME NEW h \in Handlers,
              MergeEnds(h) \/ DeviceGone(h) \/ StartReturns(h) \/ CheckMergeCompletionStatus(h)
       PROVE  Awake'
    BY <1>1, <1>11 DEF MergeEnds, DeviceGone, StartReturns, CheckMergeCompletionStatus
<1>12. CASE UNCHANGED vars BY <1>1, <1>12 DEF vars
<1> QED BY <1>2, <1>3, <1>4, <1>5, <1>6, <1>7, <1>8, <1>9, <1>10, <1>11, <1>12
        DEF Next, Server, Monitor, RunThread

-----------------------------------------------------------------------------
LEMMA HandlersInvariant == Spec => [](Typed /\ Roles /\ Slots /\ Awake)
<1>1. Init => Typed /\ Roles /\ Slots /\ Awake
    BY TypedInit, RolesInit, SlotsInit, AwakeInit
<1>2. Typed /\ Roles /\ Slots /\ Awake /\ [Next]_vars
        => Typed' /\ Roles' /\ Slots' /\ Awake'
    BY TypedStep, RolesStep, SlotsStep, AwakeStep
<1> QED BY <1>1, <1>2, PTL DEF Spec

(* SnapHandlers keeps its types; in particular active_merge_threads_ never *)
(* becomes negative and never exceeds the slots.                           *)
THEOREM HandlersTypeCorrect == Spec => []TypeOK
<1>1. Typed /\ Slots => TypeOK
  <2> SUFFICES ASSUME Typed, Slots PROVE TypeOK
      OBVIOUS
  <2>1. active \in 0 .. NumMergeThreads
      BY MergingFinite, ManagerAssumption DEF Slots, MergesBounded, Typed, ManagerAssumption
  <2> QED BY <2>1 DEF Typed, TypeOK
<1> QED BY <1>1, HandlersInvariant, PTL

(* However clients ask and handlers end, no more handlers merge at a time  *)
(* than there are slots.                                                   *)
THEOREM NeverTooManyMerges == Spec => []MergesBounded
<1>1. Slots => MergesBounded BY DEF Slots
<1> QED BY <1>1, HandlersInvariant, PTL

(* A handler a command finds in the list has its snapuserd_.               *)
THEOREM ListedHandlersAlive == Spec => []ListedIsAlive
<1>1. Roles => ListedIsAlive BY DEF Roles, ListedIsAlive
<1> QED BY <1>1, HandlersInvariant, PTL

(* A thread that ends takes out its own entry, and a thread that is joined *)
(* was not detached.                                                       *)
THEOREM ThreadsKeepToOwnEntry == Spec => []OwnEntry
<1>1. Roles => OwnEntry
    BY DEF Roles, OwnEntry, Live, Joining, FindHandler
<1> QED BY <1>1, HandlersInvariant, PTL

(* The monitor never sleeps over a merge it could start.                   *)
THEOREM MonitorMissesNoWakeup == Spec => []NoLostWakeup
<1>1. Typed /\ Slots /\ Awake => NoLostWakeup
    BY ManagerAssumption DEF Slots, MergesBounded, Typed, Awake, NoLostWakeup, ManagerAssumption
<1> QED BY <1>1, HandlersInvariant, PTL

=============================================================================
