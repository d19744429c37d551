----------------------------- MODULE PoolProofs -----------------------------
(***************************************************************************)
(* What holds of the warm pool for every value of its constants, beyond    *)
(* AssignmentProofs: the life of an instance from its provisioning to its  *)
(* removal, and the properties of the store that follow from it.           *)
(*                                                                         *)
(* The first part says once what a step of each kind does, variable by     *)
(* variable; the invariants after it are proved from those facts.          *)
(***************************************************************************)
EXTENDS AssignmentProofs, FiniteSetTheorems

-----------------------------------------------------------------------------
(* What one step of a process does to the processes.                       *)

\* The other processes notice nothing of a step of p.
Frame(p) ==
  \A q \in Proc \ {p} :
    /\ pc'[q] = pc[q] /\ job'[q] = job[q] /\ inst'[q] = inst[q] /\ read'[q] = read[q]
    /\ q \in ctxDone' <=> q \in ctxDone

\* p works on with the same instance, in the same context.
Keeps(p) == job'[p] = job[p] /\ (p \in ctxDone' <=> p \in ctxDone)

\* p is done with its instance.
Leaves(p) ==
  /\ pc'[p] \in {"idle", "llen", "select", "list", "sweep"}
  /\ job'[p] = None
  /\ ctxDone' \subseteq ctxDone

LEMMA SendDoes ==
  ASSUME ProcTypeOK, NEW p \in Proc, NEW l, Send(p, l)
  PROVE  Frame(p) /\ Keeps(p) /\ pc'[p] = l /\ inst'[p] = inst[p] /\ read'[p] = read[p]
  BY DEF ProcTypeOK, Send, Goto, locals, Frame, Keeps

LEMMA InstDoes ==
  ASSUME ProcTypeOK, NEW p \in Proc, NEW l, NEW r, Goto(p, l), inst' = [inst EXCEPT ![p] = r],
         UNCHANGED <<job, read, ctxDone>>
  PROVE  Frame(p) /\ Keeps(p) /\ pc'[p] = l /\ inst'[p] = r /\ read'[p] = read[p]
  BY DEF ProcTypeOK, Goto, Frame, Keeps

LEMMA ReadDoes ==
  ASSUME ProcTypeOK, NEW p \in Proc, NEW l, NEW r, Goto(p, l), read' = [read EXCEPT ![p] = r],
         UNCHANGED <<job, inst, ctxDone>>
  PROVE  Frame(p) /\ Keeps(p) /\ pc'[p] = l /\ inst'[p] = inst[p] /\ read'[p] = r
  BY DEF ProcTypeOK, Goto, Frame, Keeps

LEMMA EndDoes ==
  ASSUME ProcTypeOK, NEW p \in Proc, End(p)
  PROVE  Frame(p) /\ Leaves(p) /\ pc'[p] = "idle"
  BY DEF ProcTypeOK, End, Goto, Drop, Frame, Leaves

LEMMA ReleasedDoes ==
  ASSUME ProcTypeOK, NEW p \in Proc, Released(p)
  PROVE  Frame(p) /\ Leaves(p)
  BY DEF ProcTypeOK, Released, End, Goto, Drop, Frame, Leaves

LEMMA ProvisionOverDoes ==
  ASSUME ProcTypeOK, NEW p \in Proc, ProvisionFailed(p) \/ Provisioned(p)
  PROVE  /\ Frame(p) /\ Leaves(p) /\ UNCHANGED <<mode, listed, expired>>
         /\ p # Loop => seenReady' = seenReady
         /\ p = Loop => pc'[p] = "llen" \/ Loop \notin ctxDone'
  BY DEF ProcTypeOK, ProvisionFailed, Provisioned, Replenished, End, Goto, Drop, Frame, Leaves,
         loop, sweep

-----------------------------------------------------------------------------
(* Release.                                                                *)

LEMMA ReleaseLocals ==
  ASSUME IndType, NEW p \in Proc, Release(p)
  PROVE  /\ Frame(p) /\ pc[p] \in ReleaseLabel
         /\ UNCHANGED <<poolReady, loop, replenishCh, client>>
         /\ \/ Leaves(p)
            \/ /\ Keeps(p) /\ pc'[p] \in ReleaseLabel \ {"rGet"}
               /\ pc[p] = "rGet" => inst'[p] = record[job[p]] /\ record[job[p]] # None
               /\ pc[p] # "rGet" => inst'[p] = inst[p]
               /\ pc'[p] = "dSRem" => read'[p] = record[job[p]] /\ record[job[p]] # None
               /\ pc'[p] = "dDel" => pc[p] = "dSRem"
<1>0. ProcTypeOK
  BY DEF IndType, TypeOK
<1>1. pc[p] \in ReleaseLabel /\ UNCHANGED <<poolReady, loop, replenishCh, client>>
  BY DEF Release, GetForRelease, RemoveRoute, DropPrefixedTables, Stop, StopContainer, UntrackPort,
         ReturnPort, GetForDelete, RemoveFromStateSet, DeleteRecord, Attempt, RuntimeCall, Call, Query,
         SUntrackPort, SReturnPort, SRemState, Del, Set, store, At, ReleaseLabel
<1>2. CASE Released(p)
  BY <1>0, <1>1, <1>2, ReleasedDoes
<1>3. CASE GetForRelease(p)
  BY <1>0, <1>1, <1>2, <1>3, InstDoes DEF GetForRelease, Query, At, ReleaseLabel
<1>4. CASE GetForDelete(p)
  <2>1. CASE Goto(p, "dSRem") /\ read' = [read EXCEPT ![p] = record[job[p]]] /\ UNCHANGED <<job, inst, ctxDone>>
             /\ record[job[p]] # None
    <3>1. Frame(p) /\ Keeps(p) /\ pc'[p] = "dSRem" /\ inst'[p] = inst[p] /\ read'[p] = record[job[p]]
      BY <1>0, <2>1, ReadDoes
    <3>2. pc[p] = "dGet"
      BY <1>4 DEF GetForDelete, At
    <3> QED
      BY <1>1, <2>1, <3>1, <3>2 DEF ReleaseLabel
  <2> QED
    BY <1>2, <1>4, <2>1 DEF GetForDelete, Query
<1>5. CASE RemoveRoute(p) \/ DropPrefixedTables(p) \/ Stop(p) \/ UntrackPort(p) \/ ReturnPort(p)
           \/ RemoveFromStateSet(p) \/ DeleteRecord(p)
  <2>1. \/ Released(p)
        \/ \E l \in {"rDrop", "rStop", "rUntrack", "rReturn", "dGet", "dDel"} :
             Send(p, l) /\ pc[p] # "rGet" /\ (l = "dDel" => pc[p] = "dSRem")
    BY <1>5 DEF RemoveRoute, DropPrefixedTables, Stop, UntrackPort, ReturnPort, RemoveFromStateSet,
                DeleteRecord, Attempt, RuntimeCall, Call, At
  <2> QED
    BY <1>0, <1>1, <1>2, <2>1, SendDoes DEF ReleaseLabel
<1> QED
  BY <1>3, <1>4, <1>5 DEF Release

LEMMA ReleaseEffects ==
  ASSUME IndType, NEW p \in Proc, Release(p)
  PROVE  /\ \A i \in Id : record'[i] = record[i] \/ (pc[p] = "dDel" /\ i = job[p] /\ record'[i] = None)
         /\ \A s \in State : stateSet'[s] \subseteq stateSet[s]
         /\ \A s \in State : \A i \in stateSet[s] :
              i \in stateSet'[s] \/ (pc[p] = "dSRem" /\ i = job[p] /\ s = read[p].state)
         /\ \A i \in Id : routes'[i] = routes[i] \/ (pc[p] = "rRoute" /\ i = job[p] /\ routes'[i] = None)
         /\ \A i \in Id : running'[i] = running[i] \/ (pc[p] = "rStop" /\ i = job[p] /\ running'[i] = None)
         /\ \/ portsAvailable' = portsAvailable
            \/ pc[p] = "rReturn" /\ portsAvailable' = portsAvailable \cup {inst[p].port}
<1> USE DEF Release, GetForRelease, RemoveRoute, DropPrefixedTables, Stop, StopContainer, UntrackPort,
            ReturnPort, GetForDelete, RemoveFromStateSet, DeleteRecord, Attempt, RuntimeCall, Call, Query,
            SUntrackPort, SReturnPort, SRemState, Del, Set, store, outside, At
<1>1. StoreTypeOK /\ OutsideTypeOK
  BY DEF IndType, TypeOK
<1>2. \A i \in Id : record'[i] = record[i] \/ (pc[p] = "dDel" /\ i = job[p] /\ record'[i] = None)
  BY <1>1 DEF StoreTypeOK
<1>3. /\ \A s \in State : stateSet'[s] \subseteq stateSet[s]
      /\ \A s \in State : \A i \in stateSet[s] :
           i \in stateSet'[s] \/ (pc[p] = "dSRem" /\ i = job[p] /\ s = read[p].state)
  BY <1>1 DEF StoreTypeOK
<1>4. \A i \in Id : routes'[i] = routes[i] \/ (pc[p] = "rRoute" /\ i = job[p] /\ routes'[i] = None)
  BY <1>1 DEF OutsideTypeOK
<1>5. \A i \in Id : running'[i] = running[i] \/ (pc[p] = "rStop" /\ i = job[p] /\ running'[i] = None)
  BY <1>1 DEF OutsideTypeOK
<1>6. \/ portsAvailable' = portsAvailable
      \/ pc[p] = "rReturn" /\ portsAvailable' = portsAvailable \cup {inst[p].port}
  OBVIOUS
<1> QED
  BY <1>2, <1>3, <1>4, <1>5, <1>6

-----------------------------------------------------------------------------
(* Acquire after the pop.                                                  *)

Served(a) ==
  GetForTTL(a) \/ SetTTL(a) \/ AddRoute(a) \/ Signal(a) \/ SaveUserIP(a) \/ SaveUserIPIndex(a)

LEMMA RespondDoes ==
  ASSUME ProcTypeOK, NEW a \in Proc, Respond(a)
  PROVE  /\ Frame(a) /\ Leaves(a) /\ pc'[a] = "idle" /\ elapsed' = elapsed
         /\ handed \subseteq handed' /\ handed' \subseteq handed \cup {job[a]}
  BY EndDoes DEF Respond

\* In Served, a goes on with its instance, which keeps state and port in memory ...
ServesOn(a) ==
  /\ Keeps(a) /\ UNCHANGED client
  /\ inst'[a] = inst[a] \/ (pc[a] = "ttlSet" /\ inst'[a] = [inst[a] EXCEPT !.expires = TRUE])
  /\ \/ pc'[a] = "rGet"
     \/ pc[a] = "ttlGet" /\ pc'[a] = "ttlSet" /\ record[job[a]] # None /\ read'[a] = record[job[a]]
     \/ pc[a] = "ttlSet" /\ pc'[a] = "route" /\ inst'[a] = [inst[a] EXCEPT !.expires = TRUE]
     \/ pc[a] = "route" /\ pc'[a] = "signal"
     \/ pc[a] = "signal" /\ pc'[a] = "save"
     \/ pc[a] = "save" /\ pc'[a] = "saveAdd"

\* ... or answers its client.
Answers(a) ==
  /\ Leaves(a) /\ pc[a] \in {"save", "saveAdd"} /\ pc'[a] = "idle" /\ elapsed' = elapsed
  /\ handed \subseteq handed' /\ handed' \subseteq handed \cup {job[a]}

LEMMA ServedLocals ==
  ASSUME IndType, NEW a \in Proc, Served(a)
  PROVE  /\ Frame(a) /\ pc[a] \in AcquireLabel /\ UNCHANGED <<poolReady, loop>>
         /\ replenishCh' = replenishCh \/ replenishCh' = TRUE
         /\ pc[a] = "signal" => replenishCh' = TRUE
         /\ ServesOn(a) \/ Answers(a)
<1>0. ProcTypeOK
  BY DEF IndType, TypeOK
<1>1. /\ pc[a] \in AcquireLabel /\ UNCHANGED <<poolReady, loop>>
      /\ replenishCh' = replenishCh \/ replenishCh' = TRUE
      /\ pc[a] = "signal" => replenishCh' = TRUE
  BY DEF Served, GetForTTL, SetTTL, AddRoute, Signal, SaveUserIP, SaveUserIPIndex, Call, Query, Set,
         SAddState, store, At, AcquireLabel
<1>2. CASE Send(a, "rGet") /\ UNCHANGED client
  BY <1>0, <1>1, <1>2, SendDoes DEF ServesOn
<1>3. CASE Respond(a) /\ pc[a] \in {"save", "saveAdd"}
  BY <1>0, <1>1, <1>3, RespondDoes DEF Answers
<1>4. CASE GetForTTL(a)
  <2>1. CASE /\ Goto(a, "ttlSet") /\ read' = [read EXCEPT ![a] = record[job[a]]]
             /\ UNCHANGED <<job, inst, ctxDone>> /\ record[job[a]] # None
    <3>1. Frame(a) /\ Keeps(a) /\ pc'[a] = "ttlSet" /\ inst'[a] = inst[a] /\ read'[a] = record[job[a]]
      BY <1>0, <2>1, ReadDoes
    <3>2. pc[a] = "ttlGet" /\ UNCHANGED client
      BY <1>4 DEF GetForTTL, At
    <3> QED
      BY <1>1, <2>1, <3>1, <3>2 DEF ServesOn
  <2> QED
    BY <1>2, <1>4, <2>1 DEF GetForTTL, Query
<1>5. CASE SetTTL(a)
  <2>1. CASE /\ Goto(a, "route") /\ inst' = [inst EXCEPT ![a] = [@ EXCEPT !.expires = TRUE]]
             /\ UNCHANGED <<job, read, ctxDone>>
    <3>0. inst' = [inst EXCEPT ![a] = [inst[a] EXCEPT !.expires = TRUE]]
      BY <1>0, <2>1 DEF ProcTypeOK
    <3>1. Frame(a) /\ Keeps(a) /\ pc'[a] = "route" /\ inst'[a] = [inst[a] EXCEPT !.expires = TRUE]
      BY <1>0, <2>1, <3>0, InstDoes
    <3>2. pc[a] = "ttlSet" /\ UNCHANGED client
      BY <1>5 DEF SetTTL, At
    <3> QED
      BY <1>1, <3>1, <3>2 DEF ServesOn
  <2> QED
    BY <1>2, <1>5, <2>1 DEF SetTTL, Call
<1>6. CASE AddRoute(a)
  BY <1>0, <1>1, <1>2, <1>6, SendDoes DEF AddRoute, Call, At, ServesOn
<1>7. CASE Signal(a)
  BY <1>0, <1>1, <1>7, SendDoes DEF Signal, At, ServesOn
<1>8. CASE SaveUserIP(a)
  BY <1>0, <1>1, <1>3, <1>8, SendDoes DEF SaveUserIP, Call, At, ServesOn
<1>9. CASE SaveUserIPIndex(a)
  BY <1>3, <1>9 DEF SaveUserIPIndex, Call, At
<1> QED
  BY <1>4, <1>5, <1>6, <1>7, <1>8, <1>9 DEF Served

LEMMA ServedEffects ==
  ASSUME IndType, NEW a \in Proc, Served(a)
  PROVE  /\ \A i \in Id : \/ record'[i] = record[i]
                          \/ pc[a] = "ttlSet" /\ i = job[a] /\ record'[i] = [read[a] EXCEPT !.expires = TRUE]
                          \/ pc[a] = "save" /\ i = job[a] /\ record'[i] = inst[a]
         /\ \A s \in State : stateSet[s] \subseteq stateSet'[s]
         /\ \A s \in State : \A i \in stateSet'[s] :
              i \in stateSet[s] \/ (pc[a] = "saveAdd" /\ i = job[a] /\ s = inst[a].state)
         /\ \A i \in Id : routes'[i] = routes[i] \/ (pc[a] = "route" /\ i = job[a] /\ routes'[i] = inst[a].port)
         /\ UNCHANGED <<running, portsAvailable>>
<1> USE DEF Served, GetForTTL, SetTTL, AddRoute, Signal, SaveUserIP, SaveUserIPIndex, Call, Query, Set,
            SAddState, store, outside, At
<1>1. StoreTypeOK /\ OutsideTypeOK
  BY DEF IndType, TypeOK
<1>2. \A i \in Id : \/ record'[i] = record[i]
                    \/ pc[a] = "ttlSet" /\ i = job[a] /\ record'[i] = [read[a] EXCEPT !.expires = TRUE]
                    \/ pc[a] = "save" /\ i = job[a] /\ record'[i] = inst[a]
  BY <1>1 DEF StoreTypeOK
<1>3. /\ \A s \in State : stateSet[s] \subseteq stateSet'[s]
      /\ \A s \in State : \A i \in stateSet'[s] :
           i \in stateSet[s] \/ (pc[a] = "saveAdd" /\ i = job[a] /\ s = inst[a].state)
  BY <1>1 DEF StoreTypeOK
<1>4. \A i \in Id : routes'[i] = routes[i] \/ (pc[a] = "route" /\ i = job[a] /\ routes'[i] = inst[a].port)
  BY <1>1 DEF OutsideTypeOK
<1>5. UNCHANGED <<running, portsAvailable>>
  OBVIOUS
<1> QED
  BY <1>2, <1>3, <1>4, <1>5

-----------------------------------------------------------------------------
(* AcquireFromPool.                                                        *)

\* The pop takes i off the list; record and state set follow.
Taken(i) ==
  /\ i \in Elements(poolReady) /\ Elements(poolReady') = Elements(poolReady) \ {i}
  /\ record[i] # None /\ record'[i] = Assigned(record[i])
  /\ \A j \in Id \ {i} : record'[j] = record[j]
  /\ stateSet'["assigned"] = stateSet["assigned"] \cup {i}
  /\ \A s \in State \ {"assigned"} :
       stateSet'[s] = IF s = record[i].state THEN stateSet[s] \ {i} ELSE stateSet[s]

\* The request that learns of it works on i from now on.
Takes(a, i) ==
  /\ Frame(a) /\ pc'[a] = "ttlGet" /\ job'[a] = i /\ inst'[a] = Assigned(record[i])
  /\ a \in ctxDone' <=> a \in ctxDone

LEMMA HeadAndTail ==
  ASSUME NEW q \in Seq(Id), q # <<>>
  PROVE  Elements(q) = Elements(Tail(q)) \cup {Head(q)}
<1> DEFINE t == Tail(q)
<1>1. /\ DOMAIN q = 1..Len(q) /\ Len(q) \in Nat /\ Len(q) >= 1
      /\ DOMAIN t = 1..(Len(q) - 1)
      /\ \A k \in 1..(Len(q) - 1) : t[k] = q[k + 1]
      /\ Head(q) = q[1]
  OBVIOUS
<1> HIDE DEF t
<1>2. Elements(t) \cup {q[1]} \subseteq Elements(q)
  <2>1. \A k \in 1..(Len(q) - 1) : k + 1 \in 1..Len(q)
    BY <1>1
  <2>2. q[1] \in Elements(q)
    BY <1>1 DEF Elements
  <2>3. ASSUME NEW k \in 1..(Len(q) - 1) PROVE t[k] \in Elements(q)
    BY <1>1, <2>1 DEF Elements
  <2>4. Elements(t) \subseteq Elements(q)
    BY <1>1, <2>3 DEF Elements
  <2> QED
    BY <2>2, <2>4
<1>3. ASSUME NEW k \in DOMAIN q PROVE q[k] \in Elements(t) \cup {q[1]}
  <2>1. CASE k # 1
    <3>1. k - 1 \in 1..(Len(q) - 1) /\ (k - 1) + 1 = k
      BY <1>1, <2>1
    <3>2. t[k - 1] = q[k]
      BY <1>1, <3>1
    <3> QED
      BY <1>1, <3>1, <3>2 DEF Elements
  <2> QED
    BY <2>1
<1>4. Elements(q) \subseteq Elements(t) \cup {q[1]}
  BY <1>3 DEF Elements
<1> QED
  BY <1>1, <1>2, <1>4 DEF t

LEMMA PopDoes ==
  ASSUME IndType, ClaimInv, NEW a \in Acquirer, AcquireFromPool(a)
  PROVE  /\ UNCHANGED <<running, routes, portsAvailable, loop, replenishCh, client>> /\ pc[a] = "idle"
         /\ \/ /\ UNCHANGED <<record, stateSet, pc, locals, ctxDone>>
               /\ Elements(poolReady') = Elements(poolReady)
            \/ /\ Taken(Head(poolReady))
               /\ \/ UNCHANGED <<pc, locals, ctxDone>> /\ "lost" \in Failure
                  \/ Takes(a, Head(poolReady))
<1> DEFINE i == Head(poolReady)
<1>0. ProcTypeOK /\ StoreTypeOK /\ poolReady \in Seq(Id) /\ a \in Proc
  BY DEF IndType, TypeOK, StoreTypeOK, Proc
<1>1. UNCHANGED <<running, routes, portsAvailable, loop, replenishCh, client>> /\ pc[a] = "idle"
  BY DEF AcquireFromPool, PopNothing, PopGhost, PopInstance, store, outside, At
<1>2. Distinct(poolReady)
  BY DEF ClaimInv, Distinct
<1>3. CASE PopNothing /\ UNCHANGED <<pc, locals, ctxDone>>
  BY <1>1, <1>3 DEF PopNothing, store
<1>4. CASE PopGhost /\ UNCHANGED <<pc, locals, ctxDone>>
  <2>1. /\ i \in Elements(poolReady) /\ Distinct(Tail(poolReady)) /\ Tail(poolReady) \in Seq(Id)
        /\ i \notin Elements(Tail(poolReady)) /\ i \in Id
    BY <1>0, <1>2, <1>4, TailElements DEF PopGhost
  <2>2. Elements(Tail(poolReady)) \cup {i} = Elements(poolReady)
    BY <1>0, <1>4, HeadAndTail DEF PopGhost
  <2>3. poolReady' = Append(Tail(poolReady), i) /\ UNCHANGED <<record, stateSet>>
    BY <1>4 DEF PopGhost
  <2> HIDE DEF i
  <2>4. Elements(poolReady') = Elements(Tail(poolReady)) \cup {i}
    BY <2>1, <2>3, AppendElements
  <2> QED
    BY <1>1, <1>4, <2>2, <2>3, <2>4
<1>5. CASE PopInstance
  <2>1. poolReady # <<>> /\ poolReady' = Tail(poolReady) /\ record[i] # None
    BY <1>5 DEF PopInstance
  <2>2. i \in Elements(poolReady) /\ Elements(poolReady') = Elements(poolReady) \ {i} /\ i \in Id
    BY <1>0, <1>2, <2>1, TailElements, HeadAndTail
  <2>3. /\ record'[i] = Assigned(record[i])
        /\ \A j \in Id \ {i} : record'[j] = record[j]
    BY <1>0, <1>5, <2>2 DEF PopInstance, StoreTypeOK
  <2>4. stateSet' = [s \in State |->
                       IF s = "assigned" THEN stateSet[s] \cup {i}
                       ELSE IF s = record[i].state THEN stateSet[s] \ {i}
                       ELSE stateSet[s]]
    BY <1>5 DEF PopInstance
  <2> HIDE DEF i
  <2>5. Taken(i)
    BY <2>1, <2>2, <2>3, <2>4 DEF Taken, State
  <2>6. \/ UNCHANGED <<pc, locals, ctxDone>> /\ "lost" \in Failure
        \/ /\ Goto(a, "ttlGet") /\ job' = [job EXCEPT ![a] = i]
           /\ inst' = [inst EXCEPT ![a] = Assigned(record[i])]
           /\ UNCHANGED <<read, ctxDone>>
    <3>1. ~PopNothing /\ ~PopGhost
      BY <2>1 DEF PopNothing, PopGhost, i
    <3> QED
      BY <3>1 DEF AcquireFromPool, Lost, Fails, i
  <2>7. \/ UNCHANGED <<pc, locals, ctxDone>> /\ "lost" \in Failure
        \/ Takes(a, i)
    BY <1>0, <2>6 DEF Takes, Frame, Goto, ProcTypeOK
  <2> QED
    BY <1>1, <2>5, <2>7 DEF i
<1> QED
  BY <1>3, <1>4, <1>5 DEF AcquireFromPool

-----------------------------------------------------------------------------
(* provisionInstance.                                                      *)

MakeLabel == {"health", "addSet", "addIndex", "push"}
UndoLabel == {"undoStop", "undoUntrack", "undoReturn"}

LEMMA BootDoes ==
  ASSUME IndType, NEW p \in Proc, RestoreFromCheckpoint(p) \/ Start(p)
  PROVE  /\ Frame(p) /\ pc[p] \in {"restore", "start"} /\ UNCHANGED <<store, routes, loop, replenishCh>>
         /\ handed' \subseteq handed /\ elapsed' \subseteq elapsed /\ inst'[p] = inst[p]
         /\ \/ /\ Keeps(p) /\ pc'[p] \in {"start", "undoUntrack"}
               /\ UNCHANGED <<running, client>>
            \/ \E i \in Id :
                 /\ Fresh(i) /\ ~PortBound(inst[p].port)
                 /\ running'[i] = inst[p].port /\ \A j \in Id \ {i} : running'[j] = running[j]
                 /\ \/ /\ pc'[p] = "health" /\ job'[p] = i /\ (p \in ctxDone' <=> p \in ctxDone)
                       /\ i \notin handed' \cup elapsed'
                    \/ "lost" \in Failure /\ Keeps(p) /\ pc'[p] \in {"start", "undoUntrack"}
<1>0. ProcTypeOK /\ OutsideTypeOK
  BY DEF IndType, TypeOK
<1>1. PICK e \in {"start", "undoUntrack"} : StartContainer(p, e) /\ pc[p] \in {"restore", "start"}
  BY DEF RestoreFromCheckpoint, Start, At
<1>2. UNCHANGED <<store, routes, loop, replenishCh>> /\ handed' \subseteq handed /\ elapsed' \subseteq elapsed
  BY <1>1 DEF StartContainer, Boot, outside, client
<1>3. CASE Send(p, e) /\ UNCHANGED <<running, client>>
  BY <1>0, <1>1, <1>2, <1>3, SendDoes
<1>4. ASSUME NEW i \in Id, Boot(i, inst[p].port)
      PROVE  /\ Fresh(i) /\ ~PortBound(inst[p].port)
             /\ running'[i] = inst[p].port /\ \A j \in Id \ {i} : running'[j] = running[j]
             /\ i \notin handed' \cup elapsed'
  BY <1>0, <1>4 DEF Boot, OutsideTypeOK
<1>5. CASE \E i \in Id : /\ Boot(i, inst[p].port) /\ Goto(p, "health")
                         /\ job' = [job EXCEPT ![p] = i] /\ UNCHANGED <<inst, read, ctxDone>>
  <2>1. PICK i \in Id : /\ Boot(i, inst[p].port) /\ Goto(p, "health")
                        /\ job' = [job EXCEPT ![p] = i] /\ UNCHANGED <<inst, read, ctxDone>>
    BY <1>5
  <2>2. /\ Frame(p) /\ pc'[p] = "health" /\ job'[p] = i /\ inst'[p] = inst[p]
        /\ p \in ctxDone' <=> p \in ctxDone
    BY <1>0, <2>1 DEF ProcTypeOK, Goto, Frame
  <2> QED
    BY <1>1, <1>2, <1>4, <2>1, <2>2
<1>6. CASE \E i \in Id : Boot(i, inst[p].port) /\ RuntimeLost(p) /\ Send(p, e)
  <2>1. PICK i \in Id : Boot(i, inst[p].port) /\ RuntimeLost(p) /\ Send(p, e)
    BY <1>6
  <2>2. "lost" \in Failure
    BY <2>1 DEF RuntimeLost, Lost, Fails
  <2>3. Frame(p) /\ Keeps(p) /\ pc'[p] = e /\ inst'[p] = inst[p]
    BY <1>0, <2>1, SendDoes
  <2> QED
    BY <1>1, <1>2, <1>4, <2>1, <2>2, <2>3
<1> QED
  BY <1>1, <1>3, <1>5, <1>6 DEF StartContainer, outside

\* The steps of provisionInstance but for the start of the container.
Makes(p) ==
  \/ AllocatePort(p) \/ TrackPort(p) \/ WaitForReady(p) \/ AddRecord(p) \/ AddToStateSet(p)
  \/ PushReady(p) \/ UndoStop(p) \/ UndoUntrackPort(p) \/ UndoReturnPort(p)

\* In Makes, p goes on with its instance, which changes its state in memory once.
MakesOn(p) ==
  /\ Keeps(p) /\ seenReady' = seenReady
  /\ \/ pc[p] = "alloc" /\ pc'[p] = "track" /\ \E n \in Port : inst'[p] = Warming(n)
     \/ pc[p] = "addSet" /\ pc'[p] = "addIndex" /\ inst'[p] = [inst[p] EXCEPT !.state = "ready"]
     \/ /\ inst'[p] = inst[p]
        /\ \/ pc[p] = "track" /\ pc'[p] \in {"restore", "start"}
           \/ pc[p] = "health" /\ pc'[p] = "addSet"
           \/ pc[p] = "addIndex" /\ pc'[p] = "push"
           \/ pc[p] \in MakeLabel /\ pc'[p] = "undoStop"
           \/ pc[p] = "undoStop" /\ pc'[p] = "undoUntrack"
           \/ pc[p] = "undoUntrack" /\ pc'[p] = "undoReturn"

LEMMA MakesLocals ==
  ASSUME IndType, NEW p \in Proc, Makes(p)
  PROVE  /\ Frame(p) /\ pc[p] \in ProvisionLabel /\ pc[p] \notin {"restore", "start"}
         /\ UNCHANGED <<routes, mode, listed, expired, replenishCh, client>>
         /\ p # Loop => seenReady' = seenReady
         /\ \/ MakesOn(p)
            \/ /\ Leaves(p) /\ pc[p] \notin {"health", "addSet", "addIndex", "undoStop"}
               /\ p = Loop => pc'[p] = "llen" \/ Loop \notin ctxDone'
<1>0. ProcTypeOK
  BY DEF IndType, TypeOK
<1>1. /\ pc[p] \in ProvisionLabel /\ pc[p] \notin {"restore", "start"}
      /\ UNCHANGED <<routes, replenishCh, client>>
  BY DEF Makes, AllocatePort, TrackPort, WaitForReady, AddRecord, AddToStateSet, PushReady, UndoStop,
         UndoUntrackPort, UndoReturnPort, StopContainer, RuntimeCall, Call, Query, outside, At,
         ProvisionLabel
<1>2. CASE /\ ProvisionFailed(p) \/ Provisioned(p)
           /\ pc[p] \notin {"health", "addSet", "addIndex", "undoStop"}
  BY <1>0, <1>1, <1>2, ProvisionOverDoes
<1>3. CASE \E l : Send(p, l) /\ UNCHANGED loop
                  /\ \/ pc[p] = "track" /\ l \in {"restore", "start"}
                     \/ pc[p] = "health" /\ l = "addSet"
                     \/ pc[p] = "addIndex" /\ l = "push"
                     \/ pc[p] \in MakeLabel /\ l = "undoStop"
                     \/ pc[p] = "undoStop" /\ l = "undoUntrack"
                     \/ pc[p] = "undoUntrack" /\ l = "undoReturn"
  BY <1>0, <1>1, <1>3, SendDoes DEF MakesOn, loop, sweep
<1>4. CASE AllocatePort(p)
  <2>1. CASE \E n \in portsAvailable :
               Goto(p, "track") /\ inst' = [inst EXCEPT ![p] = Warming(n)] /\ UNCHANGED <<job, read, ctxDone, loop>>
    <3>1. PICK n \in Port :
               Goto(p, "track") /\ inst' = [inst EXCEPT ![p] = Warming(n)] /\ UNCHANGED <<job, read, ctxDone, loop>>
      BY <2>1 DEF IndType, TypeOK, StoreTypeOK
    <3>2. Frame(p) /\ Keeps(p) /\ pc'[p] = "track" /\ inst'[p] = Warming(n)
      BY <1>0, <3>1, InstDoes
    <3> QED
      BY <1>1, <1>4, <3>1, <3>2 DEF AllocatePort, At, MakesOn, loop, sweep
  <2> QED
    BY <1>2, <1>4, <2>1 DEF AllocatePort, Query, Call, At
<1>5. CASE AddRecord(p)
  <2>1. CASE /\ Goto(p, "addIndex") /\ inst' = [inst EXCEPT ![p] = [inst[p] EXCEPT !.state = "ready"]]
             /\ UNCHANGED <<job, read, ctxDone, loop>>
    <3>1. /\ Frame(p) /\ Keeps(p) /\ pc'[p] = "addIndex"
          /\ inst'[p] = [inst[p] EXCEPT !.state = "ready"]
      BY <1>0, <2>1, InstDoes
    <3> QED
      BY <1>1, <1>5, <2>1, <3>1 DEF AddRecord, At, MakesOn, loop, sweep
  <2> QED
    BY <1>3, <1>5, <2>1 DEF AddRecord, Call, Resume, At, MakeLabel
<1>6. CASE TrackPort(p) \/ WaitForReady(p) \/ AddToStateSet(p) \/ PushReady(p)
  BY <1>2, <1>3, <1>6
  DEF TrackPort, WaitForReady, AddToStateSet, PushReady, Call, Resume, At, MakeLabel
<1>7. CASE UndoStop(p) \/ UndoUntrackPort(p) \/ UndoReturnPort(p)
  BY <1>2, <1>3, <1>7
  DEF UndoStop, UndoUntrackPort, UndoReturnPort, RuntimeCall, Call, Resume, At
<1> QED
  BY <1>4, <1>5, <1>6, <1>7 DEF Makes

LEMMA MakesEffects ==
  ASSUME IndType, NEW p \in Proc, Makes(p)
  PROVE  /\ \A i \in Id : \/ record'[i] = record[i]
                          \/ pc[p] = "addSet" /\ i = job[p] /\ record'[i] = [inst[p] EXCEPT !.state = "ready"]
         /\ pc'[p] = "addIndex" => record'[job[p]] = [inst[p] EXCEPT !.state = "ready"]
         /\ \A s \in State : stateSet[s] \subseteq stateSet'[s]
         /\ \A s \in State : \A i \in stateSet'[s] :
              i \in stateSet[s] \/ (pc[p] = "addIndex" /\ i = job[p] /\ s = inst[p].state)
         /\ \/ poolReady' = poolReady /\ (pc[p] = "push" => pc'[p] = "undoStop")
            \/ pc[p] = "push" /\ poolReady' = Append(poolReady, job[p]) /\ (Leaves(p) \/ "lost" \in Failure)
         /\ \A i \in Id : running'[i] = running[i] \/ (pc[p] = "undoStop" /\ i = job[p] /\ running'[i] = None)
<1> USE DEF Makes, AllocatePort, TrackPort, WaitForReady, AddRecord, AddToStateSet, PushReady, UndoStop,
            UndoUntrackPort, UndoReturnPort, StopContainer, RuntimeCall, Call, Query, Set, SAddState,
            RPush, SPopPort, STrackPort, SUntrackPort, SReturnPort, store, outside, At
<1>1. StoreTypeOK /\ OutsideTypeOK /\ ProcTypeOK /\ (pc[p] = "addSet" => job[p] \in Id)
  BY DEF IndType, TypeOK, LocalsOK, HasJob
<1>2. \A i \in Id : \/ record'[i] = record[i]
                    \/ pc[p] = "addSet" /\ i = job[p] /\ record'[i] = [inst[p] EXCEPT !.state = "ready"]
  BY <1>1 DEF StoreTypeOK
<1>3. pc'[p] = "addIndex" => record'[job[p]] = [inst[p] EXCEPT !.state = "ready"]
  <2>1. pc'[p] = "addIndex" => AddRecord(p) /\ pc'[p] # "undoStop"
    BY <1>1, MakesLocals DEF MakesOn, Leaves
  <2>2. AddRecord(p) /\ Resume(p, "undoStop") => pc'[p] = "undoStop"
    BY <1>1, SendDoes DEF Resume
  <2> QED
    BY <1>1, <2>1, <2>2 DEF StoreTypeOK
<1>4. /\ \A s \in State : stateSet[s] \subseteq stateSet'[s]
      /\ \A s \in State : \A i \in stateSet'[s] :
           i \in stateSet[s] \/ (pc[p] = "addIndex" /\ i = job[p] /\ s = inst[p].state)
  BY <1>1 DEF StoreTypeOK
<1>5. \/ poolReady' = poolReady /\ (pc[p] = "push" => pc'[p] = "undoStop")
      \/ pc[p] = "push" /\ poolReady' = Append(poolReady, job[p]) /\ (Leaves(p) \/ "lost" \in Failure)
  <2>1. CASE PushReady(p)
    <3>1. \/ poolReady' = poolReady /\ Resume(p, "undoStop")
          \/ poolReady' = Append(poolReady, job[p]) /\ (Provisioned(p) \/ Lost(p))
      BY <2>1
    <3>2. Resume(p, "undoStop") => pc'[p] = "undoStop"
      BY <1>1, SendDoes DEF Resume
    <3>3. Provisioned(p) => Leaves(p)
      BY <1>1, ProvisionOverDoes
    <3> QED
      BY <2>1, <3>1, <3>2, <3>3 DEF Lost, Fails
  <2>2. CASE ~PushReady(p)
    BY <2>2
  <2> QED
    BY <2>1, <2>2
<1>6. \A i \in Id : running'[i] = running[i] \/ (pc[p] = "undoStop" /\ i = job[p] /\ running'[i] = None)
  BY <1>1 DEF OutsideTypeOK
<1> QED
  BY <1>2, <1>3, <1>4, <1>5, <1>6

-----------------------------------------------------------------------------
(* The other steps.                                                        *)

LEMMA DeleteDoes ==
  ASSUME IndType, NEW d \in Deleter, Delete(d)
  PROVE  /\ Frame(d) /\ pc[d] = "idle" /\ pc'[d] = "rGet" /\ inst'[d] = inst[d]
         /\ job'[d] \in handed /\ (d \in ctxDone' <=> d \in ctxDone)
         /\ UNCHANGED <<store, outside, loop, replenishCh, client>>
<1>1. ProcTypeOK /\ d \in Proc
  BY DEF IndType, TypeOK, Proc
<1>2. PICK i \in handed : job' = [job EXCEPT ![d] = i]
  BY DEF Delete
<1> QED
  BY <1>1, <1>2 DEF Delete, ProcTypeOK, Goto, Frame, At

LEMMA ProvisionOneDoes ==
  ASSUME IndType, NEW w \in Worker, ProvisionOne(w)
  PROVE  /\ Frame(w) /\ Keeps(w) /\ pc[w] = "idle" /\ pc'[w] = "alloc" /\ inst'[w] = inst[w]
         /\ UNCHANGED <<store, outside, loop, replenishCh, client>>
<1>1. ProcTypeOK /\ w \in Proc
  BY DEF IndType, TypeOK, Proc
<1>2. Send(w, "alloc") /\ UNCHANGED <<store, outside, loop, replenishCh, client>> /\ pc[w] = "idle"
  BY DEF ProvisionOne, Resume, At
<1> QED
  BY <1>1, <1>2, SendDoes

\* A step of the replenisher itself, outside provisionInstance and Release.
LoopTurn == Trigger \/ Tick \/ ReadReady \/ ReadAssigned \/ ListAssigned \/ FetchAssigned \/ Sweep

LEMMA LoopDoes ==
  ASSUME IndType, LoopTurn
  PROVE  /\ UNCHANGED <<store, outside, client>> /\ Frame(Loop) /\ pc[Loop] \in LoopLabel
         /\ ctxDone' \subseteq ctxDone
         /\ listed' \subseteq listed \cup stateSet["assigned"]
         /\ expired' \subseteq expired \cup {i \in listed : record[i] # None /\ IsExpired(i)}
         /\ replenishCh' = replenishCh \/ pc[Loop] = "select"
         /\ pc'[Loop] = "scard" => pc[Loop] = "llen" /\ seenReady' = Len(poolReady)
         /\ pc'[Loop] = "alloc" => pc[Loop] = "scard" /\ ReplenishmentNeeded(Seen) # 0
         /\ \/ pc'[Loop] \in LoopLabel \cup {"alloc"} /\ job'[Loop] \in {job[Loop], None}
            \/ pc'[Loop] = "rGet" /\ job'[Loop] \in expired /\ inst'[Loop] = inst[Loop]
<1>1. ProcTypeOK /\ Loop \in Proc
  BY DEF IndType, TypeOK, Proc
<1>2. ASSUME NEW l, Send(Loop, l)
      PROVE  Frame(Loop) /\ Keeps(Loop) /\ pc'[Loop] = l /\ job'[Loop] = job[Loop] /\ ctxDone' \subseteq ctxDone
  BY <1>1, <1>2, SendDoes DEF Keeps, Send
<1>3. ASSUME Replenished
      PROVE  /\ Frame(Loop) /\ pc'[Loop] \in {"list", "select"} /\ job'[Loop] = None
             /\ ctxDone' \subseteq ctxDone /\ UNCHANGED <<listed, expired>>
  BY <1>1, <1>3 DEF Replenished, Goto, Drop, ProcTypeOK, Frame, sweep
<1>4. CASE Trigger \/ Tick
  BY <1>1, <1>2, <1>4 DEF Trigger, Tick, Wake, sweep, At, LoopLabel
<1>5. CASE ReadReady
  BY <1>1, <1>2, <1>3, <1>5 DEF ReadReady, Query, sweep, At, LoopLabel
<1>6. CASE ReadAssigned
  BY <1>1, <1>2, <1>3, <1>6 DEF ReadAssigned, Query, Resume, loop, sweep, At, LoopLabel
<1>7. CASE ListAssigned
  BY <1>1, <1>2, <1>7 DEF ListAssigned, Query, Rest, At, LoopLabel
<1>8. CASE FetchAssigned
  <2>1. PICK i \in listed :
          Query(Loop,
             /\ listed' = listed \ {i}
             /\ expired' = IF record[i] # None /\ IsExpired(i) THEN expired \cup {i} ELSE expired
             /\ Send(Loop, IF listed = {i} THEN "sweep" ELSE "fetch"),
             Rest)
    BY <1>8 DEF FetchAssigned
  <2>2. \E l \in {"sweep", "fetch", "select"} : Send(Loop, l)
    BY <2>1 DEF Query, Rest
  <2>3. /\ UNCHANGED <<store, outside>> /\ listed' \subseteq listed
        /\ expired' \subseteq expired \cup {j \in listed : record[j] # None /\ IsExpired(j)}
    BY <2>1 DEF Query, Rest
  <2>4. pc[Loop] = "fetch" /\ UNCHANGED <<client, replenishCh>>
    BY <1>8 DEF FetchAssigned, At
  <2> QED
    BY <1>1, <1>2, <2>2, <2>3, <2>4 DEF LoopLabel
<1>9. CASE Sweep
  <2>1. CASE Rest
    BY <1>1, <1>2, <1>9, <2>1 DEF Sweep, Rest, At, LoopLabel
  <2>2. CASE \E i \in expired :
               /\ expired' = expired \ {i} /\ job' = [job EXCEPT ![Loop] = i] /\ Goto(Loop, "rGet")
               /\ UNCHANGED <<listed, inst, read, ctxDone>>
    BY <1>1, <1>9, <2>2 DEF Sweep, ProcTypeOK, Goto, Frame, At, LoopLabel
  <2> QED
    BY <1>9, <2>1, <2>2 DEF Sweep
<1> QED
  BY <1>4, <1>5, <1>6, <1>7, <1>8, <1>9 DEF LoopTurn

\* The steps of Next, by what is said of them above.
LEMMA StepCases ==
  ASSUME Next
  PROVE  \/ \E a \in Acquirer : AcquireFromPool(a)
         \/ \E a \in Acquirer : Served(a)
         \/ \E d \in Deleter : Delete(d)
         \/ \E p \in Acquirer \cup Deleter \cup {Loop} : Release(p)
         \/ \E w \in Worker : ProvisionOne(w)
         \/ \E p \in Worker \cup {Loop} : RestoreFromCheckpoint(p) \/ Start(p)
         \/ \E p \in Worker \cup {Loop} : Makes(p)
         \/ LoopTurn
         \/ (\E i \in Id : Elapse(i)) \/ (\E p \in Proc : Cancel(p)) \/ Restart
  BY DEF Next, Replenisher, Acquire, ProvisionInstance, Served, Makes, LoopTurn

LEMMA Processes ==
  Acquirer \subseteq Proc /\ Deleter \subseteq Proc /\ Worker \subseteq Proc /\ Loop \in Proc
  BY DEF Proc

-----------------------------------------------------------------------------
(* An instance before its first pop.                                       *)

\* p makes an instance that nobody else can know of.  With a lost answer the RPUSH may
\* have been applied when p takes the way back.
Making(p) == pc[p] \in MakeLabel \/ (pc[p] \in UndoLabel /\ "lost" \notin Failure)

\* No request has popped i yet.
Unused(i) == i \in Elements(poolReady) \/ \E p \in Proc : Making(p) /\ job[p] = i

\* Nobody but its maker and the list refers to it; its record, once there, is ready.
UnusedInv ==
  \A i \in Id : Unused(i) =>
    /\ i \notin handed \cup elapsed \cup stateSet["assigned"] \cup listed \cup expired
    /\ routes[i] = None
    /\ record[i] # None => record[i].state = "ready" /\ record[i].expires = FALSE

\* The maker is alone with it and has its record in memory as it stands in the store.
MakingInv ==
  \A p \in Proc :
    /\ Making(p) /\ job[p] # None =>
         job[p] \notin Elements(poolReady) /\ \A q \in Proc \ {p} : job[q] # job[p]
    /\ pc[p] \in {"health", "addSet"} => record[job[p]] = None
    /\ pc[p] \in {"addIndex", "push"} => record[job[p]] = inst[p] /\ inst[p].state = "ready"
    /\ pc[p] \in ProvisionLabel \ {"alloc"} => inst[p].expires = FALSE
    /\ pc[p] \in {"idle", "alloc", "track", "restore", "start"} \cup LoopLabel => job[p] = None

\* What is in the list has a record, and nobody works on it but a maker whose push was
\* applied without an answer.
ListInv ==
  \A i \in Elements(poolReady) : record[i] # None /\ \A p \in Proc : job[p] = i => pc[p] \in UndoLabel

LifeInv == UnusedInv /\ MakingInv /\ ListInv

LEMMA ElementsType ==
  ASSUME IndType PROVE Elements(poolReady) \subseteq Id /\ None \notin Id /\ None \notin Record
<1>1. poolReady \in Seq(Id)
  BY DEF IndType, TypeOK, StoreTypeOK
<1>2. \A k \in DOMAIN poolReady : poolReady[k] \in Id
  BY <1>1
<1> QED
  BY <1>2, NoneAssumption DEF Elements

\* The steps of processes that make nothing, j being the instance they are about.
LEMMA LifeStep ==
  ASSUME IndType, LifeInv, NEW p \in Proc, Frame(p), NEW j \in Id \cup {None},
         pc[p] \notin MakeLabel \cup UndoLabel, pc'[p] \notin ProvisionLabel \ {"alloc"},
         pc'[p] \in {"idle", "alloc"} \cup LoopLabel => job'[p] = None,
         \A q \in Proc : Making(q) /\ job[q] # None => job[q] # j,
         Elements(poolReady') \subseteq Elements(poolReady) \ {j}, elapsed' = elapsed,
         handed' \subseteq handed \cup {j}, listed' \subseteq listed \cup stateSet["assigned"],
         expired' \subseteq expired \cup listed, stateSet'["assigned"] \subseteq stateSet["assigned"] \cup {j},
         \A i \in Id \ {j} : record'[i] = record[i] /\ routes'[i] \in {routes[i], None},
         job'[p] \in {j, None} \cup handed \cup expired
  PROVE  LifeInv'
<1>0. Elements(poolReady) \subseteq Id /\ None \notin Id
  BY ElementsType
<1>1. \A q \in Proc : (pc'[q] \in MakeLabel \cup UndoLabel \/ pc[q] \in MakeLabel \cup UndoLabel) =>
                        q # p /\ pc'[q] = pc[q] /\ job'[q] = job[q] /\ inst'[q] = inst[q]
  BY DEF Frame, MakeLabel, UndoLabel, ProvisionLabel
<1>2. \A q \in Proc : Making(q)' => Making(q) /\ q # p /\ job'[q] = job[q]
  BY <1>1 DEF Making
<1>3. \A i \in Id : Unused(i)' => Unused(i) /\ i # j
  BY <1>0, <1>2 DEF Unused
<1>4. UnusedInv'
  BY <1>3 DEF LifeInv, UnusedInv
<1>5. \A i \in Elements(poolReady') : i \in Elements(poolReady) /\ i # j /\ i \in Id
  BY <1>0
<1>6. ListInv'
  <2>1. \A i \in Elements(poolReady') : record'[i] # None
    BY <1>5 DEF LifeInv, ListInv
  <2>2. \A i \in Elements(poolReady'), q \in Proc \ {p} : job'[q] = i => pc'[q] \in UndoLabel
    BY <1>5 DEF LifeInv, ListInv, Frame
  <2>3. \A i \in Elements(poolReady') : job'[p] # i
    BY <1>0, <1>5 DEF LifeInv, UnusedInv, Unused
  <2> QED
    BY <2>1, <2>2, <2>3 DEF ListInv
<1>7. MakingInv'
  <2>1. ASSUME NEW q \in Proc, Making(q)', job'[q] # None
        PROVE  job'[q] \notin Elements(poolReady') /\ \A r \in Proc \ {q} : job'[r] # job'[q]
    <3>1. Making(q) /\ q # p /\ job'[q] = job[q] /\ job[q] \in Id /\ job[q] # j
      BY <1>2, <2>1 DEF IndType, TypeOK, ProcTypeOK
    <3>2. job[q] \notin handed \cup expired
      BY <3>1 DEF LifeInv, UnusedInv, Unused
    <3>3. job'[p] # job'[q]
      BY <3>1, <3>2, <1>0
    <3>4. job[q] \notin Elements(poolReady) /\ \A r \in Proc \ {q} : job[r] # job[q]
      BY <3>1, <1>0 DEF LifeInv, MakingInv
    <3> QED
      BY <3>1, <3>3, <3>4 DEF Frame
  <2>2. ASSUME NEW q \in Proc, pc'[q] \in MakeLabel
        PROVE  /\ pc'[q] \in {"health", "addSet"} => record'[job'[q]] = None
               /\ pc'[q] \in {"addIndex", "push"} => record'[job'[q]] = inst'[q] /\ inst'[q].state = "ready"
    <3>1. q # p /\ pc'[q] = pc[q] /\ job'[q] = job[q] /\ inst'[q] = inst[q] /\ Making(q)
      BY <1>1, <2>2 DEF Making
    <3>2. job[q] \in Id
      BY <2>2, <3>1 DEF IndType, LocalsOK, HasJob, MakeLabel
    <3>3. record'[job[q]] = record[job[q]]
      BY <3>1, <3>2, <1>0
    <3> QED
      BY <3>1, <3>3 DEF LifeInv, MakingInv
  <2>3. ASSUME NEW q \in Proc
        PROVE  /\ pc'[q] \in ProvisionLabel \ {"alloc"} => inst'[q].expires = FALSE
               /\ pc'[q] \in {"idle", "alloc", "track", "restore", "start"} \cup LoopLabel => job'[q] = None
    <3>1. CASE q # p
      BY <3>1 DEF LifeInv, MakingInv, Frame
    <3>2. CASE q = p
      BY <3>2 DEF ProvisionLabel
    <3> QED
      BY <3>1, <3>2
  <2> QED
    BY <2>1, <2>2, <2>3 DEF MakingInv, MakeLabel
<1> QED
  BY <1>4, <1>6, <1>7 DEF LifeInv

\* A process that serves or releases works on an instance that is no longer unused.
LEMMA Popped ==
  ASSUME IndType, LifeInv, NEW p \in Proc, pc[p] \in AcquireLabel \cup ReleaseLabel
  PROVE  /\ job[p] \in Id /\ job[p] \notin Elements(poolReady) /\ ~Unused(job[p])
         /\ \A q \in Proc : Making(q) /\ job[q] # None => job[q] # job[p]
         /\ pc[p] \notin MakeLabel \cup UndoLabel
<1>1. job[p] \in Id
  BY DEF IndType, LocalsOK, HasJob
<1>2. pc[p] \notin MakeLabel \cup UndoLabel
  BY DEF AcquireLabel, ReleaseLabel, MakeLabel, UndoLabel
<1>3. job[p] \notin Elements(poolReady)
  BY <1>2 DEF LifeInv, ListInv
<1>4. \A q \in Proc : Making(q) /\ job[q] # None => job[q] # job[p]
  BY <1>2 DEF LifeInv, MakingInv, Making
<1>5. job[p] # None
  BY <1>1, ElementsType
<1> QED
  BY <1>1, <1>2, <1>3, <1>4, <1>5 DEF Unused

LEMMA OtherLabels ==
  /\ (AcquireLabel \cup ReleaseLabel) \cap ({"idle"} \cup LoopLabel \cup ProvisionLabel) = {}
  /\ ({"idle"} \cup LoopLabel) \cap ProvisionLabel = {}
  /\ MakeLabel \cup UndoLabel \subseteq ProvisionLabel \ {"alloc"}
  /\ {"idle", "llen", "select", "list", "sweep"} \subseteq {"idle"} \cup LoopLabel
  BY DEF AcquireLabel, ReleaseLabel, LoopLabel, ProvisionLabel, MakeLabel, UndoLabel

LEMMA LifeRelease ==
  ASSUME IndType, LifeInv, NEW p \in Proc, Release(p) PROVE LifeInv'
<1>1. /\ Frame(p) /\ pc[p] \in ReleaseLabel /\ UNCHANGED <<poolReady, listed, expired, handed, elapsed>>
      /\ Leaves(p) \/ (Keeps(p) /\ pc'[p] \in ReleaseLabel)
  BY ReleaseLocals DEF loop, sweep, client
<1>2. /\ job[p] \in Id /\ job[p] \notin Elements(poolReady)
      /\ \A q \in Proc : Making(q) /\ job[q] # None => job[q] # job[p]
      /\ pc[p] \notin MakeLabel \cup UndoLabel
  BY <1>1, Popped
<1>3. /\ \A i \in Id \ {job[p]} : record'[i] = record[i] /\ routes'[i] \in {routes[i], None}
      /\ stateSet'["assigned"] \subseteq stateSet["assigned"]
  BY ReleaseEffects DEF State
<1>4. /\ job'[p] \in {job[p], None} /\ pc'[p] \notin ProvisionLabel \ {"alloc"}
      /\ pc'[p] \in {"idle", "alloc"} \cup LoopLabel => job'[p] = None
  BY <1>1, OtherLabels DEF Leaves, Keeps, ProvisionLabel
<1> QED
  BY <1>1, <1>2, <1>3, <1>4, LifeStep

LEMMA LifeServed ==
  ASSUME IndType, LifeInv, NEW a \in Proc, Served(a) PROVE LifeInv'
<1>1. /\ Frame(a) /\ pc[a] \in AcquireLabel /\ UNCHANGED <<poolReady, listed, expired, elapsed>>
      /\ handed' \subseteq handed \cup {job[a]}
      /\ Leaves(a) \/ (Keeps(a) /\ pc'[a] \in AcquireLabel \cup ReleaseLabel)
  BY ServedLocals DEF loop, sweep, client, ServesOn, Answers, AcquireLabel, ReleaseLabel
<1>2. /\ job[a] \in Id /\ job[a] \notin Elements(poolReady)
      /\ \A q \in Proc : Making(q) /\ job[q] # None => job[q] # job[a]
      /\ pc[a] \notin MakeLabel \cup UndoLabel
  BY <1>1, Popped
<1>3. /\ \A i \in Id \ {job[a]} : record'[i] = record[i] /\ routes'[i] \in {routes[i], None}
      /\ stateSet'["assigned"] \subseteq stateSet["assigned"] \cup {job[a]}
  <2>1. \A i \in Id \ {job[a]} : record'[i] = record[i] /\ routes'[i] = routes[i]
    BY ServedEffects
  <2>2. \A i \in stateSet'["assigned"] : i \in stateSet["assigned"] \/ i = job[a]
    <3>1. \A s \in State : \A i \in stateSet'[s] :
            i \in stateSet[s] \/ (pc[a] = "saveAdd" /\ i = job[a] /\ s = inst[a].state)
      BY ServedEffects
    <3> QED
      BY <3>1 DEF State
  <2> QED
    BY <2>1, <2>2
<1>4. /\ job'[a] \in {job[a], None} /\ pc'[a] \notin ProvisionLabel \ {"alloc"}
      /\ pc'[a] \in {"idle", "alloc"} \cup LoopLabel => job'[a] = None
  BY <1>1, OtherLabels DEF Leaves, Keeps, ProvisionLabel
<1> QED
  BY <1>1, <1>2, <1>3, <1>4, LifeStep

LEMMA LifePop ==
  ASSUME IndType, ClaimInv, LifeInv, NEW a \in Acquirer, AcquireFromPool(a) PROVE LifeInv'
<1> DEFINE i == Head(poolReady)
<1>1. /\ UNCHANGED <<routes, listed, expired, handed, elapsed>> /\ pc[a] = "idle" /\ a \in Proc
      /\ \/ /\ UNCHANGED <<record, stateSet, pc, job, inst>>
            /\ Elements(poolReady') = Elements(poolReady)
         \/ Taken(i) /\ (UNCHANGED <<pc, job, inst, read, ctxDone>> \/ Takes(a, i))
  BY PopDoes, Processes DEF loop, sweep, client, locals
<1>2. CASE UNCHANGED <<record, stateSet, pc, job, inst>> /\ Elements(poolReady') = Elements(poolReady)
  BY <1>1, <1>2 DEF LifeInv, UnusedInv, MakingInv, ListInv, Unused, Making
<1>3. CASE Taken(i) /\ (UNCHANGED <<pc, job, inst, read, ctxDone>> \/ Takes(a, i))
  <2> HIDE DEF i
  <2>1. /\ Frame(a)
        /\ \/ pc'[a] = "idle" /\ job'[a] = job[a]
           \/ pc'[a] = "ttlGet" /\ job'[a] = i
    BY <1>1, <1>3 DEF Takes, Frame
  <2>2. /\ i \in Elements(poolReady) /\ i \in Id /\ Elements(poolReady') \subseteq Elements(poolReady) \ {i}
        /\ \A j \in Id \ {i} : record'[j] = record[j]
        /\ stateSet'["assigned"] \subseteq stateSet["assigned"] \cup {i}
    BY <1>3, ElementsType DEF Taken
  <2>3. \A q \in Proc : Making(q) /\ job[q] # None => job[q] # i
    BY <2>2 DEF LifeInv, MakingInv
  <2>4. job[a] = None
    BY <1>1 DEF LifeInv, MakingInv
  <2>5. /\ pc[a] \notin MakeLabel \cup UndoLabel /\ pc'[a] \notin ProvisionLabel \ {"alloc"}
        /\ pc'[a] \in {"idle", "alloc"} \cup LoopLabel => job'[a] = None
    BY <1>1, <2>1, <2>4 DEF MakeLabel, UndoLabel, ProvisionLabel, LoopLabel
  <2> QED
    BY <1>1, <2>1, <2>2, <2>3, <2>4, <2>5, LifeStep
<1> QED
  BY <1>1, <1>2, <1>3

LEMMA LifeDelete ==
  ASSUME IndType, LifeInv, NEW d \in Deleter, Delete(d) PROVE LifeInv'
<1>1. /\ Frame(d) /\ pc[d] = "idle" /\ pc'[d] = "rGet" /\ job'[d] \in handed /\ d \in Proc
      /\ UNCHANGED <<record, poolReady, stateSet, routes, listed, expired, handed, elapsed>>
  BY DeleteDoes, Processes DEF store, outside, loop, sweep, client
<1>2. /\ pc[d] \notin MakeLabel \cup UndoLabel /\ pc'[d] \notin ProvisionLabel \ {"alloc"}
      /\ pc'[d] \notin {"idle", "alloc"} \cup LoopLabel
  BY <1>1 DEF MakeLabel, UndoLabel, ProvisionLabel, LoopLabel
<1>3. None \notin Elements(poolReady) /\ \A q \in Proc : Making(q) /\ job[q] # None => job[q] # None
  BY ElementsType
<1> QED
  BY <1>1, <1>2, <1>3, LifeStep

LEMMA LifeProvisionOne ==
  ASSUME IndType, LifeInv, NEW w \in Worker, ProvisionOne(w) PROVE LifeInv'
<1>1. /\ Frame(w) /\ pc[w] = "idle" /\ pc'[w] = "alloc" /\ job'[w] = job[w] /\ w \in Proc
      /\ UNCHANGED <<record, poolReady, stateSet, routes, listed, expired, handed, elapsed>>
  BY ProvisionOneDoes, Processes DEF store, outside, loop, sweep, client, Keeps
<1>2. /\ pc[w] \notin MakeLabel \cup UndoLabel /\ pc'[w] \notin ProvisionLabel \ {"alloc"}
      /\ job'[w] = None
  BY <1>1 DEF MakeLabel, UndoLabel, LifeInv, MakingInv
<1>3. None \notin Elements(poolReady) /\ \A q \in Proc : Making(q) /\ job[q] # None => job[q] # None
  BY ElementsType
<1> QED
  BY <1>1, <1>2, <1>3, LifeStep

LEMMA LifeLoop ==
  ASSUME IndType, LifeInv, LoopTurn PROVE LifeInv'
<1>1. /\ Frame(Loop) /\ pc[Loop] \in LoopLabel /\ Loop \in Proc
      /\ UNCHANGED <<record, poolReady, stateSet, routes, handed, elapsed>>
      /\ listed' \subseteq listed \cup stateSet["assigned"] /\ expired' \subseteq expired \cup listed
      /\ \/ pc'[Loop] \in LoopLabel \cup {"alloc"} /\ job'[Loop] \in {job[Loop], None}
         \/ pc'[Loop] = "rGet" /\ job'[Loop] \in expired
  BY LoopDoes, Processes DEF store, outside, client
<1>2. job[Loop] = None
  BY <1>1 DEF LifeInv, MakingInv
<1>3. /\ pc[Loop] \notin MakeLabel \cup UndoLabel /\ pc'[Loop] \notin ProvisionLabel \ {"alloc"}
      /\ pc'[Loop] \in {"idle", "alloc"} \cup LoopLabel => job'[Loop] = None
      /\ job'[Loop] \in {None} \cup expired
  BY <1>1, <1>2 DEF MakeLabel, UndoLabel, ProvisionLabel, LoopLabel
<1>4. None \notin Elements(poolReady) /\ \A q \in Proc : Making(q) /\ job[q] # None => job[q] # None
  BY ElementsType
<1> QED
  BY <1>1, <1>3, <1>4, LifeStep

LEMMA LifeEnvironment ==
  ASSUME IndType, LifeInv, (\E i \in Id : Elapse(i)) \/ (\E p \in Proc : Cancel(p)) \/ Restart
  PROVE  LifeInv'
<1>1. CASE \E i \in Id : Elapse(i)
  <2>1. PICK i \in Id : record[i] # None /\ record[i].expires /\ elapsed' = elapsed \cup {i}
    BY <1>1 DEF Elapse
  <2>2. ~Unused(i)
    BY <2>1 DEF LifeInv, UnusedInv
  <2>3. UNCHANGED <<record, poolReady, stateSet, routes, pc, job, inst, handed, listed, expired>>
    BY <1>1 DEF Elapse, store, outside, locals, loop, sweep
  <2> QED
    BY <2>1, <2>2, <2>3 DEF LifeInv, UnusedInv, MakingInv, ListInv, Unused, Making
<1>2. CASE \E p \in Proc : Cancel(p)
  <2>1. UNCHANGED <<record, poolReady, stateSet, routes, pc, job, inst, handed, elapsed, listed, expired>>
    BY <1>2 DEF Cancel, store, outside, locals, loop, sweep, client
  <2> QED
    BY <2>1 DEF LifeInv, UnusedInv, MakingInv, ListInv, Unused, Making
<1>3. CASE Restart
  <2>1. /\ \A p \in Proc : pc'[p] \in {"idle", "llen"} /\ job'[p] = None
        /\ UNCHANGED <<record, poolReady, stateSet, routes, handed, elapsed>>
        /\ listed' = {} /\ expired' = {}
    BY <1>3 DEF Restart, InitializePorts, outside, client
  <2>2. \A p \in Proc : ~Making(p)' /\ pc'[p] \notin ProvisionLabel
    BY <2>1 DEF Making, MakeLabel, UndoLabel, ProvisionLabel
  <2>3. \A i \in Id : Unused(i)' => Unused(i)
    BY <2>1, <2>2 DEF Unused
  <2>4. UnusedInv'
    BY <2>1, <2>3 DEF LifeInv, UnusedInv
  <2>5. MakingInv'
    BY <2>1, <2>2, OtherLabels DEF MakingInv, MakeLabel
  <2>6. ListInv'
    BY <2>1, ElementsType DEF LifeInv, ListInv
  <2> QED
    BY <2>4, <2>5, <2>6 DEF LifeInv
<1> QED
  BY <1>1, <1>2, <1>3

LEMMA LifeBoot ==
  ASSUME IndType, LifeInv, NEW p \in Proc, RestoreFromCheckpoint(p) \/ Start(p) PROVE LifeInv'
<1>1. /\ Frame(p) /\ pc[p] \in {"restore", "start"} /\ inst'[p] = inst[p]
      /\ UNCHANGED <<record, poolReady, stateSet, routes, listed, expired>>
      /\ handed' \subseteq handed /\ elapsed' \subseteq elapsed
  BY BootDoes DEF store, loop, sweep
<1>2. job[p] = None /\ inst[p].expires = FALSE /\ ~Making(p)
  BY <1>1 DEF LifeInv, MakingInv, ProvisionLabel, Making, MakeLabel, UndoLabel
<1>3. CASE job'[p] = None /\ pc'[p] \in {"start", "undoUntrack"}
  <2>1. \A q \in Proc : job'[q] = job[q] /\ (q # p => pc'[q] = pc[q] /\ inst'[q] = inst[q])
    BY <1>1, <1>2, <1>3 DEF Frame
  <2>2. \A i \in Id : Unused(i)' => Unused(i)
    BY <1>1, <1>3, <2>1, ElementsType DEF Unused, Making
  <2>3. UnusedInv'
    BY <1>1, <2>2 DEF LifeInv, UnusedInv
  <2>4. ListInv'
    BY <1>1, <1>2, <2>1, ElementsType DEF LifeInv, ListInv
  <2>5. MakingInv'
    BY <1>1, <1>2, <1>3, <2>1 DEF LifeInv, MakingInv, Making, MakeLabel, LoopLabel, ProvisionLabel
  <2> QED
    BY <2>3, <2>4, <2>5 DEF LifeInv
<1>4. ASSUME NEW i \in Id, Fresh(i), pc'[p] = "health", job'[p] = i, i \notin handed' \cup elapsed'
      PROVE  LifeInv'
  <2>1. /\ record[i] = None /\ i \notin Elements(poolReady) /\ i \notin stateSet["assigned"]
        /\ routes[i] = None /\ i \notin listed \cup expired /\ \A q \in Proc : job[q] # i
    BY <1>4 DEF Fresh, State
  <2>2. \A q \in Proc \ {p} : job'[q] = job[q] /\ pc'[q] = pc[q] /\ inst'[q] = inst[q] /\ job'[q] # i
    BY <1>1, <2>1 DEF Frame
  <2>3. \A j \in Id : Unused(j)' => j = i \/ Unused(j)
    BY <1>1, <1>4, <2>2 DEF Unused, Making
  <2>4. UnusedInv'
    BY <1>1, <1>4, <2>1, <2>3 DEF LifeInv, UnusedInv
  <2>5. ListInv'
    BY <1>1, <1>4, <2>1, <2>2 DEF LifeInv, ListInv
  <2>6. MakingInv'
    <3>1. ASSUME NEW q \in Proc, Making(q)', job'[q] # None
          PROVE  job'[q] \notin Elements(poolReady') /\ \A r \in Proc \ {q} : job'[r] # job'[q]
      <4>1. CASE q = p
        BY <1>1, <1>4, <2>1, <2>2, <4>1
      <4>2. CASE q # p
        <5>1. Making(q) /\ job'[q] = job[q] /\ job'[p] # job'[q]
          BY <1>4, <2>2, <3>1, <4>2 DEF Making
        <5>2. job[q] \notin Elements(poolReady) /\ \A r \in Proc \ {q} : job[r] # job[q]
          BY <3>1, <5>1 DEF LifeInv, MakingInv
        <5> QED
          BY <1>1, <2>2, <5>1, <5>2
      <4> QED
        BY <4>1, <4>2
    <3>2. ASSUME NEW q \in Proc
          PROVE  /\ pc'[q] \in {"health", "addSet"} => record'[job'[q]] = None
                 /\ pc'[q] \in {"addIndex", "push"} => record'[job'[q]] = inst'[q] /\ inst'[q].state = "ready"
                 /\ pc'[q] \in ProvisionLabel \ {"alloc"} => inst'[q].expires = FALSE
                 /\ pc'[q] \in {"idle", "alloc", "track", "restore", "start"} \cup LoopLabel => job'[q] = None
      <4>1. CASE q = p
        BY <1>1, <1>2, <1>4, <2>1, <4>1 DEF LoopLabel
      <4>2. CASE q # p
        BY <1>1, <2>2, <4>2 DEF LifeInv, MakingInv
      <4> QED
        BY <4>1, <4>2
    <3> QED
      BY <3>1, <3>2 DEF MakingInv
  <2> QED
    BY <2>4, <2>5, <2>6 DEF LifeInv
<1>5. \/ job'[p] = None /\ pc'[p] \in {"start", "undoUntrack"}
      \/ \E i \in Id : Fresh(i) /\ pc'[p] = "health" /\ job'[p] = i /\ i \notin handed' \cup elapsed'
  BY <1>2, BootDoes DEF Keeps
<1> QED
  BY <1>3, <1>4, <1>5

LEMMA LifeMakes ==
  ASSUME IndType, LifeInv, NEW p \in Proc, Makes(p) PROVE LifeInv'
<1>1. /\ Frame(p) /\ pc[p] \in ProvisionLabel /\ pc[p] \notin {"restore", "start"}
      /\ UNCHANGED <<routes, listed, expired, handed, elapsed>>
      /\ MakesOn(p) \/ (Leaves(p) /\ pc[p] \notin {"health", "addSet", "addIndex", "undoStop"})
  BY MakesLocals DEF client
<1>2. /\ \A i \in Id : \/ record'[i] = record[i]
                       \/ pc[p] = "addSet" /\ i = job[p] /\ record'[i] = [inst[p] EXCEPT !.state = "ready"]
      /\ pc'[p] = "addIndex" => record'[job[p]] = [inst[p] EXCEPT !.state = "ready"]
      /\ \/ poolReady' = poolReady
         \/ pc[p] = "push" /\ poolReady' = Append(poolReady, job[p]) /\ (Leaves(p) \/ "lost" \in Failure)
  BY MakesEffects
<1>3. \A s \in State : \A i \in stateSet'[s] :
        i \in stateSet[s] \/ (pc[p] = "addIndex" /\ i = job[p] /\ s = inst[p].state)
  BY MakesEffects
<1>4. \A q \in Proc : pc[q] \in MakeLabel => job[q] \in Id /\ job[q] # None /\ inst[q] \in Record
  BY ElementsType DEF IndType, LocalsOK, HasJob, HasInst, MakeLabel, ProvisionLabel
<1>5. \A q \in Proc : Making(q)' => Making(q) /\ job'[q] = job[q]
  <2>1. Making(p)' => Making(p) /\ job'[p] = job[p]
    BY <1>1 DEF Making, MakesOn, Leaves, Keeps, MakeLabel, UndoLabel
  <2> QED
    BY <1>1, <2>1 DEF Frame, Making
<1>6. /\ Elements(poolReady) \subseteq Elements(poolReady')
      /\ \A i \in Elements(poolReady') :
           i \in Elements(poolReady) \/ (pc[p] = "push" /\ i = job[p] /\ (Leaves(p) \/ "lost" \in Failure))
  <2>1. CASE poolReady' = poolReady
    BY <2>1
  <2>2. CASE /\ pc[p] = "push" /\ poolReady' = Append(poolReady, job[p])
             /\ Leaves(p) \/ "lost" \in Failure
    <3>1. poolReady \in Seq(Id) /\ job[p] \in Id
      BY <1>4, <2>2 DEF IndType, TypeOK, StoreTypeOK, MakeLabel
    <3>2. Elements(poolReady') = Elements(poolReady) \cup {job[p]}
      BY <2>2, <3>1, AppendElements
    <3> QED
      BY <2>2, <3>2
  <2> QED
    BY <1>2, <2>1, <2>2
<1>7. \A i \in Id : Unused(i)' => Unused(i)
  <2>1. pc[p] = "push" => Making(p)
    BY DEF Making, MakeLabel
  <2> QED
    BY <1>5, <1>6, <2>1 DEF Unused
<1>8. \A q \in Proc \ {p} : pc'[q] = pc[q] /\ job'[q] = job[q] /\ inst'[q] = inst[q]
  BY <1>1 DEF Frame
<1>9. UnusedInv'
  <2>1. "assigned" \in State /\ (pc[p] = "addIndex" => inst[p].state = "ready")
    BY DEF State, LifeInv, MakingInv
  <2>2. \A i \in stateSet'["assigned"] : i \in stateSet["assigned"]
    BY <1>3, <2>1
  <2>3. pc[p] = "addSet" => inst[p] \in Record /\ inst[p].expires = FALSE
    BY <1>4 DEF LifeInv, MakingInv, ProvisionLabel, MakeLabel
  <2>4. ASSUME NEW i \in Id, Unused(i)'
        PROVE  record'[i] # None => record'[i].state = "ready" /\ record'[i].expires = FALSE
    <3>1. CASE record'[i] = record[i]
      BY <1>7, <2>4, <3>1 DEF LifeInv, UnusedInv
    <3>2. CASE pc[p] = "addSet" /\ record'[i] = [inst[p] EXCEPT !.state = "ready"]
      BY <2>3, <3>2 DEF Record
    <3> QED
      BY <1>2, <3>1, <3>2
  <2> QED
    BY <1>1, <1>7, <2>2, <2>4 DEF LifeInv, UnusedInv
<1>10. ListInv'
  <2>1. ASSUME NEW i \in Elements(poolReady') PROVE record'[i] # None /\ i \in Id
    <3>1. i \in Id /\ record[i] # None
      <4>1. CASE i \in Elements(poolReady)
        BY <4>1, ElementsType DEF LifeInv, ListInv
      <4>2. CASE pc[p] = "push" /\ i = job[p]
        BY <1>4, <4>2, ElementsType DEF LifeInv, MakingInv, MakeLabel
      <4> QED
        BY <1>6, <4>1, <4>2
    <3>2. pc[p] = "addSet" => [inst[p] EXCEPT !.state = "ready"] # None
      BY <1>4, ElementsType DEF MakeLabel, Record, State
    <3> QED
      BY <1>2, <3>1, <3>2
  <2>2. ASSUME NEW i \in Elements(poolReady'), NEW q \in Proc, job'[q] = i PROVE pc'[q] \in UndoLabel
    <3>1. CASE q # p
      <4>1. job[q] = i /\ pc'[q] = pc[q]
        BY <1>8, <2>2, <3>1
      <4>2. i \in Elements(poolReady)
        <5>1. pc[p] = "push" => job[q] # job[p]
          BY <1>4, <3>1 DEF LifeInv, MakingInv, Making, MakeLabel
        <5> QED
          BY <1>6, <4>1, <5>1
      <4> QED
        BY <4>1, <4>2 DEF LifeInv, ListInv
    <3>2. CASE q = p
      <4>1. i \in Id /\ i # None
        BY <2>1, ElementsType
      <4>2. MakesOn(p) /\ job[p] = i
        BY <1>1, <2>2, <3>2, <4>1 DEF Leaves, MakesOn, Keeps
      <4>3. pc[p] \in UndoLabel \cup {"push"}
        BY <1>6, <2>2, <4>2 DEF LifeInv, ListInv
      <4> QED
        BY <3>2, <4>2, <4>3 DEF MakesOn, UndoLabel, MakeLabel
    <3> QED
      BY <3>1, <3>2
  <2> QED
    BY <2>1, <2>2 DEF ListInv
<1>11. MakingInv'
  <2>1. ASSUME NEW q \in Proc, Making(q)', job'[q] # None
        PROVE  job'[q] \notin Elements(poolReady') /\ \A r \in Proc \ {q} : job'[r] # job'[q]
    <3>1. Making(q) /\ job'[q] = job[q] /\ job[q] # None
      BY <1>5, <2>1
    <3>2. job[q] \notin Elements(poolReady) /\ \A r \in Proc \ {q} : job[r] # job[q]
      BY <3>1 DEF LifeInv, MakingInv
    <3>3. \A r \in Proc \ {q} : job'[r] # job'[q]
      BY <1>1, <1>8, <2>1, <3>1, <3>2 DEF MakesOn, Leaves, Keeps
    <3>4. ~(pc[p] = "push" /\ q = p /\ (Leaves(p) \/ "lost" \in Failure))
      BY <1>1, <2>1 DEF Making, MakesOn, Leaves, MakeLabel, UndoLabel
    <3>5. job[q] \notin Elements(poolReady')
      BY <1>6, <3>2, <3>4
    <3> QED
      BY <3>1, <3>3, <3>5
  <2>2. ASSUME NEW q \in Proc \ {p}, pc'[q] \in MakeLabel
        PROVE  /\ pc'[q] \in {"health", "addSet"} => record'[job'[q]] = None
               /\ pc'[q] \in {"addIndex", "push"} => record'[job'[q]] = inst'[q] /\ inst'[q].state = "ready"
    <3>1. pc[q] \in MakeLabel /\ pc'[q] = pc[q] /\ job'[q] = job[q] /\ inst'[q] = inst[q] /\ job[q] \in Id
      BY <1>4, <1>8, <2>2
    <3>2. job[p] # job[q]
      BY <1>4, <3>1 DEF LifeInv, MakingInv, Making
    <3>3. record'[job[q]] = record[job[q]]
      BY <1>2, <3>1, <3>2
    <3> QED
      BY <3>1, <3>3 DEF LifeInv, MakingInv
  <2>3. /\ pc'[p] \in {"health", "addSet"} => record'[job'[p]] = None
        /\ pc'[p] \in {"addIndex", "push"} => record'[job'[p]] = inst'[p] /\ inst'[p].state = "ready"
    <3>1. pc'[p] \notin {"health"} /\ (pc'[p] = "addSet" => pc[p] = "health" /\ job'[p] = job[p])
      BY <1>1 DEF MakesOn, Leaves, Keeps
    <3>2. pc'[p] = "addSet" => record'[job'[p]] = None
      BY <1>2, <1>4, <3>1 DEF LifeInv, MakingInv, MakeLabel
    <3>3. CASE pc'[p] = "addIndex"
      <4>1. pc[p] = "addSet" /\ job'[p] = job[p] /\ inst'[p] = [inst[p] EXCEPT !.state = "ready"]
        BY <1>1, <3>3 DEF MakesOn, Leaves, Keeps
      <4> QED
        BY <1>2, <1>4, <3>3, <4>1 DEF Record, State, MakeLabel
    <3>4. CASE pc'[p] = "push"
      <4>1. pc[p] = "addIndex" /\ job'[p] = job[p] /\ inst'[p] = inst[p]
        BY <1>1, <3>4 DEF MakesOn, Leaves, Keeps
      <4> QED
        BY <1>2, <1>4, <3>4, <4>1 DEF LifeInv, MakingInv, MakeLabel
    <3> QED
      BY <3>1, <3>2, <3>3, <3>4
  <2>4. ASSUME NEW q \in Proc, pc'[q] \in ProvisionLabel \ {"alloc"} PROVE inst'[q].expires = FALSE
    <3>1. CASE q # p
      BY <1>8, <2>4, <3>1 DEF LifeInv, MakingInv
    <3>2. CASE q = p /\ pc[p] = "alloc"
      <4>1. MakesOn(p)
        BY <1>1, <2>4, <3>2 DEF Leaves, ProvisionLabel
      <4>2. PICK n \in Port : inst'[p] = Warming(n)
        BY <3>2, <4>1 DEF MakesOn, MakeLabel
      <4> QED
        BY <3>2, <4>2 DEF Warming
    <3>3. CASE q = p /\ pc[p] # "alloc"
      <4>1. inst[p].expires = FALSE /\ (pc[p] = "addSet" => inst[p] \in Record)
        BY <1>1, <1>4, <3>3 DEF LifeInv, MakingInv, MakeLabel
      <4> QED
        BY <1>1, <2>4, <3>3, <4>1 DEF MakesOn, Leaves, ProvisionLabel, Record
    <3> QED
      BY <3>1, <3>2, <3>3
  <2>5. ASSUME NEW q \in Proc, pc'[q] \in {"idle", "alloc", "track", "restore", "start"} \cup LoopLabel
        PROVE  job'[q] = None
    <3>1. CASE q # p
      BY <1>8, <2>5, <3>1 DEF LifeInv, MakingInv
    <3>2. CASE q = p
      BY <1>1, <2>5, <3>2 DEF LifeInv, MakingInv, MakesOn, Keeps, Leaves, LoopLabel
    <3> QED
      BY <3>1, <3>2
  <2> QED
    BY <2>1, <2>2, <2>3, <2>4, <2>5 DEF MakingInv, MakeLabel
<1> QED
  BY <1>9, <1>10, <1>11 DEF LifeInv

LEMMA LifeInit == Init => LifeInv
<1> SUFFICES ASSUME Init PROVE LifeInv
  OBVIOUS
<1>1. \A p \in Proc : pc[p] \in {"idle", "llen"} /\ job[p] = None
  BY DEF Init
<1>2. poolReady = <<>> /\ \A p \in Proc : ~Making(p)
  BY <1>1 DEF Init, StoreInit, Making, MakeLabel, UndoLabel
<1>3. Elements(poolReady) = {}
  BY <1>2 DEF Elements
<1> QED
  BY <1>1, <1>2, <1>3, OtherLabels DEF LifeInv, UnusedInv, MakingInv, ListInv, Unused, MakeLabel

LEMMA LifeNext == IndType /\ ClaimInv /\ LifeInv /\ [Next]_vars => LifeInv'
<1> SUFFICES ASSUME IndType, ClaimInv, LifeInv, [Next]_vars PROVE LifeInv'
  OBVIOUS
<1>1. CASE UNCHANGED vars
  BY <1>1 DEF vars, store, outside, locals, loop, sweep, client, LifeInv, UnusedInv, MakingInv, ListInv,
              Unused, Making
<1>2. CASE Next
  BY <1>2, StepCases, Processes, LifePop, LifeServed, LifeDelete, LifeRelease, LifeProvisionOne, LifeBoot,
     LifeMakes, LifeLoop, LifeEnvironment
<1> QED
  BY <1>1, <1>2

-----------------------------------------------------------------------------
(* An instance from its first pop on.                                      *)

\* Something outside the provisioning refers to i.
InUse(i) ==
  \/ i \in handed \cup stateSet["assigned"] \cup listed \cup expired
  \/ \E p \in Proc : pc[p] \in AcquireLabel \cup ReleaseLabel /\ job[p] = i

\* If it has a record, it is an assigned one, and so are the copies that may be written
\* back; from the SET of the expiry on the copy in memory has it too.
UseInv ==
  /\ \A i \in Id : InUse(i) /\ record[i] # None => record[i].state = "assigned"
  /\ \A p \in Proc :
       /\ pc[p] \in AcquireLabel => inst[p].state = "assigned"
       /\ pc[p] \in HasRead => read[p].state = "assigned"
       /\ pc[p] \in {"route", "signal", "save", "saveAdd"} => inst[p].expires = TRUE
  /\ stateSet["warming"] = {}

LEMMA UsedIsPopped ==
  ASSUME IndType, LifeInv, NEW i \in Id, InUse(i) PROVE ~Unused(i)
  BY Popped DEF InUse, LifeInv, UnusedInv

LEMMA UseRelease ==
  ASSUME IndType, UseInv, NEW p \in Proc, Release(p) PROVE UseInv'
<1>1. /\ Frame(p) /\ pc[p] \in ReleaseLabel /\ UNCHANGED <<handed, listed, expired>>
      /\ \/ Leaves(p)
         \/ /\ Keeps(p) /\ pc'[p] \in ReleaseLabel
            /\ pc'[p] = "dSRem" => read'[p] = record[job[p]] /\ record[job[p]] # None
  BY ReleaseLocals DEF loop, sweep, client
<1>2. /\ \A i \in Id : record'[i] = record[i] \/ record'[i] = None
      /\ \A s \in State : stateSet'[s] \subseteq stateSet[s]
  BY ReleaseEffects
<1>3. job[p] \in Id /\ InUse(job[p]) /\ None \notin Id
  BY <1>1, ElementsType DEF IndType, LocalsOK, HasJob, InUse
<1>4. \A i \in Id : InUse(i)' => InUse(i)
  BY <1>1, <1>2, <1>3 DEF InUse, Frame, Leaves, Keeps, State
<1>5. \A i \in Id : InUse(i)' /\ record'[i] # None => record'[i].state = "assigned"
  BY <1>2, <1>4 DEF UseInv
<1>6. pc'[p] \notin AcquireLabel /\ (pc'[p] \in HasRead => read'[p].state = "assigned")
  BY <1>1, <1>3 DEF UseInv, Leaves, AcquireLabel, ReleaseLabel, HasRead
<1>7. stateSet'["warming"] = {}
  BY <1>2 DEF UseInv, State
<1> QED
  BY <1>1, <1>5, <1>6, <1>7 DEF UseInv, Frame, AcquireLabel

LEMMA UseServed ==
  ASSUME IndType, UseInv, NEW a \in Proc, Served(a) PROVE UseInv'
<1>1. /\ Frame(a) /\ pc[a] \in AcquireLabel /\ UNCHANGED <<listed, expired>>
      /\ handed' \subseteq handed \cup {job[a]}
      /\ ServesOn(a) \/ Answers(a)
  BY ServedLocals DEF loop, sweep, ServesOn, Answers, client
<1>2. \A i \in Id : \/ record'[i] = record[i]
                    \/ pc[a] = "ttlSet" /\ i = job[a] /\ record'[i] = [read[a] EXCEPT !.expires = TRUE]
                    \/ pc[a] = "save" /\ i = job[a] /\ record'[i] = inst[a]
  BY ServedEffects
<1>3. \A s \in State : \A i \in stateSet'[s] :
        i \in stateSet[s] \/ (pc[a] = "saveAdd" /\ i = job[a] /\ s = inst[a].state)
  BY ServedEffects
<1>4. /\ job[a] \in Id /\ InUse(job[a]) /\ None \notin Id
      /\ inst[a] \in Record /\ inst[a].state = "assigned"
      /\ pc[a] = "ttlSet" => read[a] \in Record /\ read[a].state = "assigned"
  BY <1>1, ElementsType DEF IndType, LocalsOK, HasJob, HasInst, HasRead, AcquireLabel, InUse, UseInv
<1>5. \A i \in Id : InUse(i)' => InUse(i)
  <2>1. job'[a] \in {job[a], None}
    BY <1>1 DEF ServesOn, Answers, Keeps, Leaves
  <2>2. \A i \in stateSet'["assigned"] : i \in stateSet["assigned"] \/ i = job[a]
    BY <1>3 DEF State
  <2> QED
    BY <1>1, <1>4, <2>1, <2>2 DEF InUse, Frame
<1>6. \A i \in Id : InUse(i)' /\ record'[i] # None => record'[i].state = "assigned"
  <2>1. pc[a] = "ttlSet" => [read[a] EXCEPT !.expires = TRUE].state = "assigned"
    BY <1>4 DEF Record
  <2> QED
    BY <1>2, <1>4, <1>5, <2>1 DEF UseInv
<1>7. /\ pc'[a] \in AcquireLabel => inst'[a].state = "assigned"
      /\ pc'[a] \in HasRead => read'[a].state = "assigned"
      /\ pc'[a] \in {"route", "signal", "save", "saveAdd"} => inst'[a].expires = TRUE
  <2>1. CASE Answers(a)
    BY <2>1 DEF Answers, AcquireLabel, HasRead
  <2>2. CASE ServesOn(a)
    <3>1. pc'[a] \in HasRead => record[job[a]] # None /\ read'[a] = record[job[a]]
      BY <2>2 DEF ServesOn, HasRead
    <3>2. inst'[a].state = "assigned"
      BY <1>4, <2>2 DEF ServesOn, Record
    <3>3. pc'[a] \in {"route", "signal", "save", "saveAdd"} => inst'[a].expires = TRUE
      BY <1>4, <2>2 DEF ServesOn, UseInv, Record
    <3> QED
      BY <1>4, <3>1, <3>2, <3>3 DEF UseInv
  <2> QED
    BY <1>1, <2>1, <2>2
<1>8. stateSet'["warming"] = {}
  BY <1>3, <1>4 DEF UseInv, State
<1> QED
  BY <1>1, <1>6, <1>7, <1>8 DEF UseInv, Frame

LEMMA UsePop ==
  ASSUME IndType, ClaimInv, UseInv, NEW a \in Acquirer, AcquireFromPool(a) PROVE UseInv'
<1> DEFINE i == Head(poolReady)
<1>1. /\ UNCHANGED <<listed, expired, handed>> /\ pc[a] = "idle" /\ a \in Proc
      /\ \/ UNCHANGED <<record, stateSet, pc, job, inst, read>>
         \/ Taken(i) /\ (UNCHANGED <<pc, job, inst, read>> \/ Takes(a, i))
  BY PopDoes, Processes DEF loop, sweep, client, locals
<1>2. CASE UNCHANGED <<record, stateSet, pc, job, inst, read>>
  BY <1>1, <1>2 DEF UseInv, InUse
<1>3. CASE Taken(i) /\ (UNCHANGED <<pc, job, inst, read>> \/ Takes(a, i))
  <2> HIDE DEF i
  <2>1. /\ i \in Id /\ record[i] \in Record /\ record'[i] = Assigned(record[i])
        /\ \A j \in Id \ {i} : record'[j] = record[j]
        /\ stateSet'["assigned"] = stateSet["assigned"] \cup {i}
        /\ stateSet'["warming"] \subseteq stateSet["warming"]
    BY <1>3, ElementsType DEF Taken, State, IndType, TypeOK, StoreTypeOK
  <2>2. record'[i].state = "assigned"
    BY <2>1 DEF Assigned, Record
  <2>3. \A j \in Id : InUse(j)' => InUse(j) \/ j = i
    BY <1>1, <1>3, <2>1 DEF InUse, Takes, Frame
  <2>4. \A j \in Id : InUse(j)' /\ record'[j] # None => record'[j].state = "assigned"
    BY <2>1, <2>2, <2>3 DEF UseInv
  <2>5. \A p \in Proc :
          /\ pc'[p] \in AcquireLabel => inst'[p].state = "assigned"
          /\ pc'[p] \in HasRead => read'[p].state = "assigned"
          /\ pc'[p] \in {"route", "signal", "save", "saveAdd"} => inst'[p].expires = TRUE
    <3>1. CASE UNCHANGED <<pc, job, inst, read>>
      BY <3>1 DEF UseInv
    <3>2. CASE Takes(a, i)
      BY <2>1, <2>2, <3>2 DEF UseInv, Takes, Frame, HasRead
    <3> QED
      BY <1>3, <3>1, <3>2
  <2> QED
    BY <2>1, <2>4, <2>5 DEF UseInv
<1> QED
  BY <1>1, <1>2, <1>3

\* The steps that change no record and bring nobody to serve or release a new instance.
LEMMA UseQuiet ==
  ASSUME UseInv, UNCHANGED <<record, stateSet>>, handed' \subseteq handed,
         listed' \subseteq listed \cup stateSet["assigned"], expired' \subseteq expired \cup listed,
         NEW p \in Proc, Frame(p), pc'[p] \notin AcquireLabel \cup HasRead,
         pc'[p] \in ReleaseLabel => job'[p] \in handed \cup expired
  PROVE  UseInv'
<1>1. \A i \in Id : InUse(i)' => InUse(i)
  BY DEF InUse, Frame
<1> QED
  BY <1>1 DEF UseInv, Frame, AcquireLabel

LEMMA UseMakes ==
  ASSUME IndType, LifeInv, UseInv, NEW p \in Proc, Makes(p) PROVE UseInv'
<1>1. /\ Frame(p) /\ UNCHANGED <<listed, expired, handed>> /\ pc'[p] \notin AcquireLabel \cup ReleaseLabel
  BY MakesLocals DEF client, MakesOn, Leaves, AcquireLabel, ReleaseLabel
<1>2. \A i \in Id : record'[i] = record[i] \/ (pc[p] = "addSet" /\ i = job[p])
  BY MakesEffects
<1>3. \A s \in State : \A i \in stateSet'[s] :
        i \in stateSet[s] \/ (pc[p] = "addIndex" /\ i = job[p] /\ s = inst[p].state)
  BY MakesEffects
<1>4. /\ pc[p] = "addIndex" => inst[p].state = "ready"
      /\ pc[p] = "addSet" => job[p] \in Id /\ Unused(job[p])
  BY DEF LifeInv, MakingInv, IndType, LocalsOK, HasJob, Unused, Making, MakeLabel
<1>5. stateSet'["warming"] = {} /\ \A i \in stateSet'["assigned"] : i \in stateSet["assigned"]
  BY <1>3, <1>4 DEF UseInv, State
<1>6. \A i \in Id : InUse(i)' => InUse(i)
  BY <1>1, <1>5 DEF InUse, Frame
<1>7. \A i \in Id : InUse(i)' => record'[i] = record[i]
  BY <1>2, <1>4, <1>6, UsedIsPopped
<1> QED
  BY <1>1, <1>5, <1>6, <1>7 DEF UseInv, Frame, AcquireLabel, ReleaseLabel, HasRead

LEMMA UseInit == Init => UseInv
<1> SUFFICES ASSUME Init PROVE UseInv
  OBVIOUS
<1>1. /\ \A p \in Proc : pc[p] \in {"idle", "llen"}
      /\ \A i \in Id : record[i] = None
      /\ stateSet["warming"] = {}
  BY DEF Init, StoreInit, State
<1> QED
  BY <1>1 DEF UseInv, AcquireLabel, HasRead

LEMMA UseNext == IndType /\ ClaimInv /\ LifeInv /\ UseInv /\ [Next]_vars => UseInv'
<1> SUFFICES ASSUME IndType, ClaimInv, LifeInv, UseInv, [Next]_vars PROVE UseInv'
  OBVIOUS
<1> USE Processes
<1>1. CASE UNCHANGED vars
  BY <1>1 DEF vars, store, locals, loop, sweep, client, UseInv, InUse
<1>2. ASSUME NEW d \in Deleter, Delete(d) PROVE UseInv'
  BY <1>2, DeleteDoes, UseQuiet DEF store, loop, sweep, client, AcquireLabel, HasRead
<1>3. ASSUME NEW w \in Worker, ProvisionOne(w) PROVE UseInv'
  BY <1>3, ProvisionOneDoes, UseQuiet DEF store, loop, sweep, client, AcquireLabel, ReleaseLabel, HasRead
<1>4. ASSUME NEW p \in Proc, RestoreFromCheckpoint(p) \/ Start(p) PROVE UseInv'
  <2>1. /\ Frame(p) /\ UNCHANGED <<record, stateSet, listed, expired>> /\ handed' \subseteq handed
        /\ pc'[p] \in {"health", "start", "undoUntrack"}
    BY <1>4, BootDoes DEF store, loop, sweep
  <2> QED
    BY <2>1, UseQuiet DEF AcquireLabel, ReleaseLabel, HasRead
<1>5. CASE LoopTurn
  <2>1. /\ Frame(Loop) /\ UNCHANGED <<record, stateSet, handed>>
        /\ listed' \subseteq listed \cup stateSet["assigned"] /\ expired' \subseteq expired \cup listed
        /\ \/ pc'[Loop] \in LoopLabel \cup {"alloc"}
           \/ pc'[Loop] = "rGet" /\ job'[Loop] \in expired
    BY <1>5, LoopDoes DEF store, client
  <2> QED
    BY <2>1, UseQuiet DEF AcquireLabel, ReleaseLabel, LoopLabel, HasRead
<1>6. CASE (\E i \in Id : Elapse(i)) \/ (\E p \in Proc : Cancel(p))
  BY <1>6 DEF Elapse, Cancel, store, locals, loop, sweep, client, UseInv, InUse
<1>7. CASE Restart
  <2>1. /\ \A p \in Proc : pc'[p] \in {"idle", "llen"}
        /\ UNCHANGED <<record, stateSet, handed>> /\ listed' = {} /\ expired' = {}
    BY <1>7 DEF Restart, InitializePorts, client
  <2>2. \A i \in Id : InUse(i)' => InUse(i)
    BY <2>1 DEF InUse, AcquireLabel, ReleaseLabel
  <2> QED
    BY <2>1, <2>2 DEF UseInv, AcquireLabel, HasRead
<1> QED
  BY <1>1, <1>2, <1>3, <1>4, <1>5, <1>6, <1>7, StepCases, UsePop, UseServed, UseRelease, UseMakes

-----------------------------------------------------------------------------
(* A request alone with its instance.                                      *)

\* No context is done: so it stays without cancellations.
Calm == ctxDone = {}

LEMMA CalmInit == Init => Calm
  BY DEF Init, Calm

LEMMA CalmNext == "cancel" \notin Failure /\ IndType /\ ClaimInv /\ Calm /\ [Next]_vars => Calm'
<1> SUFFICES ASSUME "cancel" \notin Failure, IndType, ClaimInv, ctxDone = {}, [Next]_vars PROVE ctxDone' = {}
  BY DEF Calm
<1> USE Processes
<1>0. ctxDone' \subseteq Proc
  BY TypeStep DEF IndType, TypeOK, ProcTypeOK
<1>1. CASE UNCHANGED vars
  BY <1>1 DEF vars
<1>2. ASSUME NEW p \in Proc, Frame(p), p \in ctxDone' => p \in ctxDone PROVE ctxDone' = {}
  BY <1>0, <1>2 DEF Frame
<1>3. ASSUME NEW p \in Proc, Frame(p), Leaves(p) \/ Keeps(p) PROVE ctxDone' = {}
  BY <1>2, <1>3 DEF Leaves, Keeps
<1>4. ASSUME NEW a \in Acquirer, AcquireFromPool(a) PROVE ctxDone' = {}
  BY <1>2, <1>4, PopDoes DEF Takes
<1>5. ASSUME NEW a \in Acquirer, Served(a) PROVE ctxDone' = {}
  BY <1>3, <1>5, ServedLocals DEF ServesOn, Answers
<1>6. ASSUME NEW d \in Deleter, Delete(d) PROVE ctxDone' = {}
  BY <1>2, <1>6, DeleteDoes
<1>7. ASSUME NEW p \in Proc, Release(p) PROVE ctxDone' = {}
  BY <1>3, <1>7, ReleaseLocals
<1>8. ASSUME NEW w \in Worker, ProvisionOne(w) PROVE ctxDone' = {}
  BY <1>3, <1>8, ProvisionOneDoes
<1>9. ASSUME NEW p \in Proc, RestoreFromCheckpoint(p) \/ Start(p) PROVE ctxDone' = {}
  <2>1. Frame(p) /\ (p \in ctxDone' => p \in ctxDone)
    BY <1>9, BootDoes DEF Keeps
  <2> QED
    BY <1>2, <2>1
<1>10. ASSUME NEW p \in Proc, Makes(p) PROVE ctxDone' = {}
  BY <1>3, <1>10, MakesLocals DEF MakesOn
<1>11. CASE LoopTurn
  BY <1>11, LoopDoes
<1>12. CASE (\E i \in Id : Elapse(i)) \/ (\E p \in Proc : Cancel(p)) \/ Restart
  BY <1>12 DEF Elapse, Cancel, Fails, Restart
<1> QED
  BY <1>1, <1>4, <1>5, <1>6, <1>7, <1>8, <1>9, <1>10, <1>11, <1>12, StepCases

\* Nobody can interfere with the request a, which has popped its instance: it has not set
\* the expiry yet, or requests are faster than the TTL of their instances.
Unrivalled(a) == pc[a] \in {"ttlGet", "ttlSet"} \/ (pc[a] \in AcquireLabel /\ "slow" \notin Failure)

Sole(a) ==
  /\ job[a] \notin elapsed \cup handed
  /\ record[job[a]] # None
  /\ job[a] \in stateSet["assigned"]
  /\ \A p \in Proc \ {a} : job[p] = job[a] => pc[p] \in UndoLabel

SoleInv ==
  /\ expired \subseteq elapsed
  /\ \A a \in Acquirer :
       /\ Unrivalled(a) => Sole(a)
       /\ pc[a] \in {"ttlGet", "ttlSet"} => record[job[a]].expires = FALSE

\* A step of p that is about the instance j, with which no other request is alone.
LEMMA SoleStep ==
  ASSUME IndType, LifeInv, SoleInv, NEW p \in Proc, Frame(p), NEW j \in Id \cup {None},
         \A a \in Acquirer \ {p} : Unrivalled(a) => job[a] # j,
         \A i \in Id \ {j} : record'[i] = record[i] /\ (i \in stateSet["assigned"] => i \in stateSet'["assigned"]),
         elapsed' = elapsed, handed' \subseteq handed \cup {j}, expired' \subseteq elapsed,
         job'[p] \in {j, None} \cup handed \cup expired \/ pc'[p] \in UndoLabel,
         p \in Acquirer /\ Unrivalled(p)' => Sole(p)',
         p \in Acquirer /\ pc'[p] \in {"ttlGet", "ttlSet"} => record'[job'[p]].expires = FALSE
  PROVE  SoleInv'
<1>0. None \notin Id /\ Acquirer \subseteq Proc
  BY ElementsType, Processes
<1>1. ASSUME NEW a \in Acquirer \ {p}
      PROVE  /\ Unrivalled(a)' => Sole(a)'
             /\ pc'[a] \in {"ttlGet", "ttlSet"} => record'[job'[a]].expires = FALSE
  <2>1. pc'[a] = pc[a] /\ job'[a] = job[a] /\ (Unrivalled(a)' <=> Unrivalled(a))
    BY <1>0 DEF Frame, Unrivalled
  <2>2. pc[a] \in {"ttlGet", "ttlSet"} => Unrivalled(a)
    BY DEF Unrivalled
  <2>3. CASE Unrivalled(a)
    <3>1. job[a] \in Id /\ job[a] # j
      BY <2>3, <1>0 DEF Unrivalled, IndType, LocalsOK, HasJob, AcquireLabel
    <3>2. Sole(a) /\ job[a] \notin expired
      BY <2>3 DEF SoleInv, Sole
    <3>3. /\ job'[a] \notin elapsed' \cup handed' /\ record'[job'[a]] = record[job[a]]
          /\ job'[a] \in stateSet'["assigned"]
      BY <2>1, <3>1, <3>2 DEF Sole
    <3>4. ASSUME NEW q \in Proc \ {a}, job'[q] = job'[a] PROVE pc'[q] \in UndoLabel
      <4>1. CASE q = p
        BY <1>0, <2>1, <3>1, <3>2, <3>4, <4>1 DEF Sole
      <4>2. CASE q # p
        BY <2>1, <3>2, <3>4, <4>2 DEF Sole, Frame
      <4> QED
        BY <4>1, <4>2
    <3> QED
      BY <2>1, <3>2, <3>3, <3>4 DEF Sole, SoleInv
  <2> QED
    BY <2>1, <2>2, <2>3
<1>2. expired' \subseteq elapsed'
  OBVIOUS
<1> QED
  BY <1>1, <1>2 DEF SoleInv

\* Nobody is alone with an instance that p, not on its way back, works on too.
LEMMA Rivals ==
  ASSUME IndType, SoleInv, NEW p \in Proc, pc[p] \notin UndoLabel
  PROVE  \A a \in Acquirer \ {p} : Unrivalled(a) => job[a] # job[p]
  BY DEF SoleInv, Sole

LEMMA SoleRelease ==
  ASSUME IndType, LifeInv, SoleInv, NEW p \in Proc, Release(p) PROVE SoleInv'
<1>1. /\ Frame(p) /\ pc[p] \in ReleaseLabel /\ UNCHANGED <<expired, handed, elapsed>>
      /\ Leaves(p) \/ (Keeps(p) /\ pc'[p] \in ReleaseLabel)
  BY ReleaseLocals DEF loop, sweep, client
<1>2. job[p] \in Id /\ pc[p] \notin UndoLabel
  BY <1>1, Popped
<1>3. \A a \in Acquirer \ {p} : Unrivalled(a) => job[a] # job[p]
  BY <1>2, Rivals
<1>4. \A i \in Id \ {job[p]} : record'[i] = record[i] /\ (i \in stateSet["assigned"] => i \in stateSet'["assigned"])
  <2>1. \A i \in Id \ {job[p]} : record'[i] = record[i]
    BY ReleaseEffects
  <2>2. \A s \in State : \A i \in stateSet[s] :
          i \in stateSet'[s] \/ (pc[p] = "dSRem" /\ i = job[p] /\ s = read[p].state)
    BY ReleaseEffects
  <2> QED
    BY <2>1, <2>2 DEF State
<1>5. job'[p] \in {job[p], None} /\ pc'[p] \notin AcquireLabel
  BY <1>1 DEF Leaves, Keeps, AcquireLabel, ReleaseLabel
<1>6. ~Unrivalled(p)' /\ pc'[p] \notin {"ttlGet", "ttlSet"}
  BY <1>5 DEF Unrivalled, AcquireLabel
<1>7. expired' \subseteq elapsed
  BY <1>1 DEF SoleInv
<1> QED
  BY <1>1, <1>2, <1>3, <1>4, <1>5, <1>6, <1>7, SoleStep

LEMMA SoleServed ==
  ASSUME IndType, LifeInv, SoleInv, NEW a \in Acquirer, Served(a) PROVE SoleInv'
<1>1. /\ a \in Proc /\ Frame(a) /\ pc[a] \in AcquireLabel /\ UNCHANGED <<expired, elapsed>>
      /\ handed' \subseteq handed \cup {job[a]}
      /\ ServesOn(a) \/ Answers(a)
  BY ServedLocals, Processes DEF loop, sweep, ServesOn, Answers, client
<1>2. job[a] \in Id /\ pc[a] \notin UndoLabel /\ inst[a] \in Record /\ None \notin Record
  BY <1>1, Popped, ElementsType DEF IndType, LocalsOK, HasInst, AcquireLabel
<1>3. \A b \in Acquirer \ {a} : Unrivalled(b) => job[b] # job[a]
  BY <1>1, <1>2, Rivals
<1>4. /\ \A i \in Id : \/ record'[i] = record[i]
                       \/ pc[a] = "ttlSet" /\ i = job[a] /\ record'[i] = [read[a] EXCEPT !.expires = TRUE]
                       \/ pc[a] = "save" /\ i = job[a] /\ record'[i] = inst[a]
      /\ \A s \in State : stateSet[s] \subseteq stateSet'[s]
  BY ServedEffects, <1>1
<1>5. \A i \in Id \ {job[a]} : record'[i] = record[i] /\ (i \in stateSet["assigned"] => i \in stateSet'["assigned"])
  BY <1>4 DEF State
<1>6. job'[a] \in {job[a], None} /\ expired' \subseteq elapsed
  BY <1>1 DEF ServesOn, Answers, Keeps, Leaves, SoleInv
<1>7. ASSUME pc'[a] \in AcquireLabel
      PROVE  ServesOn(a) /\ job'[a] = job[a] /\ UNCHANGED client /\ (Unrivalled(a)' => Unrivalled(a))
  BY <1>1, <1>7 DEF ServesOn, Answers, Keeps, Unrivalled, AcquireLabel
<1>8. Unrivalled(a)' => Sole(a)'
  <2>1. SUFFICES ASSUME Unrivalled(a)' PROVE Sole(a)'
    OBVIOUS
  <2>2. job'[a] = job[a] /\ UNCHANGED client /\ Sole(a)
    BY <1>7, <2>1 DEF Unrivalled, AcquireLabel, SoleInv
  <2>3. pc[a] = "ttlSet" => [read[a] EXCEPT !.expires = TRUE] # None
    <3>1. pc[a] = "ttlSet" => read[a] \in Record
      BY <1>1 DEF IndType, LocalsOK, HasRead
    <3>2. \A r \in Record : [r EXCEPT !.expires = TRUE] \in Record
      BY DEF Record
    <3> QED
      BY <1>2, <3>1, <3>2
  <2>4. record'[job[a]] # None
    BY <1>2, <1>4, <2>2, <2>3 DEF Sole
  <2>5. job[a] \in stateSet'["assigned"]
    BY <1>4, <2>2 DEF Sole, State
  <2> QED
    BY <1>1, <2>2, <2>4, <2>5 DEF Sole, Frame, client
<1>9. pc'[a] \in {"ttlGet", "ttlSet"} => record'[job'[a]].expires = FALSE
  <2>1. pc'[a] \in {"ttlGet", "ttlSet"} => pc[a] = "ttlGet" /\ job'[a] = job[a]
    BY <1>1 DEF ServesOn, Answers, Keeps
  <2> QED
    BY <1>2, <1>4, <2>1 DEF SoleInv
<1> QED
  BY <1>1, <1>2, <1>3, <1>5, <1>6, <1>8, <1>9, SoleStep

LEMMA SolePop ==
  ASSUME IndType, ClaimInv, LifeInv, SoleInv, NEW a \in Acquirer, AcquireFromPool(a) PROVE SoleInv'
<1> DEFINE i == Head(poolReady)
<1>1. /\ UNCHANGED <<expired, handed, elapsed>> /\ pc[a] = "idle" /\ a \in Proc
      /\ \/ UNCHANGED <<record, stateSet, pc, job>>
         \/ Taken(i) /\ (UNCHANGED <<pc, job, inst, read, ctxDone>> \/ Takes(a, i))
  BY PopDoes, Processes DEF loop, sweep, client, locals
<1>2. CASE UNCHANGED <<record, stateSet, pc, job>>
  BY <1>1, <1>2 DEF SoleInv, Sole, Unrivalled
<1>3. CASE Taken(i) /\ (UNCHANGED <<pc, job, inst, read, ctxDone>> \/ Takes(a, i))
  <2> HIDE DEF i
  <2>1. /\ Frame(a)
        /\ \/ pc'[a] = "idle" /\ job'[a] = job[a]
           \/ pc'[a] = "ttlGet" /\ job'[a] = i
    BY <1>1, <1>3 DEF Takes, Frame
  <2>2. /\ i \in Elements(poolReady) /\ i \in Id /\ record[i] \in Record
        /\ \A j \in Id \ {i} : record'[j] = record[j]
        /\ record'[i] = Assigned(record[i]) /\ stateSet'["assigned"] = stateSet["assigned"] \cup {i}
    BY <1>3, ElementsType DEF Taken, IndType, TypeOK, StoreTypeOK
  <2>3. \A b \in Acquirer : Unrivalled(b) => job[b] # i
    BY <2>2, Popped, Processes DEF Unrivalled, AcquireLabel
  <2>4. job[a] = None
    BY <1>1 DEF LifeInv, MakingInv
  <2>5. i \notin elapsed \cup handed /\ record[i].expires = FALSE
    BY <2>2, ElementsType DEF LifeInv, UnusedInv, Unused
  <2>6. record'[i].expires = FALSE /\ record'[i] # None
    BY <2>2, <2>5, ElementsType DEF Assigned, Record, State
  <2>7. \A q \in Proc \ {a} : job'[q] = i => pc'[q] \in UndoLabel
    BY <2>1, <2>2 DEF LifeInv, ListInv, Frame
  <2>8. Unrivalled(a)' => Sole(a)'
    <3>1. CASE pc'[a] = "idle"
      BY <3>1 DEF Unrivalled, AcquireLabel
    <3>2. CASE pc'[a] = "ttlGet" /\ job'[a] = i
      BY <1>1, <2>2, <2>5, <2>6, <2>7, <3>2 DEF Sole
    <3> QED
      BY <2>1, <3>1, <3>2
  <2>9. pc'[a] \in {"ttlGet", "ttlSet"} => record'[job'[a]].expires = FALSE
    BY <2>1, <2>6
  <2>10. expired' \subseteq elapsed
    BY <1>1 DEF SoleInv
  <2> QED
    BY <1>1, <2>1, <2>2, <2>3, <2>4, <2>8, <2>9, <2>10, SoleStep
<1> QED
  BY <1>1, <1>2, <1>3

LEMMA SoleInit == Init => SoleInv
<1> SUFFICES ASSUME Init PROVE SoleInv
  OBVIOUS
<1>1. expired = {} /\ \A a \in Acquirer : pc[a] = "idle"
  BY ProcAssumption DEF Init, Proc
<1> QED
  BY <1>1 DEF SoleInv, Unrivalled, AcquireLabel

LEMMA SoleNext == IndType /\ ClaimInv /\ LifeInv /\ SoleInv /\ [Next]_vars => SoleInv'
<1> SUFFICES ASSUME IndType, ClaimInv, LifeInv, SoleInv, [Next]_vars PROVE SoleInv'
  OBVIOUS
<1> USE Processes
<1>0. None \notin Id /\ \A a \in Acquirer : Unrivalled(a) => job[a] # None /\ job[a] \in Id
  BY Popped, ElementsType DEF Unrivalled, AcquireLabel
<1>1. CASE UNCHANGED vars
  BY <1>1 DEF vars, store, locals, loop, sweep, client, SoleInv, Sole, Unrivalled
<1>2. ASSUME NEW p \in Proc, Frame(p), UNCHANGED <<record, stateSet, handed, elapsed>>,
             expired' \subseteq elapsed, pc'[p] \notin AcquireLabel,
             job'[p] \in {None} \cup handed \cup expired
      PROVE  SoleInv'
  <2>1. ~Unrivalled(p)' /\ pc'[p] \notin {"ttlGet", "ttlSet"}
    BY <1>2 DEF Unrivalled, AcquireLabel
  <2> QED
    BY <1>0, <1>2, <2>1, SoleStep
<1>3. ASSUME NEW d \in Deleter, Delete(d) PROVE SoleInv'
  <2>1. /\ Frame(d) /\ UNCHANGED <<record, stateSet, handed, elapsed, expired>>
        /\ pc'[d] \notin AcquireLabel /\ job'[d] \in handed
    BY <1>3, DeleteDoes DEF store, loop, sweep, client, AcquireLabel
  <2> QED
    BY <1>2, <2>1 DEF SoleInv
<1>4. ASSUME NEW w \in Worker, ProvisionOne(w) PROVE SoleInv'
  <2>1. /\ Frame(w) /\ UNCHANGED <<record, stateSet, handed, elapsed, expired>>
        /\ pc'[w] \notin AcquireLabel /\ job'[w] = job[w] /\ pc[w] = "idle"
    BY <1>4, ProvisionOneDoes DEF store, loop, sweep, client, Keeps, AcquireLabel
  <2>2. job'[w] = None
    BY <2>1 DEF LifeInv, MakingInv
  <2> QED
    BY <1>2, <2>1, <2>2 DEF SoleInv
<1>5. CASE LoopTurn
  <2>1. /\ Frame(Loop) /\ UNCHANGED <<record, stateSet, handed, elapsed>> /\ pc[Loop] \in LoopLabel
        /\ expired' \subseteq expired \cup {i \in listed : record[i] # None /\ IsExpired(i)}
        /\ \/ pc'[Loop] \in LoopLabel \cup {"alloc"} /\ job'[Loop] \in {job[Loop], None}
           \/ pc'[Loop] = "rGet" /\ job'[Loop] \in expired
    BY <1>5, LoopDoes DEF store, client
  <2>2. job[Loop] = None
    BY <2>1 DEF LifeInv, MakingInv
  <2>3. expired' \subseteq elapsed
    BY <2>1 DEF SoleInv, IsExpired
  <2>4. pc'[Loop] \notin AcquireLabel /\ job'[Loop] \in {None} \cup expired
    BY <2>1, <2>2 DEF AcquireLabel, LoopLabel
  <2> QED
    BY <1>2, <2>1, <2>3, <2>4
<1>6. ASSUME NEW p \in Proc, Makes(p) PROVE SoleInv'
  <2>1. /\ Frame(p) /\ UNCHANGED <<expired, handed, elapsed>> /\ pc[p] \in ProvisionLabel
        /\ pc'[p] \notin AcquireLabel
        /\ job'[p] \in {job[p], None}
    BY <1>6, MakesLocals DEF client, MakesOn, Leaves, Keeps, AcquireLabel
  <2>2. /\ \A i \in Id : record'[i] = record[i] \/ (pc[p] = "addSet" /\ i = job[p])
        /\ \A s \in State : stateSet[s] \subseteq stateSet'[s]
    BY <1>6, MakesEffects
  <2>3. ~Unrivalled(p)' /\ pc'[p] \notin {"ttlGet", "ttlSet"}
    BY <2>1 DEF Unrivalled, AcquireLabel
  <2>4. expired' \subseteq elapsed
    BY <2>1 DEF SoleInv
  <2>5. CASE pc[p] \in UndoLabel
    <3>1. ASSUME job'[p] = job[p], job[p] # None PROVE pc'[p] \in UndoLabel
      BY <1>6, <2>5, <3>1, MakesLocals DEF MakesOn, Leaves, UndoLabel, MakeLabel
    <3>2. \A i \in Id : record'[i] = record[i]
      BY <2>2, <2>5 DEF UndoLabel
    <3>3. job'[p] = None \/ pc'[p] \in UndoLabel
      BY <2>1, <3>1
    <3> QED
      BY <1>0, <2>1, <2>2, <2>3, <2>4, <3>2, <3>3, SoleStep DEF State
  <2>6. CASE pc[p] \notin UndoLabel
    <3>1. \A a \in Acquirer \ {p} : Unrivalled(a) => job[a] # job[p]
      BY <2>6, Rivals
    <3>2. job[p] \in Id \cup {None}
      BY DEF IndType, TypeOK, ProcTypeOK
    <3>3. \A i \in Id \ {job[p]} :
            record'[i] = record[i] /\ (i \in stateSet["assigned"] => i \in stateSet'["assigned"])
      BY <2>2 DEF State
    <3> QED
      BY <2>1, <2>3, <2>4, <3>1, <3>2, <3>3, SoleStep
  <2> QED
    BY <2>5, <2>6
<1>7. ASSUME NEW p \in Proc, RestoreFromCheckpoint(p) \/ Start(p) PROVE SoleInv'
  <2>1. /\ Frame(p) /\ UNCHANGED <<record, stateSet, expired>> /\ pc[p] \in {"restore", "start"}
        /\ handed' \subseteq handed /\ elapsed' \subseteq elapsed /\ expired \subseteq elapsed
    BY <1>7, BootDoes DEF store, loop, sweep, SoleInv
  <2>2. expired' \subseteq elapsed'
    BY <1>7 DEF SoleInv, RestoreFromCheckpoint, Start, StartContainer, Boot, Fresh, loop, sweep, client
  <2>3. \/ job'[p] = None
        \/ \E i \in Id : Fresh(i) /\ job'[p] = i
    <3>1. job[p] = None
      BY <2>1 DEF LifeInv, MakingInv
    <3> QED
      BY <1>7, <3>1, BootDoes DEF Keeps
  <2>4. \A a \in Acquirer : Unrivalled(a) => job'[p] # job[a]
    BY <1>0, <2>3 DEF Fresh
  <2>5. pc'[p] \in {"health", "start", "undoUntrack"}
    BY <1>7, BootDoes
  <2>6. ASSUME NEW a \in Acquirer, a # p PROVE pc'[a] = pc[a] /\ job'[a] = job[a]
    BY <2>1, <2>6 DEF Frame
  <2>7. p \in Acquirer => ~Unrivalled(p)' /\ pc'[p] \notin {"ttlGet", "ttlSet"}
    BY <2>5 DEF Unrivalled, AcquireLabel
  <2>8. ASSUME NEW a \in Acquirer, a # p, Unrivalled(a)' PROVE Sole(a)'
    <3>1. pc'[a] = pc[a] /\ job'[a] = job[a] /\ Unrivalled(a)
      BY <2>6, <2>8 DEF Unrivalled
    <3>2. Sole(a)
      BY <3>1 DEF SoleInv
    <3> QED
      BY <2>1, <2>4, <3>1, <3>2 DEF Sole, Frame
  <2> QED
    BY <2>1, <2>2, <2>6, <2>7, <2>8 DEF SoleInv
<1>8. CASE \E i \in Id : Elapse(i)
  <2>1. PICK i \in Id : /\ record[i].expires /\ elapsed' = elapsed \cup {i}
                        /\ "slow" \in Failure \/ \A a \in Acquirer : job[a] # i
    BY <1>8 DEF Elapse
  <2>2. UNCHANGED <<record, stateSet, pc, job, handed, expired>>
    BY <1>8 DEF Elapse, store, locals, loop, sweep
  <2>3. \A a \in Acquirer : Unrivalled(a) => job[a] # i
    BY <2>1 DEF SoleInv, Unrivalled
  <2> QED
    BY <2>1, <2>2, <2>3 DEF SoleInv, Sole, Unrivalled
<1>9. CASE \E p \in Proc : Cancel(p)
  BY <1>9 DEF Cancel, store, locals, loop, sweep, client, SoleInv, Sole, Unrivalled
<1>10. CASE Restart
  BY <1>10, ProcAssumption DEF Restart, SoleInv, Unrivalled, AcquireLabel
<1> QED
  BY <1>1, <1>3, <1>4, <1>5, <1>6, <1>7, <1>8, <1>9, <1>10, StepCases, SoleRelease, SoleServed, SolePop

-----------------------------------------------------------------------------
(* Steps that cannot fail: no call is lost, and the context still lives.   *)

LEMMA ReleaseSure ==
  ASSUME IndType, NEW p \in Proc, Release(p), p \notin ctxDone, "lost" \notin Failure
  PROVE  /\ pc[p] = "rGet" /\ record[job[p]] # None => pc'[p] = "rRoute"
         /\ pc[p] = "rRoute" => pc'[p] = "rDrop" /\ routes'[job[p]] = None
         /\ pc[p] = "rDrop" => pc'[p] = "rStop"
         /\ pc[p] = "rStop" => pc'[p] = "rUntrack" /\ running'[job[p]] = None
         /\ pc[p] = "rUntrack" => pc'[p] = "rReturn"
         /\ pc[p] = "rReturn" => pc'[p] = "dGet" /\ inst[p].port \in portsAvailable'
         /\ pc[p] = "dGet" /\ record[job[p]] # None => pc'[p] = "dSRem"
         /\ pc[p] = "dSRem" => pc'[p] = "dDel"
         /\ pc[p] = "dDel" => record'[job[p]] = None
<1> USE DEF At, Attempt, Call, Query, Lost, Refused, Fails, Send, Goto
<1>1. ProcTypeOK /\ StoreTypeOK /\ OutsideTypeOK /\ job[p] \in Id
  BY ReleaseLocals DEF IndType, TypeOK, LocalsOK, HasJob
<1>2. CASE GetForRelease(p)
  BY <1>1, <1>2 DEF GetForRelease, ProcTypeOK
<1>3. CASE RemoveRoute(p)
  BY <1>1, <1>3 DEF RemoveRoute, ProcTypeOK, OutsideTypeOK
<1>4. CASE DropPrefixedTables(p)
  BY <1>1, <1>4 DEF DropPrefixedTables, ProcTypeOK
<1>5. CASE Stop(p)
  <2>1. StopContainer(job[p]) /\ Send(p, "rUntrack")
    BY <1>5 DEF Stop, RuntimeCall, RuntimeLost, RuntimeRefused
  <2> QED
    BY <1>1, <1>5, <2>1 DEF Stop, StopContainer, ProcTypeOK, OutsideTypeOK
<1>6. CASE UntrackPort(p)
  BY <1>1, <1>6 DEF UntrackPort, ProcTypeOK
<1>7. CASE ReturnPort(p)
  BY <1>1, <1>7 DEF ReturnPort, SReturnPort, ProcTypeOK
<1>8. CASE GetForDelete(p)
  BY <1>1, <1>8 DEF GetForDelete, ProcTypeOK
<1>9. CASE RemoveFromStateSet(p)
  BY <1>1, <1>9 DEF RemoveFromStateSet, ProcTypeOK
<1>10. CASE DeleteRecord(p)
  BY <1>1, <1>10 DEF DeleteRecord, Del, Set, StoreTypeOK
<1> QED
  BY <1>2, <1>3, <1>4, <1>5, <1>6, <1>7, <1>8, <1>9, <1>10 DEF Release

LEMMA ServedSure ==
  ASSUME IndType, NEW a \in Proc, Served(a), a \notin ctxDone, "lost" \notin Failure
  PROVE  /\ pc[a] = "ttlGet" /\ record[job[a]] # None => pc'[a] = "ttlSet"
         /\ pc[a] = "ttlSet" => pc'[a] = "route" /\ record'[job[a]] = [read[a] EXCEPT !.expires = TRUE]
         /\ pc[a] = "route" => pc'[a] = "signal"
<1> USE DEF At, Call, Query, Lost, Refused, Fails, Send, Goto
<1>1. ProcTypeOK /\ StoreTypeOK /\ OutsideTypeOK /\ job[a] \in Id
  BY ServedLocals DEF IndType, TypeOK, LocalsOK, HasJob
<1>2. CASE GetForTTL(a)
  BY <1>1, <1>2 DEF GetForTTL, ProcTypeOK
<1>3. CASE SetTTL(a)
  BY <1>1, <1>3 DEF SetTTL, Set, ProcTypeOK, StoreTypeOK
<1>4. CASE AddRoute(a)
  BY <1>1, <1>4 DEF AddRoute, ProcTypeOK, OutsideTypeOK
<1>5. CASE Signal(a) \/ SaveUserIP(a) \/ SaveUserIPIndex(a)
  BY <1>5 DEF Signal, SaveUserIP, SaveUserIPIndex
<1> QED
  BY <1>2, <1>3, <1>4, <1>5 DEF Served

LEMMA SRemDoes ==
  ASSUME IndType, NEW p \in Proc, Release(p), pc'[p] = "dDel"
  PROVE  pc[p] = "dSRem" /\ \A s \in State : s = read[p].state => job[p] \notin stateSet'[s]
<1>1. ProcTypeOK /\ StoreTypeOK
  BY DEF IndType, TypeOK
<1>2. pc[p] = "dSRem" /\ RemoveFromStateSet(p)
  <2>1. pc[p] = "dSRem"
    BY ReleaseLocals DEF Leaves, Keeps
  <2> QED
    BY <2>1 DEF Release, GetForRelease, RemoveRoute, DropPrefixedTables, Stop, UntrackPort,
                ReturnPort, GetForDelete, DeleteRecord, At
<1>3. ~Released(p)
  BY <1>1, ReleasedDoes DEF Leaves
<1>4. SRemState(read[p].state, job[p])
  BY <1>2, <1>3 DEF RemoveFromStateSet, Call
<1> QED
  BY <1>1, <1>2, <1>4 DEF SRemState, StoreTypeOK

-----------------------------------------------------------------------------
(* The state sets.                                                         *)

\* Who is in a set has a record of that state, and leaves the set before the record goes;
\* no other process could put it back in.
SetsInv ==
  /\ \A s \in State : \A i \in stateSet[s] : record[i] # None /\ record[i].state = s
  /\ \A p \in Proc : pc[p] = "dDel" => \A s \in State : job[p] \notin stateSet[s]

\* An assigned record is in the set of the assigned until it is about to go.
ListedInv ==
  \A i \in Id : record[i] # None /\ record[i].state = "assigned" =>
    \/ i \in stateSet["assigned"]
    \/ \E p \in Proc : pc[p] = "dDel" /\ job[p] = i

\* A step that leaves records and sets alone.
LEMMA SetsQuiet ==
  ASSUME SetsInv, UNCHANGED <<record, stateSet>>, NEW p \in Proc, Frame(p), pc'[p] # "dDel"
  PROVE  SetsInv'
  BY DEF SetsInv, Frame

LEMMA SetsRelease ==
  ASSUME IndType, UseInv, SetsInv, NEW p \in Proc, Release(p) PROVE SetsInv'
<1>1. /\ Frame(p) /\ pc[p] \in ReleaseLabel
      /\ pc'[p] = "dDel" => pc[p] = "dSRem" /\ job'[p] = job[p]
  BY ReleaseLocals DEF Leaves, Keeps
<1>2. /\ \A i \in Id : record'[i] = record[i] \/ (pc[p] = "dDel" /\ i = job[p] /\ record'[i] = None)
      /\ \A s \in State : stateSet'[s] \subseteq stateSet[s]
  BY ReleaseEffects
<1>3. /\ job[p] \in Id /\ InUse(job[p]) /\ \A s \in State : stateSet[s] \subseteq Id
      /\ pc[p] = "dSRem" => read[p].state = "assigned"
  BY <1>1 DEF IndType, TypeOK, StoreTypeOK, LocalsOK, HasJob, HasRead, InUse, UseInv
<1>4. \A s \in State : \A i \in stateSet'[s] : record'[i] # None /\ record'[i].state = s
  BY <1>2, <1>3 DEF SetsInv
<1>5. ASSUME pc'[p] = "dDel", NEW s \in State PROVE job'[p] \notin stateSet'[s]
  <2>1. pc[p] = "dSRem" /\ job'[p] = job[p] /\ (s = "assigned" => job[p] \notin stateSet'[s])
    BY <1>1, <1>3, <1>5, SRemDoes
  <2>2. job[p] \in stateSet[s] => s = "assigned"
    BY <1>3 DEF SetsInv, UseInv
  <2> QED
    BY <1>2, <2>1, <2>2
<1>6. \A q \in Proc \ {p} : pc'[q] = "dDel" => \A s \in State : job'[q] \notin stateSet'[s]
  BY <1>1, <1>2 DEF SetsInv, Frame
<1> QED
  BY <1>4, <1>5, <1>6 DEF SetsInv

LEMMA SetsServed ==
  ASSUME "slow" \notin Failure, IndType, UseInv, SoleInv, SetsInv, NEW a \in Acquirer, Served(a)
  PROVE  SetsInv'
<1>1. /\ a \in Proc /\ Frame(a) /\ pc[a] \in AcquireLabel /\ pc'[a] # "dDel"
  BY ServedLocals, Processes DEF ServesOn, Answers
<1>2. \A i \in Id : \/ record'[i] = record[i]
                    \/ pc[a] = "ttlSet" /\ i = job[a] /\ record'[i] = [read[a] EXCEPT !.expires = TRUE]
                    \/ pc[a] = "save" /\ i = job[a] /\ record'[i] = inst[a]
  BY <1>1, ServedEffects
<1>3. /\ \A s \in State : stateSet[s] \subseteq stateSet'[s]
      /\ \A s \in State : \A i \in stateSet'[s] :
           i \in stateSet[s] \/ (pc[a] = "saveAdd" /\ i = job[a] /\ s = inst[a].state)
  BY <1>1, ServedEffects
<1>4. /\ job[a] \in Id /\ Sole(a) /\ record[job[a]].state = "assigned"
      /\ inst[a] \in Record /\ inst[a].state = "assigned"
      /\ pc[a] = "ttlSet" => read[a] \in Record /\ read[a].state = "assigned"
  <2>1. job[a] \in Id /\ inst[a] \in Record /\ (pc[a] = "ttlSet" => read[a] \in Record)
    BY <1>1 DEF IndType, LocalsOK, HasJob, HasInst, HasRead, AcquireLabel
  <2>2. Sole(a) /\ InUse(job[a])
    BY <1>1 DEF SoleInv, Unrivalled, InUse
  <2> QED
    BY <1>1, <2>1, <2>2 DEF UseInv, HasRead, Sole
<1>5. /\ \A r \in Record : [r EXCEPT !.expires = TRUE] \in Record /\ [r EXCEPT !.expires = TRUE].state = r.state
      /\ None \notin Record
  BY ElementsType DEF Record
<1>6. \A i \in Id : \/ record'[i] = record[i]
                    \/ i = job[a] /\ record'[i] # None /\ record'[i].state = "assigned"
  BY <1>2, <1>4, <1>5
<1>7. \A s \in State : stateSet'[s] \subseteq Id /\ stateSet[s] \subseteq Id
  BY <1>3, <1>4 DEF IndType, TypeOK, StoreTypeOK
<1>8. \A s \in State : job[a] \in stateSet'[s] => s = "assigned"
  BY <1>3, <1>4 DEF SetsInv
<1>9. \A s \in State : \A i \in stateSet'[s] : i \in stateSet[s] \/ (i = job[a] /\ s = "assigned")
  BY <1>3, <1>4
<1>10. \A s \in State : \A i \in stateSet'[s] : record'[i] # None /\ record'[i].state = s
  BY <1>4, <1>6, <1>7, <1>8, <1>9 DEF SetsInv, Sole
<1>11. \A q \in Proc : pc'[q] = "dDel" => q # a /\ pc[q] = "dDel" /\ job'[q] = job[q] /\ job[q] # job[a]
  BY <1>1, <1>4 DEF Frame, Sole, UndoLabel
<1> QED
  BY <1>9, <1>10, <1>11 DEF SetsInv

LEMMA SetsPop ==
  ASSUME IndType, ClaimInv, LifeInv, SetsInv, NEW a \in Acquirer, AcquireFromPool(a) PROVE SetsInv'
<1> DEFINE i == Head(poolReady)
<1>1. /\ pc[a] = "idle" /\ a \in Proc
      /\ \/ UNCHANGED <<record, stateSet, pc, job>>
         \/ Taken(i) /\ (UNCHANGED <<pc, job, inst, read, ctxDone>> \/ Takes(a, i))
  BY PopDoes, Processes DEF locals
<1>2. CASE UNCHANGED <<record, stateSet, pc, job>>
  BY <1>2 DEF SetsInv
<1>3. CASE Taken(i) /\ (UNCHANGED <<pc, job, inst, read, ctxDone>> \/ Takes(a, i))
  <2> HIDE DEF i
  <2>1. Frame(a) /\ pc'[a] \in {"idle", "ttlGet"}
    BY <1>1, <1>3 DEF Takes, Frame
  <2>2. /\ i \in Elements(poolReady) /\ i \in Id /\ record[i] \in Record /\ record[i] # None
        /\ \A j \in Id \ {i} : record'[j] = record[j]
        /\ record'[i] = Assigned(record[i]) /\ stateSet'["assigned"] = stateSet["assigned"] \cup {i}
        /\ \A s \in State \ {"assigned"} :
             stateSet'[s] = IF s = record[i].state THEN stateSet[s] \ {i} ELSE stateSet[s]
    BY <1>3, ElementsType DEF Taken, IndType, TypeOK, StoreTypeOK
  <2>3. record'[i].state = "assigned" /\ record'[i] # None
    BY <2>2, ElementsType DEF Assigned, Record, State
  <2>4. \A s \in State : \A j \in stateSet'[s] : j \in Id /\ (j = i \/ j \in stateSet[s])
    BY <2>2 DEF IndType, TypeOK, StoreTypeOK
  <2>5. ASSUME NEW s \in State, i \in stateSet'[s], s # "assigned" PROVE FALSE
    <3>1. stateSet'[s] = IF s = record[i].state THEN stateSet[s] \ {i} ELSE stateSet[s]
      BY <2>2, <2>5
    <3>2. i \in stateSet[s] => record[i].state = s
      BY <2>5 DEF SetsInv
    <3> QED
      BY <2>5, <3>1, <3>2
  <2>6. \A s \in State : \A j \in stateSet'[s] : record'[j] # None /\ record'[j].state = s
    BY <2>2, <2>3, <2>4, <2>5 DEF SetsInv
  <2>7. \A q \in Proc : pc'[q] = "dDel" => pc[q] = "dDel" /\ job'[q] = job[q] /\ job[q] # i
    BY <2>1, <2>2 DEF Frame, LifeInv, ListInv, UndoLabel
  <2> QED
    BY <2>4, <2>6, <2>7 DEF SetsInv
<1> QED
  BY <1>1, <1>2, <1>3

LEMMA SetsMakes ==
  ASSUME IndType, LifeInv, SetsInv, NEW p \in Proc, Makes(p) PROVE SetsInv'
<1>1. Frame(p) /\ pc'[p] # "dDel" /\ pc[p] # "dDel"
  BY MakesLocals DEF MakesOn, Leaves, ProvisionLabel
<1>2. \A i \in Id : \/ record'[i] = record[i]
                    \/ pc[p] = "addSet" /\ i = job[p] /\ record'[i] = [inst[p] EXCEPT !.state = "ready"]
  BY MakesEffects
<1>3. \A s \in State : \A i \in stateSet'[s] :
        i \in stateSet[s] \/ (pc[p] = "addIndex" /\ i = job[p] /\ s = inst[p].state)
  BY MakesEffects
<1>4. /\ \A s \in State : stateSet[s] \subseteq Id
      /\ pc[p] \in MakeLabel => job[p] \in Id /\ inst[p] \in Record /\ None \notin Record
  BY ElementsType DEF IndType, TypeOK, StoreTypeOK, LocalsOK, HasJob, HasInst, MakeLabel, ProvisionLabel
<1>5. CASE pc[p] = "addIndex"
  <2>1. record[job[p]] = inst[p]
    BY <1>5 DEF LifeInv, MakingInv
  <2>2. \A q \in Proc \ {p} : job[q] # job[p]
    BY <1>4, <1>5, ElementsType DEF LifeInv, MakingInv, Making, MakeLabel
  <2>3. \A i \in Id : record'[i] = record[i]
    BY <1>2, <1>5
  <2>4. \A s \in State : \A i \in stateSet'[s] : record'[i] # None /\ record'[i].state = s
    BY <1>3, <1>4, <1>5, <2>1, <2>3 DEF SetsInv, MakeLabel
  <2>5. \A q \in Proc : pc'[q] = "dDel" => pc[q] = "dDel" /\ job'[q] = job[q] /\ job[q] # job[p]
    BY <1>1, <2>2 DEF Frame
  <2> QED
    BY <1>3, <2>4, <2>5 DEF SetsInv
<1>6. CASE pc[p] # "addIndex"
  <2>1. \A s \in State : stateSet'[s] \subseteq stateSet[s]
    BY <1>3, <1>6
  <2>2. pc[p] = "addSet" => \A s \in State : job[p] \notin stateSet[s]
    BY <1>4 DEF LifeInv, MakingInv, SetsInv, MakeLabel
  <2>3. \A s \in State : \A i \in stateSet'[s] : record'[i] = record[i]
    BY <1>2, <1>4, <2>1, <2>2
  <2> QED
    BY <1>1, <2>1, <2>3 DEF SetsInv, Frame
<1> QED
  BY <1>5, <1>6

LEMMA SetsInit == Init => SetsInv
<1> SUFFICES ASSUME Init PROVE SetsInv
  OBVIOUS
<1>1. \A p \in Proc : pc[p] \in {"idle", "llen"}
  BY DEF Init
<1>2. \A s \in State : stateSet[s] = {}
  BY DEF Init, StoreInit
<1> QED
  BY <1>1, <1>2 DEF SetsInv

LEMMA SetsNext ==
  ASSUME "slow" \notin Failure
  PROVE  IndType /\ ClaimInv /\ LifeInv /\ UseInv /\ SoleInv /\ SetsInv /\ [Next]_vars => SetsInv'
<1> SUFFICES ASSUME IndType, ClaimInv, LifeInv, UseInv, SoleInv, SetsInv, [Next]_vars PROVE SetsInv'
  OBVIOUS
<1> USE Processes
<1>1. CASE UNCHANGED vars
  BY <1>1 DEF vars, store, locals, SetsInv
<1>2. ASSUME NEW d \in Deleter, Delete(d) PROVE SetsInv'
  BY <1>2, DeleteDoes, SetsQuiet DEF store
<1>3. ASSUME NEW w \in Worker, ProvisionOne(w) PROVE SetsInv'
  BY <1>3, ProvisionOneDoes, SetsQuiet DEF store
<1>4. ASSUME NEW p \in Proc, RestoreFromCheckpoint(p) \/ Start(p) PROVE SetsInv'
  <2>1. Frame(p) /\ UNCHANGED <<record, stateSet>> /\ pc'[p] \in {"health", "start", "undoUntrack"}
    BY <1>4, BootDoes DEF store
  <2> QED
    BY <2>1, SetsQuiet
<1>5. CASE LoopTurn
  <2>1. Frame(Loop) /\ UNCHANGED <<record, stateSet>> /\ pc'[Loop] \in LoopLabel \cup {"alloc", "rGet"}
    BY <1>5, LoopDoes DEF store
  <2> QED
    BY <2>1, SetsQuiet DEF LoopLabel
<1>6. CASE (\E i \in Id : Elapse(i)) \/ (\E p \in Proc : Cancel(p))
  BY <1>6 DEF Elapse, Cancel, store, locals, SetsInv
<1>7. CASE Restart
  <2>1. (\A p \in Proc : pc'[p] \in {"idle", "llen"}) /\ UNCHANGED <<record, stateSet>>
    BY <1>7 DEF Restart, InitializePorts
  <2> QED
    BY <2>1 DEF SetsInv
<1> QED
  BY <1>1, <1>2, <1>3, <1>4, <1>5, <1>6, <1>7, StepCases, SetsPop, SetsServed, SetsRelease, SetsMakes

\* Without failures of commands, cancellations and restarts.
LEMMA ListedNext ==
  ASSUME "slow" \notin Failure, "lost" \notin Failure, "restart" \notin Failure
  PROVE  /\ Calm /\ IndType /\ ClaimInv /\ LifeInv /\ UseInv /\ SoleInv
         /\ ListedInv /\ [Next]_vars
         => ListedInv'
<1> SUFFICES ASSUME ctxDone = {}, IndType, ClaimInv, LifeInv, UseInv, SoleInv, ListedInv, [Next]_vars
             PROVE  ListedInv'
  BY DEF Calm
<1> USE Processes
<1>1. CASE UNCHANGED vars
  BY <1>1 DEF vars, store, locals, ListedInv
<1>2. ASSUME NEW p \in Proc, Frame(p), UNCHANGED <<record, stateSet>>, pc[p] # "dDel" PROVE ListedInv'
  BY <1>2 DEF ListedInv, Frame
<1>3. ASSUME NEW d \in Deleter, Delete(d) PROVE ListedInv'
  BY <1>2, <1>3, DeleteDoes DEF store
<1>4. ASSUME NEW w \in Worker, ProvisionOne(w) PROVE ListedInv'
  BY <1>2, <1>4, ProvisionOneDoes DEF store
<1>5. ASSUME NEW p \in Proc, RestoreFromCheckpoint(p) \/ Start(p) PROVE ListedInv'
  <2>1. Frame(p) /\ UNCHANGED <<record, stateSet>> /\ pc[p] \in {"restore", "start"}
    BY <1>5, BootDoes DEF store
  <2> QED
    BY <1>2, <2>1
<1>6. CASE LoopTurn
  <2>1. Frame(Loop) /\ UNCHANGED <<record, stateSet>> /\ pc[Loop] \in LoopLabel
    BY <1>6, LoopDoes DEF store
  <2> QED
    BY <1>2, <2>1 DEF LoopLabel
<1>7. CASE (\E i \in Id : Elapse(i)) \/ (\E p \in Proc : Cancel(p))
  BY <1>7 DEF Elapse, Cancel, store, locals, ListedInv
<1>8. CASE Restart
  BY <1>8 DEF Restart, Fails
<1>9. ASSUME NEW a \in Acquirer, AcquireFromPool(a) PROVE ListedInv'
  <2> DEFINE i == Head(poolReady)
  <2>1. /\ pc[a] = "idle" /\ a \in Proc
        /\ \/ UNCHANGED <<record, stateSet, pc, job>>
           \/ Taken(i) /\ (UNCHANGED <<pc, job, inst, read, ctxDone>> \/ Takes(a, i))
    BY <1>9, PopDoes DEF locals
  <2>2. CASE UNCHANGED <<record, stateSet, pc, job>>
    BY <2>2 DEF ListedInv
  <2>3. CASE Taken(i) /\ (UNCHANGED <<pc, job, inst, read, ctxDone>> \/ Takes(a, i))
    <3> HIDE DEF i
    <3>1. Frame(a)
      BY <2>3 DEF Takes, Frame
    <3>2. stateSet'["assigned"] = stateSet["assigned"] \cup {i} /\ \A j \in Id \ {i} : record'[j] = record[j]
      BY <2>3 DEF Taken
    <3> QED
      BY <2>1, <3>1, <3>2 DEF ListedInv, Frame
  <2> QED
    BY <2>1, <2>2, <2>3
<1>10. ASSUME NEW a \in Acquirer, Served(a) PROVE ListedInv'
  <2>1. Frame(a) /\ pc[a] \in AcquireLabel
    BY <1>10, ServedLocals
  <2>2. /\ \A i \in Id : record'[i] = record[i] \/ i = job[a]
        /\ \A s \in State : stateSet[s] \subseteq stateSet'[s]
    BY <1>10, ServedEffects
  <2>3. job[a] \in stateSet["assigned"]
    BY <2>1 DEF SoleInv, Sole, Unrivalled
  <2>4. stateSet["assigned"] \subseteq stateSet'["assigned"]
    BY <2>2 DEF State
  <2>5. pc[a] # "dDel"
    BY <2>1 DEF AcquireLabel
  <2> QED
    BY <2>1, <2>2, <2>3, <2>4, <2>5 DEF ListedInv, Frame
<1>11. ASSUME NEW p \in Proc, Release(p) PROVE ListedInv'
  <2>1. /\ Frame(p) /\ pc[p] \in ReleaseLabel /\ (Leaves(p) \/ Keeps(p))
        /\ pc[p] = "dSRem" => pc'[p] = "dDel"
        /\ pc[p] = "dDel" => record'[job[p]] = None
    BY <1>11, ReleaseLocals, ReleaseSure
  <2>2. \A i \in Id : record'[i] = record[i] \/ record'[i] = None
    BY <1>11, ReleaseEffects
  <2>3. \A s \in State : \A i \in stateSet[s] :
          i \in stateSet'[s] \/ (pc[p] = "dSRem" /\ i = job[p] /\ s = read[p].state)
    BY <1>11, ReleaseEffects
  <2>4. pc[p] = "dSRem" => pc'[p] = "dDel" /\ job'[p] = job[p]
    BY <2>1 DEF Leaves, Keeps
  <2>5. \A i \in stateSet["assigned"] : i \in stateSet'["assigned"] \/ (pc'[p] = "dDel" /\ i = job'[p])
    BY <2>3, <2>4 DEF State
  <2> QED
    BY <2>1, <2>2, <2>5 DEF ListedInv, Frame
<1>12. ASSUME NEW p \in Proc, Makes(p) PROVE ListedInv'
  <2>1. Frame(p) /\ pc[p] \in ProvisionLabel
    BY <1>12, MakesLocals
  <2>2. /\ \A i \in Id : \/ record'[i] = record[i]
                         \/ pc[p] = "addSet" /\ record'[i] = [inst[p] EXCEPT !.state = "ready"]
        /\ \A s \in State : stateSet[s] \subseteq stateSet'[s]
    BY <1>12, MakesEffects
  <2>3. pc[p] = "addSet" => [inst[p] EXCEPT !.state = "ready"].state = "ready"
    <3>1. pc[p] = "addSet" => inst[p] \in Record
      BY DEF IndType, LocalsOK, HasInst, ProvisionLabel
    <3> QED
      BY <3>1 DEF Record
  <2>4. \A i \in Id : record'[i] = record[i] \/ record'[i].state # "assigned"
    BY <2>2, <2>3
  <2>5. pc[p] # "dDel" /\ stateSet["assigned"] \subseteq stateSet'["assigned"]
    BY <2>1, <2>2 DEF ProvisionLabel, State
  <2> QED
    BY <2>1, <2>4, <2>5 DEF ListedInv, Frame
<1> QED
  BY <1>1, <1>3, <1>4, <1>5, <1>6, <1>7, <1>8, <1>9, <1>10, <1>11, <1>12, StepCases

LEMMA ListedInit == Init => ListedInv
  BY DEF Init, StoreInit, ListedInv

\* What the theorems below rest on, whatever fails.
PoolInv == IndType /\ ClaimInv /\ LifeInv /\ UseInv /\ SoleInv

LEMMA PoolInvHolds == Spec => []PoolInv
<1>1. Init => PoolInv
  BY TypeInit, ClaimInit, LifeInit, UseInit, SoleInit DEF PoolInv
<1>2. PoolInv /\ [Next]_vars => PoolInv'
  BY TypeStep, ClaimStep, LifeNext, UseNext, SoleNext DEF PoolInv
<1> QED
  BY <1>1, <1>2, PTL DEF Spec

LEMMA CalmHolds == ASSUME "cancel" \notin Failure PROVE Spec => []Calm
<1>1. PoolInv /\ Calm /\ [Next]_vars => Calm'
  BY CalmNext DEF PoolInv
<1> QED
  BY <1>1, CalmInit, PoolInvHolds, PTL DEF Spec

LEMMA SetsHolds == ASSUME "slow" \notin Failure PROVE Spec => []SetsInv
<1>1. PoolInv /\ SetsInv /\ [Next]_vars => SetsInv'
  BY SetsNext DEF PoolInv
<1> QED
  BY <1>1, SetsInit, PoolInvHolds, PTL DEF Spec

\* The state sets are exact as long as only containers fail: an id is in the set of a
\* state only with a record of that state, and an assigned instance is in the set that
\* ListExpired reads until its DEL is next.
THEOREM StateSetsExactHolds == ASSUME Failure \subseteq {"sick"} PROVE Spec => []StateSetsExact
<1>0. "slow" \notin Failure /\ "lost" \notin Failure /\ "restart" \notin Failure /\ "cancel" \notin Failure
  OBVIOUS
<1>1. PoolInv /\ Calm /\ ListedInv /\ [Next]_vars => ListedInv'
  BY <1>0, ListedNext DEF PoolInv
<1>2. SetsInv /\ ListedInv => StateSetsExact
  BY DEF SetsInv, ListedInv, StateSetsExact, At
<1>3. Spec => []Calm /\ []SetsInv
  BY <1>0, CalmHolds, SetsHolds
<1> QED
  BY <1>1, <1>2, <1>3, ListedInit, PoolInvHolds, PTL DEF Spec

-----------------------------------------------------------------------------
(* No zombies.                                                             *)

\* An assigned instance without an expiry is with the request that is about to set it.
ExpiryInv ==
  \A i \in Id : record[i] # None /\ record[i].state = "assigned" /\ record[i].expires = FALSE =>
    \E a \in Acquirer : job[a] = i /\ pc[a] \in {"ttlGet", "ttlSet"}

LEMMA ExpiryInit == Init => ExpiryInv
  BY DEF Init, StoreInit, ExpiryInv

LEMMA ExpiryNext ==
  ASSUME "lost" \notin Failure, "restart" \notin Failure
  PROVE  PoolInv /\ Calm /\ ExpiryInv /\ [Next]_vars => ExpiryInv'
<1> SUFFICES ASSUME ctxDone = {}, IndType, ClaimInv, LifeInv, UseInv, SoleInv, ExpiryInv, [Next]_vars
             PROVE  ExpiryInv'
  BY DEF Calm, PoolInv
<1> USE Processes
<1>1. CASE UNCHANGED vars
  BY <1>1 DEF vars, store, locals, ExpiryInv
<1>2. ASSUME NEW p \in Proc, Frame(p), pc[p] \notin {"ttlGet", "ttlSet"},
             \A i \in Id : \/ record'[i] \in {record[i], None}
                           \/ record'[i].state = "ready"
                           \/ record'[i].expires = TRUE
      PROVE  ExpiryInv'
  <2>1. ASSUME NEW i \in Id, record'[i] # None, record'[i].state = "assigned", record'[i].expires = FALSE
        PROVE  \E a \in Acquirer : job'[a] = i /\ pc'[a] \in {"ttlGet", "ttlSet"}
    <3>1. record'[i] = record[i]
      BY <1>2, <2>1
    <3>2. PICK a \in Acquirer : job[a] = i /\ pc[a] \in {"ttlGet", "ttlSet"}
      BY <2>1, <3>1 DEF ExpiryInv
    <3> QED
      BY <1>2, <3>2 DEF Frame
  <2> QED
    BY <2>1 DEF ExpiryInv
<1>3. ASSUME NEW d \in Deleter, Delete(d) PROVE ExpiryInv'
  BY <1>2, <1>3, DeleteDoes DEF store
<1>4. ASSUME NEW w \in Worker, ProvisionOne(w) PROVE ExpiryInv'
  BY <1>2, <1>4, ProvisionOneDoes DEF store
<1>5. ASSUME NEW p \in Proc, RestoreFromCheckpoint(p) \/ Start(p) PROVE ExpiryInv'
  <2>1. Frame(p) /\ UNCHANGED record /\ pc[p] \in {"restore", "start"}
    BY <1>5, BootDoes DEF store
  <2> QED
    BY <1>2, <2>1
<1>6. CASE LoopTurn
  <2>1. Frame(Loop) /\ UNCHANGED record /\ pc[Loop] \in LoopLabel
    BY <1>6, LoopDoes DEF store
  <2> QED
    BY <1>2, <2>1 DEF LoopLabel
<1>7. CASE (\E i \in Id : Elapse(i)) \/ (\E p \in Proc : Cancel(p))
  BY <1>7 DEF Elapse, Cancel, store, locals, ExpiryInv
<1>8. CASE Restart
  BY <1>8 DEF Restart, Fails
<1>9. ASSUME NEW a \in Acquirer, AcquireFromPool(a) PROVE ExpiryInv'
  <2> DEFINE i == Head(poolReady)
  <2>1. /\ pc[a] = "idle" /\ a \in Proc
        /\ \/ UNCHANGED <<record, pc, job>>
           \/ Taken(i) /\ Takes(a, i)
    BY <1>9, PopDoes DEF locals
  <2>2. CASE UNCHANGED <<record, pc, job>>
    BY <2>2 DEF ExpiryInv
  <2>3. CASE Taken(i) /\ Takes(a, i)
    <3> HIDE DEF i
    <3>1. Frame(a) /\ pc'[a] = "ttlGet" /\ job'[a] = i /\ \A j \in Id \ {i} : record'[j] = record[j]
      BY <2>3 DEF Takes, Taken
    <3>2. ASSUME NEW j \in Id, record'[j] # None, record'[j].state = "assigned", record'[j].expires = FALSE
          PROVE  \E b \in Acquirer : job'[b] = j /\ pc'[b] \in {"ttlGet", "ttlSet"}
      <4>1. CASE j = i
        BY <3>1, <4>1
      <4>2. CASE j # i
        <5>1. PICK b \in Acquirer : job[b] = j /\ pc[b] \in {"ttlGet", "ttlSet"}
          BY <3>1, <3>2, <4>2 DEF ExpiryInv
        <5> QED
          BY <2>1, <3>1, <5>1 DEF Frame
      <4> QED
        BY <4>1, <4>2
    <3> QED
      BY <3>2 DEF ExpiryInv
  <2> QED
    BY <2>1, <2>2, <2>3
<1>10. ASSUME NEW a \in Acquirer, Served(a) PROVE ExpiryInv'
  <2>1. /\ Frame(a) /\ pc[a] \in AcquireLabel /\ job[a] \in Id
        /\ ServesOn(a) \/ Answers(a)
    BY <1>10, ServedLocals DEF IndType, LocalsOK, HasJob
  <2>2. \A i \in Id : \/ record'[i] = record[i]
                      \/ pc[a] = "ttlSet" /\ i = job[a] /\ record'[i] = [read[a] EXCEPT !.expires = TRUE]
                      \/ pc[a] = "save" /\ i = job[a] /\ record'[i] = inst[a]
    BY <1>10, ServedEffects
  <2>3. /\ pc[a] = "ttlSet" => [read[a] EXCEPT !.expires = TRUE].expires = TRUE
        /\ pc[a] = "save" => inst[a].expires = TRUE
    BY DEF IndType, LocalsOK, HasRead, UseInv, Record
  <2>4. CASE pc[a] \notin {"ttlGet", "ttlSet"}
    BY <1>2, <2>1, <2>2, <2>3, <2>4
  <2>5. CASE pc[a] \in {"ttlGet", "ttlSet"}
    <3>1. record[job[a]] # None
      BY <2>5 DEF SoleInv, Sole, Unrivalled
    <3>2. /\ pc[a] = "ttlGet" => pc'[a] = "ttlSet"
          /\ pc[a] = "ttlSet" => pc'[a] = "route" /\ record'[job[a]] = [read[a] EXCEPT !.expires = TRUE]
      BY <1>10, <3>1, ServedSure
    <3>3. job'[a] = job[a]
      BY <2>1, <2>5 DEF ServesOn, Answers, Keeps
    <3>4. ASSUME NEW i \in Id, record'[i] # None, record'[i].state = "assigned", record'[i].expires = FALSE
          PROVE  \E b \in Acquirer : job'[b] = i /\ pc'[b] \in {"ttlGet", "ttlSet"}
      <4>1. record'[i] = record[i]
        BY <2>2, <2>3, <3>4
      <4>2. PICK b \in Acquirer : job[b] = i /\ pc[b] \in {"ttlGet", "ttlSet"}
        BY <3>4, <4>1 DEF ExpiryInv
      <4>3. CASE b # a
        BY <2>1, <4>2, <4>3 DEF Frame
      <4>4. CASE b = a
        <5>1. pc[a] = "ttlGet"
          BY <2>3, <2>5, <3>2, <3>4, <4>2, <4>4
        <5> QED
          BY <3>2, <3>3, <4>2, <4>4, <5>1
      <4> QED
        BY <4>3, <4>4
    <3> QED
      BY <3>4 DEF ExpiryInv
  <2> QED
    BY <2>4, <2>5
<1>11. ASSUME NEW p \in Proc, Release(p) PROVE ExpiryInv'
  <2>1. Frame(p) /\ pc[p] \in ReleaseLabel
    BY <1>11, ReleaseLocals
  <2>2. \A i \in Id : record'[i] \in {record[i], None}
    BY <1>11, ReleaseEffects
  <2> QED
    BY <1>2, <2>1, <2>2 DEF ReleaseLabel
<1>12. ASSUME NEW p \in Proc, Makes(p) PROVE ExpiryInv'
  <2>1. Frame(p) /\ pc[p] \in ProvisionLabel
    BY <1>12, MakesLocals
  <2>2. \A i \in Id : \/ record'[i] = record[i]
                      \/ pc[p] = "addSet" /\ record'[i] = [inst[p] EXCEPT !.state = "ready"]
    BY <1>12, MakesEffects
  <2>3. pc[p] = "addSet" => [inst[p] EXCEPT !.state = "ready"].state = "ready"
    <3>1. pc[p] = "addSet" => inst[p] \in Record
      BY DEF IndType, LocalsOK, HasInst, ProvisionLabel
    <3> QED
      BY <3>1 DEF Record
  <2> QED
    BY <1>2, <2>1, <2>2, <2>3 DEF ProvisionLabel
<1> QED
  BY <1>1, <1>3, <1>4, <1>5, <1>6, <1>7, <1>8, <1>9, <1>10, <1>11, <1>12, StepCases

\* No zombies, as long as no command, context or process is lost, and however slow the
\* requests are: SetInstanceTTL follows the pop, and no later write of a request takes
\* the expiry away again.
THEOREM NoZombieHolds == ASSUME Failure \subseteq {"sick", "slow"} PROVE Spec => []NoZombie
<1>0. "lost" \notin Failure /\ "restart" \notin Failure /\ "cancel" \notin Failure
  OBVIOUS
<1>1. PoolInv /\ Calm /\ ExpiryInv /\ [Next]_vars => ExpiryInv'
  BY <1>0, ExpiryNext
<1>2. PoolInv /\ ExpiryInv => NoZombie
  <2>1. PoolInv => \A i \in Id : record[i] # None => record[i].expires \in BOOLEAN
    BY DEF PoolInv, IndType, TypeOK, StoreTypeOK, Record
  <2> QED
    BY <2>1 DEF ExpiryInv, NoZombie
<1>3. Spec => []Calm
  BY <1>0, CalmHolds
<1> QED
  BY <1>1, <1>2, <1>3, ExpiryInit, PoolInvHolds, PTL DEF Spec

-----------------------------------------------------------------------------
(* The contract of the pool.                                               *)

Out == stateSet["assigned"]

\* Where TriggerReplenish has found room and has not pushed yet.
RoomLabel == {"alloc", "track", "restore", "start"} \cup MakeLabel

LEMMA LoopLabels ==
  ASSUME IndType, ClaimInv, Next
  PROVE  /\ pc'[Loop] = "scard" =>
              \/ pc[Loop] = "scard" /\ seenReady' = seenReady
              \/ pc[Loop] = "llen" /\ seenReady' = Len(poolReady) /\ UNCHANGED store
         /\ pc'[Loop] \in RoomLabel =>
              \/ pc[Loop] \in RoomLabel
              \/ pc[Loop] = "scard" /\ ReplenishmentNeeded(Seen) # 0 /\ UNCHANGED store
<1> DEFINE Goal ==
      /\ pc'[Loop] = "scard" =>
           \/ pc[Loop] = "scard" /\ seenReady' = seenReady
           \/ pc[Loop] = "llen" /\ seenReady' = Len(poolReady) /\ UNCHANGED store
      /\ pc'[Loop] \in RoomLabel =>
           \/ pc[Loop] \in RoomLabel
           \/ pc[Loop] = "scard" /\ ReplenishmentNeeded(Seen) # 0 /\ UNCHANGED store
<1> USE Processes, ProcAssumption
<1>1. CASE pc'[Loop] = pc[Loop] /\ seenReady' = seenReady
  BY <1>1
<1>2. ASSUME NEW p \in Proc \ {Loop}, Frame(p), seenReady' = seenReady PROVE Goal
  BY <1>1, <1>2 DEF Frame
<1>3. ASSUME NEW a \in Acquirer, AcquireFromPool(a) \/ Served(a) PROVE Goal
  <2>1. seenReady' = seenReady /\ (Frame(a) \/ pc' = pc)
    BY <1>3, PopDoes, ServedLocals DEF Takes, loop
  <2> QED
    BY <1>1, <1>2, <2>1
<1>4. ASSUME NEW d \in Deleter, Delete(d) PROVE Goal
  BY <1>2, <1>4, DeleteDoes DEF loop
<1>5. ASSUME NEW w \in Worker, ProvisionOne(w) PROVE Goal
  BY <1>2, <1>5, ProvisionOneDoes DEF loop
<1>6. ASSUME NEW p \in Proc, Release(p) PROVE Goal
  <2>1. Frame(p) /\ seenReady' = seenReady /\ pc'[p] \notin {"scard"} \cup RoomLabel
    BY <1>6, ReleaseLocals DEF loop, Leaves, ReleaseLabel, RoomLabel, MakeLabel
  <2> QED
    BY <1>2, <2>1
<1>7. ASSUME NEW p \in Proc, RestoreFromCheckpoint(p) \/ Start(p) PROVE Goal
  <2>1. /\ Frame(p) /\ seenReady' = seenReady /\ pc[p] \in RoomLabel
        /\ pc'[p] \in {"health", "start", "undoUntrack"}
    BY <1>7, BootDoes DEF loop, RoomLabel
  <2> QED
    BY <1>2, <2>1
<1>8. ASSUME NEW p \in Proc, Makes(p) PROVE Goal
  <2>1. Frame(p) /\ (p # Loop => seenReady' = seenReady) /\ (MakesOn(p) \/ Leaves(p))
    BY <1>8, MakesLocals
  <2>2. CASE p # Loop
    BY <1>2, <2>1, <2>2
  <2>3. CASE p = Loop
    BY <2>1, <2>3 DEF MakesOn, Leaves, RoomLabel, MakeLabel
  <2> QED
    BY <2>2, <2>3
<1>9. CASE LoopTurn
  <2>1. /\ UNCHANGED store
        /\ pc'[Loop] = "scard" => pc[Loop] = "llen" /\ seenReady' = Len(poolReady)
        /\ pc'[Loop] = "alloc" => pc[Loop] = "scard" /\ ReplenishmentNeeded(Seen) # 0
        /\ pc'[Loop] \in LoopLabel \cup {"alloc", "rGet"}
    BY <1>9, LoopDoes
  <2>2. pc'[Loop] \in RoomLabel => pc'[Loop] = "alloc"
    BY <2>1 DEF RoomLabel, MakeLabel, LoopLabel
  <2> QED
    BY <2>1, <2>2
<1>10. CASE (\E i \in Id : Elapse(i)) \/ (\E p \in Proc : Cancel(p))
  BY <1>1, <1>10 DEF Elapse, Cancel, loop
<1>11. CASE Restart
  BY <1>11 DEF Restart, RoomLabel, MakeLabel
<1> QED
  BY <1>3, <1>4, <1>5, <1>6, <1>7, <1>8, <1>9, <1>10, <1>11, StepCases

\* p pushes the instance that it has made.
Push(p) ==
  /\ pc[p] = "push" /\ pc'[p] \notin RoomLabel /\ job[p] \in Id /\ job[p] \notin Elements(poolReady) \cup Out
  /\ poolReady' = Append(poolReady, job[p]) /\ Out' = Out

LEMMA PopMoves ==
  ASSUME PoolInv, NEW a \in Acquirer, AcquireFromPool(a)
  PROVE  \/ UNCHANGED <<poolReady, Out, pc>>
         \/ Contract!Grant /\ ("lost" \in Failure \/ pc'[a] = "ttlGet")
<1>1. CASE PopNothing /\ pc' = pc
  BY <1>1 DEF PopNothing, store, Out
<1>2. CASE PopGhost
  <2>1. Head(poolReady) \in Elements(poolReady)
    BY <1>2, HeadAndTail DEF PopGhost, PoolInv, IndType, TypeOK, StoreTypeOK
  <2> QED
    BY <1>2, <2>1 DEF PopGhost, PoolInv, LifeInv, ListInv
<1>3. CASE PopInstance /\ (Lost(a) \/ Goto(a, "ttlGet"))
  <2>1. /\ poolReady # <<>> /\ poolReady' = Tail(poolReady)
        /\ stateSet'["assigned"] = stateSet["assigned"] \cup {Head(poolReady)}
    BY <1>3 DEF PopInstance, State
  <2>2. "lost" \in Failure \/ pc'[a] = "ttlGet"
    BY <1>3, Processes DEF Lost, Fails, Goto, PoolInv, IndType, TypeOK, ProcTypeOK
  <2> QED
    BY <2>1, <2>2 DEF Contract!Grant
<1> QED
  BY <1>1, <1>2, <1>3 DEF AcquireFromPool

LEMMA PoolMoves ==
  ASSUME "slow" \notin Failure, PoolInv, Next
  PROVE  \/ UNCHANGED <<poolReady, Out>>
         \/ Contract!Grant
         \/ \E i \in Id : Contract!Retire(i)
         \/ \E p \in Worker \cup {Loop} : Push(p)
<1> DEFINE Goal ==
      \/ UNCHANGED <<poolReady, Out>>
      \/ Contract!Grant
      \/ \E i \in Id : Contract!Retire(i)
      \/ \E p \in Worker \cup {Loop} : Push(p)
<1> USE Processes
<1>0. IndType /\ ClaimInv /\ LifeInv /\ UseInv /\ SoleInv /\ "assigned" \in State
  BY DEF PoolInv, State
<1>1. ASSUME NEW a \in Acquirer, AcquireFromPool(a) PROVE Goal
  BY <1>1, PopMoves
<1>2. ASSUME NEW a \in Acquirer, Served(a) PROVE Goal
  <2>1. poolReady' = poolReady /\ pc[a] \in AcquireLabel
    BY <1>0, <1>2, ServedLocals
  <2>2. /\ \A s \in State : stateSet[s] \subseteq stateSet'[s]
        /\ \A s \in State : \A i \in stateSet'[s] :
             i \in stateSet[s] \/ (pc[a] = "saveAdd" /\ i = job[a] /\ s = inst[a].state)
    BY <1>0, <1>2, ServedEffects
  <2>3. job[a] \in Out
    BY <1>0, <2>1 DEF SoleInv, Sole, Unrivalled, Out
  <2>4. \A i \in stateSet'["assigned"] : i \in stateSet["assigned"] \/ i = job[a]
    BY <1>0, <2>2
  <2>5. stateSet["assigned"] \subseteq stateSet'["assigned"]
    BY <1>0, <2>2
  <2>6. Out' = Out
    BY <2>3, <2>4, <2>5 DEF Out
  <2> QED
    BY <2>1, <2>6
<1>3. ASSUME NEW p \in Proc, Release(p) PROVE Goal
  <2>1. poolReady' = poolReady /\ pc[p] \in ReleaseLabel /\ job[p] \in Id
    BY <1>0, <1>3, ReleaseLocals DEF IndType, LocalsOK, HasJob
  <2>2. /\ \A s \in State : stateSet'[s] \subseteq stateSet[s]
        /\ \A s \in State : \A i \in stateSet[s] :
             i \in stateSet'[s] \/ (pc[p] = "dSRem" /\ i = job[p] /\ s = read[p].state)
    BY <1>0, <1>3, ReleaseEffects
  <2>3. Out' \subseteq Out
    BY <1>0, <2>2 DEF Out
  <2>4. \A i \in Out : i \in Out' \/ i = job[p]
    BY <1>0, <2>2 DEF Out
  <2>5. CASE job[p] \in Out'
    BY <2>1, <2>3, <2>4, <2>5
  <2>6. CASE job[p] \notin Out
    BY <2>1, <2>3, <2>4, <2>6
  <2>7. CASE job[p] \in Out /\ job[p] \notin Out'
    <3>1. Out' = Out \ {job[p]}
      BY <2>3, <2>4, <2>7
    <3>2. Contract!Retire(job[p])
      BY <2>1, <2>7, <3>1 DEF Contract!Retire, Out
    <3> QED
      BY <2>1, <3>2
  <2> QED
    BY <2>5, <2>6, <2>7
<1>4. ASSUME NEW p \in Worker \cup {Loop}, Makes(p) PROVE Goal
  <2>1. /\ \A s \in State : stateSet[s] \subseteq stateSet'[s]
        /\ \A s \in State : \A i \in stateSet'[s] :
             i \in stateSet[s] \/ (pc[p] = "addIndex" /\ i = job[p] /\ s = inst[p].state)
        /\ \/ poolReady' = poolReady
           \/ pc[p] = "push" /\ poolReady' = Append(poolReady, job[p])
    BY <1>0, <1>4, MakesEffects
  <2>2. pc[p] = "addIndex" => inst[p].state = "ready"
    BY <1>0 DEF LifeInv, MakingInv
  <2>3. Out' = Out
    <3>1. \A i \in stateSet'["assigned"] : i \in stateSet["assigned"]
      BY <1>0, <2>1, <2>2
    <3>2. stateSet["assigned"] \subseteq stateSet'["assigned"]
      BY <1>0, <2>1
    <3> QED
      BY <3>1, <3>2 DEF Out
  <2>4. CASE poolReady' = poolReady
    BY <2>3, <2>4
  <2>5. CASE pc[p] = "push" /\ poolReady' = Append(poolReady, job[p])
    <3>1. job[p] \in Id /\ job[p] # None /\ Making(p)
      BY <1>0, <2>5, ElementsType DEF IndType, LocalsOK, HasJob, Making, MakeLabel
    <3>2. job[p] \notin Elements(poolReady) \cup Out
      BY <1>0, <3>1 DEF LifeInv, MakingInv, UnusedInv, Unused, Out
    <3>3. pc'[p] \notin RoomLabel
      BY <1>0, <1>4, <2>5, MakesLocals DEF MakesOn, Leaves, RoomLabel, MakeLabel
    <3> QED
      BY <2>3, <2>5, <3>1, <3>2, <3>3 DEF Push
  <2> QED
    BY <2>1, <2>4, <2>5
<1>5. ASSUME UNCHANGED <<poolReady, stateSet>> PROVE Goal
  BY <1>5 DEF Out
<1>6. ASSUME NEW d \in Deleter, Delete(d) PROVE Goal
  BY <1>0, <1>5, <1>6, DeleteDoes DEF store
<1>7. ASSUME NEW w \in Worker, ProvisionOne(w) PROVE Goal
  BY <1>0, <1>5, <1>7, ProvisionOneDoes DEF store
<1>8. ASSUME NEW p \in Proc, RestoreFromCheckpoint(p) \/ Start(p) PROVE Goal
  BY <1>0, <1>5, <1>8, BootDoes DEF store
<1>9. CASE LoopTurn
  BY <1>0, <1>5, <1>9, LoopDoes DEF store
<1>10. CASE (\E i \in Id : Elapse(i)) \/ (\E p \in Proc : Cancel(p)) \/ Restart
  BY <1>5, <1>10 DEF Elapse, Cancel, Restart, InitializePorts, store
<1> QED
  BY <1>1, <1>2, <1>3, <1>4, <1>6, <1>7, <1>8, <1>9, <1>10, StepCases

\* The replenisher alone adds instances, so what it has read of the list stays an upper
\* bound of its length, and the room it has found stays.
RoomInv ==
  /\ IsFiniteSet(Out)
  /\ pc[Loop] = "scard" => Len(poolReady) <= seenReady
  /\ pc[Loop] \in RoomLabel =>
       Len(poolReady) < TargetPoolSize /\ Len(poolReady) + Cardinality(Out) < MaxPoolSize

\* What ReplenishmentNeeded # 0 says of a reading without warming instances.
LEMMA NeededMeans ==
  ASSUME NEW r \in Nat, NEW n \in Nat
  PROVE  ReplenishmentNeeded([ready |-> r, assigned |-> n, warming |-> 0,
                              target |-> TargetPoolSize, capacity |-> MaxPoolSize]) # 0
           <=> r < TargetPoolSize /\ r + n < MaxPoolSize
  BY SizeAssumption DEF ReplenishmentNeeded, AvailableCapacity, Used

LEMMA SeenMeans ==
  ASSUME PoolInv, IsFiniteSet(Out)
  PROVE  /\ Cardinality(Out) \in Nat
         /\ ReplenishmentNeeded(Seen) # 0
              <=> seenReady < TargetPoolSize /\ seenReady + Cardinality(Out) < MaxPoolSize
<1>1. Cardinality(stateSet["warming"]) = 0
  BY FS_EmptySet DEF PoolInv, UseInv
<1>2. Cardinality(Out) \in Nat /\ seenReady \in Nat
  BY FS_CardinalityType DEF PoolInv, IndType, TypeOK, LoopTypeOK
<1> QED
  BY <1>1, <1>2, NeededMeans DEF Seen, Out

LEMMA FiniteNext ==
  ASSUME "slow" \notin Failure, PoolInv, IsFiniteSet(Out), Next
  PROVE  /\ IsFiniteSet(Out') /\ Cardinality(Out) \in Nat /\ Cardinality(Out') \in Nat
         /\ Len(poolReady) \in Nat /\ Len(poolReady') \in Nat
         /\ \/ \E p \in Worker \cup {Loop} : Push(p)
            \/ /\ Len(poolReady') <= Len(poolReady)
               /\ Len(poolReady') + Cardinality(Out') <= Len(poolReady) + Cardinality(Out)
               /\ \/ UNCHANGED <<poolReady, Out>>
                  \/ Contract!Grant
                  \/ \E i \in Id : Contract!Retire(i)
<1>0. Cardinality(Out) \in Nat /\ poolReady \in Seq(Id) /\ Len(poolReady) \in Nat
  BY FS_CardinalityType DEF PoolInv, IndType, TypeOK, StoreTypeOK
<1>1. CASE UNCHANGED <<poolReady, Out>>
  BY <1>0, <1>1
<1>2. CASE Contract!Grant
  <2>1. poolReady # <<>> /\ poolReady' = Tail(poolReady) /\ Out' = Out \cup {Head(poolReady)}
    BY <1>2 DEF Contract!Grant, Out
  <2>2. Len(poolReady) >= 1 /\ Len(poolReady') = Len(poolReady) - 1
    BY <1>0, <2>1
  <2>3. IsFiniteSet(Out') /\ Cardinality(Out') <= Cardinality(Out) + 1 /\ Cardinality(Out') \in Nat
    <3>1. /\ IsFiniteSet(Out \cup {Head(poolReady)})
          /\ Cardinality(Out \cup {Head(poolReady)}) =
               IF Head(poolReady) \in Out THEN Cardinality(Out) ELSE Cardinality(Out) + 1
      BY FS_AddElement
    <3> QED
      BY <1>0, <2>1, <3>1
  <2> QED
    BY <1>0, <1>2, <2>2, <2>3
<1>3. CASE \E i \in Id : Contract!Retire(i)
  <2>1. PICK i \in Id : poolReady' = poolReady /\ Out' = Out \ {i}
    BY <1>3 DEF Contract!Retire, Out
  <2>2. IsFiniteSet(Out') /\ Cardinality(Out') <= Cardinality(Out) /\ Cardinality(Out') \in Nat
    BY <1>0, <2>1, FS_Subset, FS_CardinalityType
  <2> QED
    BY <1>0, <1>3, <2>1, <2>2
<1>4. CASE \E p \in Worker \cup {Loop} : Push(p)
  <2>1. PICK p \in Worker \cup {Loop} : job[p] \in Id /\ poolReady' = Append(poolReady, job[p]) /\ Out' = Out
    BY <1>4 DEF Push
  <2> QED
    BY <1>0, <1>4, <2>1
<1> QED
  BY <1>1, <1>2, <1>3, <1>4, PoolMoves

LEMMA RoomInit == Init => RoomInv
<1> SUFFICES ASSUME Init PROVE RoomInv
  OBVIOUS
<1>1. pc[Loop] = "llen" /\ Out = {}
  BY Processes DEF Init, StoreInit, Out, State
<1> QED
  BY <1>1, FS_EmptySet DEF RoomInv, RoomLabel, MakeLabel

LEMMA RoomNext ==
  ASSUME Worker = {}, "slow" \notin Failure
  PROVE  PoolInv /\ RoomInv /\ [Next]_vars => RoomInv'
<1> SUFFICES ASSUME PoolInv, RoomInv, [Next]_vars PROVE RoomInv'
  OBVIOUS
<1>1. CASE UNCHANGED vars
  BY <1>1 DEF vars, store, loop, RoomInv, Out
<1>2. CASE Next
  <2>1. /\ IsFiniteSet(Out') /\ Cardinality(Out) \in Nat /\ Cardinality(Out') \in Nat
        /\ Len(poolReady) \in Nat /\ Len(poolReady') \in Nat
        /\ \/ Push(Loop)
           \/ /\ Len(poolReady') <= Len(poolReady)
              /\ Len(poolReady') + Cardinality(Out') <= Len(poolReady) + Cardinality(Out)
    BY <1>2, FiniteNext DEF RoomInv
  <2>2. /\ pc'[Loop] = "scard" =>
             \/ pc[Loop] = "scard" /\ seenReady' = seenReady
             \/ pc[Loop] = "llen" /\ seenReady' = Len(poolReady) /\ UNCHANGED store
        /\ pc'[Loop] \in RoomLabel =>
             \/ pc[Loop] \in RoomLabel
             \/ pc[Loop] = "scard" /\ ReplenishmentNeeded(Seen) # 0 /\ UNCHANGED store
    BY <1>2, LoopLabels DEF PoolInv
  <2>3. seenReady \in Nat /\ TargetPoolSize \in Nat /\ MaxPoolSize \in Nat
    BY SizeAssumption DEF PoolInv, IndType, TypeOK, LoopTypeOK
  <2>4. pc'[Loop] = "scard" => Len(poolReady') <= seenReady'
    BY <2>1, <2>2, <2>3 DEF RoomInv, Push, store
  <2>5. ASSUME pc'[Loop] \in RoomLabel
        PROVE  Len(poolReady') < TargetPoolSize /\ Len(poolReady') + Cardinality(Out') < MaxPoolSize
    <3>1. CASE pc[Loop] \in RoomLabel
      BY <2>1, <2>3, <2>5, <3>1 DEF RoomInv, Push
    <3>2. CASE pc[Loop] = "scard" /\ ReplenishmentNeeded(Seen) # 0 /\ UNCHANGED store
      <4>1. seenReady < TargetPoolSize /\ seenReady + Cardinality(Out) < MaxPoolSize
        BY <3>2, SeenMeans DEF RoomInv
      <4>2. Len(poolReady) <= seenReady /\ poolReady' = poolReady /\ Out' = Out
        BY <3>2 DEF RoomInv, store, Out
      <4> QED
        BY <2>1, <2>3, <4>1, <4>2
    <3> QED
      BY <2>2, <2>5, <3>1, <3>2
  <2> QED
    BY <2>1, <2>4, <2>5 DEF RoomInv
<1> QED
  BY <1>1, <1>2

\* The ready list and the assigned set implement PoolContract, as long as the replenisher
\* is the only provisioner and no request outlasts its instance: a bounded FIFO queue
\* whose entries are handed out once and never come back, whatever else fails.
THEOREM ImplementsContractHolds ==
  ASSUME Worker = {}, "slow" \notin Failure PROVE Spec => ImplementsContract
<1>1. Init => Contract!Init
  BY DEF Init, StoreInit, State, Contract!Init
<1>2. PoolInv /\ RoomInv /\ [Next]_vars => [Contract!Next]_<<poolReady, stateSet["assigned"]>>
  <2> SUFFICES ASSUME PoolInv, RoomInv, [Next]_vars
               PROVE  Contract!Next \/ UNCHANGED <<poolReady, Out>>
    BY DEF Out
  <2>1. CASE UNCHANGED vars
    BY <2>1 DEF vars, store, Out
  <2>2. CASE Next
    <3>1. CASE Push(Loop)
      <4>1. /\ job[Loop] \in Id /\ job[Loop] \notin {poolReady[k] : k \in DOMAIN poolReady} \cup Out
            /\ Len(poolReady) < TargetPoolSize /\ Len(poolReady) + Cardinality(Out) < MaxPoolSize
            /\ poolReady' = Append(poolReady, job[Loop]) /\ Out' = Out
        BY <3>1 DEF Push, RoomInv, RoomLabel, MakeLabel, Elements
      <4>2. Contract!Cardinality(Out) = Cardinality(Out)
        BY DEF Contract!Cardinality, Cardinality
      <4>3. Contract!Add(job[Loop])
        BY <4>1, <4>2 DEF Contract!Add, Contract!Queued, Out
      <4> QED
        BY <4>1, <4>3 DEF Contract!Next
    <3> QED
      BY <2>2, <3>1, PoolMoves DEF Contract!Next
  <2> QED
    BY <2>1, <2>2
<1>3. PoolInv /\ RoomInv /\ [Next]_vars => RoomInv'
  BY RoomNext
<1> QED
  BY <1>1, <1>2, <1>3, RoomInit, PoolInvHolds, PTL DEF Spec, ImplementsContract, Contract!Spec

-----------------------------------------------------------------------------
(* The trigger.                                                            *)

LEMMA OutNext ==
  ASSUME PoolInv, Next PROVE \E x : Out' \subseteq Out \cup {x}
<1> USE Processes
<1>0. IndType /\ ClaimInv /\ "assigned" \in State
  BY DEF PoolInv, State
<1>1. ASSUME UNCHANGED stateSet PROVE \E x : Out' \subseteq Out \cup {x}
  BY <1>1 DEF Out
<1>2. ASSUME NEW a \in Acquirer, AcquireFromPool(a) PROVE \E x : Out' \subseteq Out \cup {x}
  BY <1>2, PopMoves DEF Contract!Grant, Out
<1>3. ASSUME NEW p \in Proc, Served(p) \/ Release(p) \/ Makes(p) PROVE \E x : Out' \subseteq Out \cup {x}
  <2>1. \A s \in State : \A i \in stateSet'[s] : i \in stateSet[s] \/ i = job[p]
    <3>1. Served(p) => \A s \in State : \A i \in stateSet'[s] : i \in stateSet[s] \/ i = job[p]
      BY <1>0, ServedEffects
    <3>2. Release(p) => \A s \in State : \A i \in stateSet'[s] : i \in stateSet[s]
      BY <1>0, ReleaseEffects
    <3>3. ASSUME Makes(p) PROVE \A s \in State : \A i \in stateSet'[s] : i \in stateSet[s] \/ i = job[p]
      <4>1. \A s \in State : \A i \in stateSet'[s] :
              i \in stateSet[s] \/ (pc[p] = "addIndex" /\ i = job[p] /\ s = inst[p].state)
        BY <1>0, <3>3, MakesEffects
      <4> QED
        BY <4>1
    <3> QED
      BY <1>3, <3>1, <3>2, <3>3
  <2>2. \A i \in Out' : i \in Out \/ i = job[p]
    BY <1>0, <2>1 DEF Out
  <2> QED
    BY <2>2
<1>4. ASSUME NEW d \in Deleter, Delete(d) PROVE \E x : Out' \subseteq Out \cup {x}
  BY <1>0, <1>1, <1>4, DeleteDoes DEF store
<1>5. ASSUME NEW w \in Worker, ProvisionOne(w) PROVE \E x : Out' \subseteq Out \cup {x}
  BY <1>0, <1>1, <1>5, ProvisionOneDoes DEF store
<1>6. ASSUME NEW p \in Proc, RestoreFromCheckpoint(p) \/ Start(p) PROVE \E x : Out' \subseteq Out \cup {x}
  BY <1>0, <1>1, <1>6, BootDoes DEF store
<1>7. CASE LoopTurn
  BY <1>0, <1>1, <1>7, LoopDoes DEF store
<1>8. CASE (\E i \in Id : Elapse(i)) \/ (\E p \in Proc : Cancel(p)) \/ Restart
  BY <1>1, <1>8 DEF Elapse, Cancel, Restart, InitializePorts, store
<1> QED
  BY <1>2, <1>3, <1>4, <1>5, <1>6, <1>7, <1>8, StepCases

\* Finitely many instances are out, so that the sizes that SCARD returns add up.
OutInv == IsFiniteSet(Out)

LEMMA OutHolds == Spec => []OutInv
<1>1. Init => OutInv
  <2>1. Init => Out = {}
    BY DEF Init, StoreInit, Out, State
  <2> QED
    BY <2>1, FS_EmptySet DEF OutInv
<1>2. PoolInv /\ OutInv /\ [Next]_vars => OutInv'
  <2> SUFFICES ASSUME PoolInv, IsFiniteSet(Out), [Next]_vars PROVE IsFiniteSet(Out')
    BY DEF OutInv
  <2>1. CASE UNCHANGED vars
    BY <2>1 DEF vars, store, Out
  <2>2. CASE Next
    <3>1. PICK x : Out' \subseteq Out \cup {x}
      BY <2>2, OutNext
    <3>2. IsFiniteSet(Out \cup {x})
      BY FS_AddElement
    <3> QED
      BY <3>1, <3>2, FS_Subset
  <2> QED
    BY <2>1, <2>2
<1> QED
  BY <1>1, <1>2, PoolInvHolds, PTL DEF Spec

\* Where a request that has taken an instance has not sent its trigger yet.
Triggering == {"ttlGet", "ttlSet", "route", "signal"}

\* Between the LLEN and the SCARD of TriggerReplenish the list gets shorter only by pops
\* whose trigger is on its way or in the channel.
TriggerInv ==
  pc[Loop] = "scard" =>
    \/ seenReady <= Len(poolReady)
    \/ replenishCh = TRUE
    \/ \E a \in Acquirer : pc[a] \in Triggering

LEMMA TriggerInit == Init => TriggerInv
<1>1. Init => pc[Loop] = "llen"
  BY Processes DEF Init
<1> QED
  BY <1>1 DEF TriggerInv

LEMMA TriggerNext ==
  ASSUME "lost" \notin Failure
  PROVE  PoolInv /\ Calm /\ TriggerInv /\ [Next]_vars => TriggerInv'
<1> SUFFICES ASSUME PoolInv, Calm, TriggerInv, Next, pc'[Loop] = "scard",
                    pc[Loop] = "scard", seenReady' = seenReady
             PROVE  \/ seenReady' <= Len(poolReady')
                    \/ replenishCh' = TRUE
                    \/ \E a \in Acquirer : pc'[a] \in Triggering
  <2>1. ASSUME PoolInv, TriggerInv, UNCHANGED vars PROVE TriggerInv'
    BY <2>1 DEF vars, store, loop, TriggerInv
  <2>2. ASSUME PoolInv, Calm, TriggerInv, Next PROVE TriggerInv'
    <3>1. /\ pc'[Loop] = "scard" =>
               \/ pc[Loop] = "scard" /\ seenReady' = seenReady
               \/ pc[Loop] = "llen" /\ seenReady' = Len(poolReady) /\ UNCHANGED store
      BY <2>2, LoopLabels DEF PoolInv
    <3>2. Len(poolReady) \in Nat
      BY <2>2 DEF PoolInv, IndType, TypeOK, StoreTypeOK
    <3>3. CASE pc[Loop] = "llen" /\ seenReady' = Len(poolReady) /\ UNCHANGED store
      BY <3>2, <3>3 DEF TriggerInv, store
    <3>4. CASE pc'[Loop] = "scard" /\ pc[Loop] = "scard" /\ seenReady' = seenReady
      BY <2>2, <3>4 DEF TriggerInv
    <3> QED
      BY <3>1, <3>3, <3>4 DEF TriggerInv
  <2> QED
    BY <2>1, <2>2
<1> DEFINE Goal == \/ seenReady' <= Len(poolReady')
                   \/ replenishCh' = TRUE
                   \/ \E a \in Acquirer : pc'[a] \in Triggering
<1> USE Processes
<1>0. /\ IndType /\ ClaimInv /\ LifeInv /\ SoleInv /\ ctxDone = {}
      /\ Len(poolReady) \in Nat /\ seenReady \in Nat /\ poolReady \in Seq(Id)
  BY DEF PoolInv, Calm, IndType, TypeOK, StoreTypeOK, LoopTypeOK
<1>1. ASSUME replenishCh' = replenishCh, poolReady' = poolReady,
             \A a \in Acquirer : pc[a] \in Triggering => pc'[a] = pc[a]
      PROVE  Goal
  BY <1>1 DEF TriggerInv
<1>2. ASSUME NEW p \in Proc, Frame(p), pc[p] \notin Triggering, UNCHANGED <<replenishCh, poolReady>> PROVE Goal
  BY <1>1, <1>2 DEF Frame
<1>3. ASSUME NEW a \in Acquirer, AcquireFromPool(a) PROVE Goal
  <2>1. replenishCh' = replenishCh
    BY <1>0, <1>3, PopDoes
  <2> QED
    BY <1>1, <1>3, <2>1, PopMoves DEF Triggering
<1>4. ASSUME NEW a \in Acquirer, Served(a) PROVE Goal
  <2>1. /\ Frame(a) /\ poolReady' = poolReady /\ (replenishCh' = replenishCh \/ replenishCh' = TRUE)
        /\ pc[a] = "signal" => replenishCh' = TRUE
        /\ pc[a] = "ttlGet" /\ record[job[a]] # None => pc'[a] = "ttlSet"
        /\ pc[a] = "ttlSet" => pc'[a] = "route"
        /\ pc[a] = "route" => pc'[a] = "signal"
    BY <1>0, <1>4, ServedLocals, ServedSure
  <2>2. pc[a] = "ttlGet" => record[job[a]] # None
    BY <1>0 DEF SoleInv, Sole, Unrivalled
  <2>3. \A b \in Acquirer : pc[b] \in Triggering => pc'[b] \in Triggering \/ replenishCh' = TRUE
    BY <2>1, <2>2 DEF Triggering, Frame
  <2> QED
    BY <2>1, <2>3 DEF TriggerInv
<1>5. ASSUME NEW d \in Deleter, Delete(d) PROVE Goal
  BY <1>0, <1>2, <1>5, DeleteDoes DEF store, Triggering
<1>6. ASSUME NEW w \in Worker, ProvisionOne(w) PROVE Goal
  BY <1>0, <1>2, <1>6, ProvisionOneDoes DEF store, Triggering
<1>7. ASSUME NEW p \in Proc, Release(p) PROVE Goal
  <2>1. Frame(p) /\ pc[p] \in ReleaseLabel /\ UNCHANGED <<poolReady, replenishCh>>
    BY <1>0, <1>7, ReleaseLocals
  <2> QED
    BY <1>2, <2>1 DEF ReleaseLabel, Triggering
<1>8. ASSUME NEW p \in Proc, RestoreFromCheckpoint(p) \/ Start(p) PROVE Goal
  BY <1>0, <1>2, <1>8, BootDoes DEF store, Triggering
<1>9. ASSUME NEW p \in Proc, Makes(p) PROVE Goal
  <2>1. /\ Frame(p) /\ pc[p] \in ProvisionLabel /\ replenishCh' = replenishCh
        /\ pc[p] = "push" => job[p] \in Id
    BY <1>0, <1>9, MakesLocals DEF IndType, LocalsOK, HasJob
  <2>2. CASE poolReady' = poolReady
    BY <1>2, <2>1, <2>2 DEF ProvisionLabel, Triggering
  <2>3. CASE pc[p] = "push" /\ poolReady' = Append(poolReady, job[p])
    <3>1. Len(poolReady') = Len(poolReady) + 1
      BY <1>0, <2>1, <2>3
    <3>2. \A a \in Acquirer : pc[a] \in Triggering => pc'[a] = pc[a]
      BY <2>1, <2>3 DEF Frame, Triggering
    <3> QED
      BY <1>0, <2>1, <3>1, <3>2 DEF TriggerInv
  <2> QED
    BY <1>0, <1>9, <2>2, <2>3, MakesEffects
<1>10. CASE LoopTurn
  BY <1>0, <1>10, LoopDoes
<1>11. CASE (\E i \in Id : Elapse(i)) \/ (\E p \in Proc : Cancel(p))
  BY <1>1, <1>11 DEF Elapse, Cancel, store
<1>12. CASE Restart
  BY <1>12 DEF Restart
<1> QED
  BY <1>3, <1>4, <1>5, <1>6, <1>7, <1>8, <1>9, <1>10, <1>11, <1>12, StepCases

\* No trigger is lost as long as no command or context is, over restarts too: however the pops
\* fall between the two reads of TriggerReplenish, when it finds nothing to do the pool is
\* full, the cap is reached, or another pass is sure to come.
THEOREM NoLostTriggerHolds ==
  ASSUME "lost" \notin Failure, "cancel" \notin Failure PROVE Spec => NoLostTrigger
<1>1. PoolInv /\ OutInv /\ Calm /\ TriggerInv /\ [Next]_vars =>
        [StopsReplenishing =>
           \/ Len(poolReady) >= TargetPoolSize
           \/ Len(poolReady) + Cardinality(stateSet["assigned"]) >= MaxPoolSize
           \/ replenishCh
           \/ \E a \in Acquirer : pc[a] \in {"ttlGet", "ttlSet", "route", "signal"}]_vars
  <2> SUFFICES ASSUME PoolInv, IsFiniteSet(Out), ctxDone = {}, TriggerInv, Next,
                      pc[Loop] = "scard", pc'[Loop] \in {"select", "list"},
                      seenReady <= Len(poolReady)
               PROVE  \/ Len(poolReady) >= TargetPoolSize
                      \/ Len(poolReady) + Cardinality(Out) >= MaxPoolSize
    BY DEF OutInv, Calm, TriggerInv, Triggering, StopsReplenishing, At, Out
  <2>1. ReadAssigned
    <3> USE Processes, ProcAssumption DEF PoolInv
    <3>1. ASSUME NEW p \in Proc, Frame(p), pc[p] # "scard" PROVE FALSE
      BY <3>1 DEF Frame
    <3>2. ~\E a \in Acquirer : AcquireFromPool(a) \/ Served(a)
      <4>1. ASSUME NEW a \in Acquirer, AcquireFromPool(a) \/ Served(a) PROVE FALSE
        <5>1. pc' = pc \/ (Frame(a) /\ pc[a] # "scard")
          BY <4>1, PopDoes, ServedLocals DEF Takes, AcquireLabel
        <5> QED
          BY <3>1, <5>1
      <4> QED
        BY <4>1
    <3>3. ~\E d \in Deleter : Delete(d)
      BY <3>1, DeleteDoes
    <3>4. ~\E w \in Worker : ProvisionOne(w)
      BY <3>1, ProvisionOneDoes
    <3>5. ASSUME NEW p \in Proc, Release(p) \/ RestoreFromCheckpoint(p) \/ Start(p) \/ Makes(p) PROVE FALSE
      <4>1. Frame(p) /\ pc[p] # "scard"
        BY <3>5, ReleaseLocals, BootDoes, MakesLocals DEF ReleaseLabel, ProvisionLabel
      <4> QED
        BY <3>1, <4>1
    <3>6. ~((\E i \in Id : Elapse(i)) \/ (\E p \in Proc : Cancel(p)) \/ Restart)
      <4>1. Restart => pc'[Loop] = "llen"
        BY Processes DEF Restart
      <4> QED
        BY <4>1 DEF Elapse, Cancel, Fails
    <3>7. LoopTurn
      BY <3>2, <3>3, <3>4, <3>5, <3>6, StepCases
    <3>8. ~FetchAssigned /\ ~Sweep
      BY DEF FetchAssigned, Sweep, At
    <3> QED
      BY <3>7, <3>8 DEF LoopTurn, Trigger, Tick, Wake, ReadReady, ListAssigned, At
  <2>2. ReplenishmentNeeded(Seen) = 0
    <3>1. Resume(Loop, "alloc") => pc'[Loop] = "alloc"
      BY Processes, SendDoes DEF Resume, PoolInv, IndType, TypeOK
    <3> QED
      BY <2>1, <3>1 DEF ReadAssigned, Query, Lost, Refused, Fails
  <2>3. Cardinality(Out) \in Nat /\ ~(seenReady < TargetPoolSize /\ seenReady + Cardinality(Out) < MaxPoolSize)
    BY <2>2, SeenMeans
  <2>4. Len(poolReady) \in Nat /\ seenReady \in Nat
    BY DEF PoolInv, IndType, TypeOK, StoreTypeOK, LoopTypeOK
  <2> QED
    BY <2>3, <2>4, SizeAssumption
<1>2. PoolInv /\ Calm /\ TriggerInv /\ [Next]_vars => TriggerInv'
  BY TriggerNext
<1>3. Spec => []Calm
  BY CalmHolds
<1> QED
  BY <1>1, <1>2, <1>3, TriggerInit, OutHolds, PoolInvHolds, PTL DEF Spec, NoLostTrigger
=============================================================================
