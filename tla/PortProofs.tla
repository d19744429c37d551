----------------------------- MODULE PortProofs -----------------------------
(***************************************************************************)
(* Containers, ports and routes of the warm pool, for every value of its   *)
(* constants: what the ready list offers can be served, routes lead to     *)
(* their own container, the cap holds, and no port is lost or used twice.  *)
(***************************************************************************)
EXTENDS PoolProofs

-----------------------------------------------------------------------------
(* What the steps of Release and of provisionInstance do to the ports.     *)

\* Release goes through its commands in one order.
LEMMA ReleaseOrder ==
  ASSUME IndType, NEW p \in Proc, Release(p)
  PROVE  \/ Leaves(p)
         \/ pc[p] = "rGet" /\ pc'[p] = "rRoute"
         \/ pc[p] = "rRoute" /\ pc'[p] = "rDrop"
         \/ pc[p] = "rDrop" /\ pc'[p] = "rStop"
         \/ pc[p] = "rStop" /\ pc'[p] = "rUntrack"
         \/ pc[p] = "rUntrack" /\ pc'[p] \in {"rReturn", "dGet"}
         \/ pc[p] = "rReturn" /\ pc'[p] = "dGet"
         \/ pc[p] = "dGet" /\ pc'[p] = "dSRem"
         \/ pc[p] = "dSRem" /\ pc'[p] = "dDel"
<1>0. ProcTypeOK
  BY DEF IndType, TypeOK
<1>1. \A l : Send(p, l) => pc'[p] = l
  BY <1>0 DEF Send, Goto, ProcTypeOK
<1>2. \A l : Goto(p, l) => pc'[p] = l
  BY <1>0 DEF Goto, ProcTypeOK
<1>3. Released(p) => Leaves(p)
  BY <1>0, ReleasedDoes
<1>4. CASE GetForRelease(p)
  BY <1>2, <1>3, <1>4 DEF GetForRelease, Query, At
<1>5. CASE RemoveRoute(p) \/ DropPrefixedTables(p)
  BY <1>1, <1>5 DEF RemoveRoute, DropPrefixedTables, Attempt, Call, At
<1>6. CASE Stop(p)
  BY <1>1, <1>6 DEF Stop, RuntimeCall, At
<1>7. CASE UntrackPort(p) \/ ReturnPort(p)
  BY <1>1, <1>7 DEF UntrackPort, ReturnPort, Attempt, Call, At
<1>8. CASE GetForDelete(p)
  BY <1>2, <1>3, <1>8 DEF GetForDelete, Query, At
<1>9. CASE RemoveFromStateSet(p) \/ DeleteRecord(p)
  BY <1>1, <1>3, <1>9 DEF RemoveFromStateSet, DeleteRecord, Call, At
<1> QED
  BY <1>4, <1>5, <1>6, <1>7, <1>8, <1>9 DEF Release

LEMMA MakesPorts ==
  ASSUME IndType, NEW p \in Proc, Makes(p)
  PROVE  /\ pc[p] \notin {"alloc", "undoReturn"} => portsAvailable' = portsAvailable
         /\ pc[p] = "undoReturn" => portsAvailable' \in {portsAvailable, portsAvailable \cup {inst[p].port}}
         /\ pc[p] = "alloc" => portsAvailable' \subseteq portsAvailable
         /\ pc[p] = "alloc" /\ "lost" \notin Failure =>
              \/ Leaves(p) /\ portsAvailable' = portsAvailable
              \/ /\ pc'[p] = "track"
                 /\ \E n \in portsAvailable :
                      inst'[p] = Warming(n) /\ portsAvailable' = portsAvailable \ {n}
<1> USE DEF Makes, AllocatePort, TrackPort, WaitForReady, AddRecord, AddToStateSet, PushReady, UndoStop,
            UndoUntrackPort, UndoReturnPort, StopContainer, RuntimeCall, Call, Query, Set, SAddState,
            RPush, SPopPort, STrackPort, SUntrackPort, SReturnPort, store, outside, At
<1>0. ProcTypeOK
  BY DEF IndType, TypeOK
<1>1. /\ pc[p] \notin {"alloc", "undoReturn"} => portsAvailable' = portsAvailable
      /\ pc[p] = "undoReturn" => portsAvailable' \in {portsAvailable, portsAvailable \cup {inst[p].port}}
      /\ pc[p] = "alloc" => portsAvailable' \subseteq portsAvailable
  OBVIOUS
<1>2. ASSUME pc[p] = "alloc", "lost" \notin Failure
      PROVE  \/ Leaves(p) /\ portsAvailable' = portsAvailable
             \/ /\ pc'[p] = "track"
                /\ \E n \in portsAvailable :
                     inst'[p] = Warming(n) /\ portsAvailable' = portsAvailable \ {n}
  <2>1. AllocatePort(p)
    BY <1>2
  <2>2. ~Lost(p)
    BY <1>2 DEF Lost, Fails
  <2>3. \/ ProvisionFailed(p) /\ portsAvailable' = portsAvailable
        \/ \E n \in portsAvailable :
             /\ portsAvailable' = portsAvailable \ {n} /\ Goto(p, "track")
             /\ inst' = [inst EXCEPT ![p] = Warming(n)]
    BY <2>1, <2>2
  <2>3a. ProvisionFailed(p) => Leaves(p)
    BY <1>0, ProvisionOverDoes
  <2>4. ASSUME NEW n, Goto(p, "track"), inst' = [inst EXCEPT ![p] = Warming(n)]
        PROVE  pc'[p] = "track" /\ inst'[p] = Warming(n)
    BY <1>0, <2>4 DEF Goto, ProcTypeOK
  <2> QED
    BY <2>3, <2>3a, <2>4
<1> QED
  BY <1>1, <1>2

LEMMA MakesSure ==
  ASSUME IndType, NEW p \in Proc, Makes(p), p \notin ctxDone, "lost" \notin Failure
  PROVE  /\ pc[p] = "track" => pc'[p] \in {"restore", "start"}
         /\ pc[p] \in {"addSet", "addIndex"} => pc'[p] # "undoStop"
         /\ pc[p] = "push" => Leaves(p)
         /\ pc[p] = "undoStop" => pc'[p] = "undoUntrack" /\ running'[job[p]] = None
         /\ pc[p] = "undoUntrack" => pc'[p] = "undoReturn"
         /\ pc[p] = "undoReturn" => inst[p].port \in portsAvailable'
<1>0. ProcTypeOK /\ OutsideTypeOK /\ ~Lost(p) /\ ~RuntimeLost(p) /\ ~Refused(p) /\ ~RuntimeRefused(p)
  BY DEF IndType, TypeOK, Lost, Fails, Refused, RuntimeLost, RuntimeRefused
<1>1. CASE AllocatePort(p) \/ WaitForReady(p)
  BY <1>1 DEF AllocatePort, WaitForReady, At
<1>2. CASE TrackPort(p)
  BY <1>0, <1>2 DEF TrackPort, Call, Resume, Send, Goto, At, ProcTypeOK
<1>3. CASE AddRecord(p)
  BY <1>0, <1>3 DEF AddRecord, Call, Resume, Send, Goto, At, ProcTypeOK
<1>4. CASE AddToStateSet(p)
  BY <1>0, <1>4 DEF AddToStateSet, Call, Resume, Send, Goto, At, ProcTypeOK
<1>5. CASE PushReady(p)
  BY <1>0, <1>5, ProvisionOverDoes DEF PushReady, Call, At
<1>6. CASE UndoStop(p)
  <2>1. StopContainer(job[p]) /\ Send(p, "undoUntrack") /\ pc[p] = "undoStop"
    BY <1>0, <1>6 DEF UndoStop, RuntimeCall, At
  <2>2. job[p] \in Id
    BY <2>1 DEF IndType, LocalsOK, HasJob
  <2> QED
    BY <1>0, <2>1, <2>2 DEF StopContainer, Send, Goto, ProcTypeOK, OutsideTypeOK
<1>7. CASE UndoUntrackPort(p)
  BY <1>0, <1>7 DEF UndoUntrackPort, Call, Resume, Send, Goto, At, ProcTypeOK
<1>8. CASE UndoReturnPort(p)
  BY <1>0, <1>8 DEF UndoReturnPort, Call, SReturnPort, At
<1> QED
  BY <1>1, <1>2, <1>3, <1>4, <1>5, <1>6, <1>7, <1>8 DEF Makes

\* A call of the runtime that stops a container is carried out, if no call is lost and
\* Podman, or Docker under a living context, is called.
LEMMA StopSure ==
  ASSUME IndType, NEW p \in Proc, "lost" \notin Failure, ContainerMode # "docker" \/ p \notin ctxDone
  PROVE  /\ Release(p) /\ pc[p] = "rStop" => pc'[p] = "rUntrack" /\ running'[job[p]] = None
         /\ Makes(p) /\ pc[p] = "undoStop" => pc'[p] = "undoUntrack" /\ running'[job[p]] = None
<1>0. ProcTypeOK /\ OutsideTypeOK /\ ~RuntimeLost(p) /\ ~RuntimeRefused(p)
  BY DEF IndType, TypeOK, Lost, Fails, Refused, RuntimeLost, RuntimeRefused
<1>1. ASSUME NEW l, StopContainer(job[p]), Send(p, l), job[p] \in Id
      PROVE  pc'[p] = l /\ running'[job[p]] = None
  BY <1>0, <1>1 DEF StopContainer, Send, Goto, ProcTypeOK, OutsideTypeOK
<1>2. pc[p] \in {"rStop", "undoStop"} => job[p] \in Id
  BY DEF IndType, LocalsOK, HasJob, ReleaseLabel
<1>3. Release(p) /\ pc[p] = "rStop" => Stop(p)
  BY DEF Release, GetForRelease, RemoveRoute, DropPrefixedTables, UntrackPort, ReturnPort, GetForDelete,
         RemoveFromStateSet, DeleteRecord, At
<1>4. Makes(p) /\ pc[p] = "undoStop" => UndoStop(p)
  BY DEF Makes, AllocatePort, TrackPort, WaitForReady, AddRecord, AddToStateSet, PushReady,
         UndoUntrackPort, UndoReturnPort, At
<1> QED
  BY <1>0, <1>1, <1>2, <1>3, <1>4 DEF Stop, UndoStop, RuntimeCall

\* Docker, called in the context of a request that is over, does nothing.
LEMMA StopRefused ==
  ASSUME NEW p \in Proc, "lost" \notin Failure, ContainerMode = "docker", p \in ctxDone,
         Release(p) \/ Makes(p), pc[p] \in {"rStop", "undoStop"}
  PROVE  running' = running
<1>1. ~Answered(p) /\ ~Lost(p)
  BY DEF Answered, Lost
<1>2. Stop(p) \/ UndoStop(p)
  BY DEF Release, GetForRelease, RemoveRoute, DropPrefixedTables, UntrackPort, ReturnPort, GetForDelete,
         RemoveFromStateSet, DeleteRecord, Makes, AllocatePort, TrackPort, WaitForReady, AddRecord,
         AddToStateSet, PushReady, UndoUntrackPort, UndoReturnPort, At
<1> QED
  BY <1>1, <1>2 DEF Stop, UndoStop, RuntimeCall, RuntimeAnswered, RuntimeLost, RuntimeRefused, outside

-----------------------------------------------------------------------------
(* One port for one instance.                                              *)

\* The copies of an instance that processes have in memory, its record and what a request
\* has read of it all name the same port.
PortInv ==
  /\ \A p, q \in Proc :
       job[p] = job[q] /\ job[p] # None /\ pc[p] \in HasInst /\ pc[q] \in HasInst
         => inst[p].port = inst[q].port
  /\ \A p \in Proc :
       /\ pc[p] \in HasInst /\ job[p] # None /\ record[job[p]] # None
            => record[job[p]].port = inst[p].port
       /\ pc[p] = "ttlSet" => read[p].port = inst[p].port

\* A step of p after which the ports are those of before.
LEMMA PortStep ==
  ASSUME IndType, PortInv, NEW p \in Proc, Frame(p),
         \A i \in Id : \/ record'[i] \in {record[i], None}
                       \/ i = job[p] /\ pc[p] \in HasInst /\ record'[i].port = inst[p].port
                       \/ record[i] # None /\ record'[i].port = record[i].port,
         pc'[p] \in HasInst /\ job'[p] # None =>
           \/ pc[p] \in HasInst /\ job'[p] = job[p] /\ inst'[p].port = inst[p].port
           \/ /\ job'[p] \in Id /\ record[job'[p]] # None
              /\ inst'[p].port = record[job'[p]].port
           \/ job'[p] \in Id /\ record'[job'[p]] = None /\ \A q \in Proc : job[q] # job'[p],
         pc'[p] = "ttlSet" => read'[p].port = inst'[p].port
  PROVE  PortInv'
<1>0. None \notin Id /\ \A q \in Proc : job[q] \in Id \cup {None}
  BY ElementsType DEF IndType, TypeOK, ProcTypeOK
<1>1. \A q \in Proc \ {p} : pc'[q] = pc[q] /\ job'[q] = job[q] /\ inst'[q] = inst[q] /\ read'[q] = read[q]
  BY DEF Frame
<1>2. ASSUME NEW q \in Proc, pc[q] \in HasInst, job[q] # None, record'[job[q]] # None
      PROVE  record'[job[q]].port = inst[q].port
  <2>1. job[q] \in Id
    BY <1>0, <1>2
  <2>2. \/ record'[job[q]] = record[job[q]]
        \/ job[q] = job[p] /\ pc[p] \in HasInst /\ record'[job[q]].port = inst[p].port
        \/ record[job[q]] # None /\ record'[job[q]].port = record[job[q]].port
    BY <1>2, <2>1
  <2>3. job[q] = job[p] /\ pc[p] \in HasInst => inst[p].port = inst[q].port
    BY <1>2 DEF PortInv
  <2>4. record[job[q]] # None => record[job[q]].port = inst[q].port
    BY <1>2 DEF PortInv
  <2> QED
    BY <1>2, <2>2, <2>3, <2>4
<1>3. ASSUME NEW q \in Proc \ {p}, pc'[p] \in HasInst, job'[p] # None, pc'[q] \in HasInst, job'[q] = job'[p]
      PROVE  inst'[p].port = inst'[q].port
  <2>1. pc[q] \in HasInst /\ job[q] = job'[p] /\ inst'[q] = inst[q]
    BY <1>1, <1>3
  <2>2. CASE pc[p] \in HasInst /\ job'[p] = job[p] /\ inst'[p].port = inst[p].port
    <3>1. inst[p].port = inst[q].port
      BY <1>3, <2>1, <2>2 DEF PortInv
    <3> QED
      BY <2>1, <2>2, <3>1
  <2>3. CASE record[job'[p]] # None /\ inst'[p].port = record[job'[p]].port
    <3>1. record[job[q]].port = inst[q].port
      BY <1>3, <2>1, <2>3 DEF PortInv
    <3> QED
      BY <2>1, <2>3, <3>1
  <2> QED
    BY <1>3, <2>1, <2>2, <2>3
<1>4. ASSUME pc'[p] \in HasInst, job'[p] # None, record'[job'[p]] # None
      PROVE  record'[job'[p]].port = inst'[p].port
  <2>1. CASE pc[p] \in HasInst /\ job'[p] = job[p] /\ inst'[p].port = inst[p].port
    <3>1. record'[job[p]].port = inst[p].port
      BY <1>2, <1>4, <2>1
    <3> QED
      BY <2>1, <3>1
  <2>2. CASE job'[p] \in Id /\ record[job'[p]] # None /\ inst'[p].port = record[job'[p]].port
    <3>1. \/ record'[job'[p]] = record[job'[p]]
          \/ job'[p] = job[p] /\ pc[p] \in HasInst /\ record'[job'[p]].port = inst[p].port
          \/ record'[job'[p]].port = record[job'[p]].port
      BY <1>4, <2>2
    <3>2. job'[p] = job[p] /\ pc[p] \in HasInst => record[job[p]].port = inst[p].port
      BY <1>4, <2>2 DEF PortInv
    <3> QED
      BY <2>2, <3>1, <3>2
  <2> QED
    BY <1>4, <2>1, <2>2
<1>5. ASSUME NEW r \in Proc, NEW q \in Proc, job'[r] = job'[q], job'[r] # None, pc'[r] \in HasInst, pc'[q] \in HasInst
      PROVE  inst'[r].port = inst'[q].port
  <2>1. CASE r # p /\ q # p
    <3>1. job[r] = job[q] /\ job[r] # None /\ pc[r] \in HasInst /\ pc[q] \in HasInst
          /\ inst'[r] = inst[r] /\ inst'[q] = inst[q]
      BY <1>1, <1>5, <2>1
    <3> QED
      BY <3>1 DEF PortInv
  <2>2. CASE r = p /\ q # p
    BY <1>3, <1>5, <2>2
  <2>3. CASE r # p /\ q = p
    BY <1>3, <1>5, <2>3
  <2> QED
    BY <2>1, <2>2, <2>3
<1>6. ASSUME NEW q \in Proc
      PROVE  /\ pc'[q] \in HasInst /\ job'[q] # None /\ record'[job'[q]] # None
                  => record'[job'[q]].port = inst'[q].port
             /\ pc'[q] = "ttlSet" => read'[q].port = inst'[q].port
  <2>1. CASE q = p
    BY <1>4, <2>1
  <2>2. CASE q # p
    <3>1. pc'[q] = pc[q] /\ job'[q] = job[q] /\ inst'[q] = inst[q] /\ read'[q] = read[q]
      BY <1>1, <2>2
    <3>2. pc[q] = "ttlSet" => read[q].port = inst[q].port
      BY DEF PortInv
    <3> QED
      BY <1>2, <3>1, <3>2
  <2> QED
    BY <2>1, <2>2
<1> QED
  BY <1>5, <1>6 DEF PortInv

LEMMA PortInit == Init => PortInv
<1> SUFFICES ASSUME Init PROVE PortInv
  OBVIOUS
<1>1. \A p \in Proc : pc[p] \in {"idle", "llen"} /\ job[p] = None
  BY DEF Init
<1> QED
  BY <1>1 DEF PortInv

LEMMA PortNext == PoolInv /\ PortInv /\ [Next]_vars => PortInv'
<1> SUFFICES ASSUME PoolInv, PortInv, [Next]_vars PROVE PortInv'
  OBVIOUS
<1> USE Processes
<1>0. IndType /\ ClaimInv /\ LifeInv /\ UseInv /\ SoleInv
  BY DEF PoolInv
<1>1. CASE UNCHANGED vars
  BY <1>1 DEF vars, store, locals, PortInv
<1>2. ASSUME NEW p \in Proc, Frame(p), record' = record, pc'[p] \notin HasInst PROVE PortInv'
  BY <1>0, <1>2, PortStep DEF HasInst
<1>3. ASSUME NEW d \in Deleter, Delete(d) PROVE PortInv'
  BY <1>0, <1>2, <1>3, DeleteDoes DEF store, HasInst, ProvisionLabel
<1>4. ASSUME NEW w \in Worker, ProvisionOne(w) PROVE PortInv'
  BY <1>0, <1>2, <1>4, ProvisionOneDoes DEF store, HasInst, ProvisionLabel
<1>5. CASE LoopTurn
  <2>1. Frame(Loop) /\ record' = record /\ pc'[Loop] \in LoopLabel \cup {"alloc", "rGet"}
    BY <1>0, <1>5, LoopDoes DEF store
  <2> QED
    BY <1>2, <2>1 DEF LoopLabel, HasInst, ProvisionLabel
<1>6. CASE (\E i \in Id : Elapse(i)) \/ (\E p \in Proc : Cancel(p))
  BY <1>6 DEF Elapse, Cancel, store, locals, PortInv
<1>7. CASE Restart
  <2>1. \A p \in Proc : pc'[p] \in {"idle", "llen"} /\ job'[p] = None
    BY <1>7 DEF Restart
  <2> QED
    BY <2>1 DEF PortInv
<1>8. ASSUME NEW p \in Proc, RestoreFromCheckpoint(p) \/ Start(p) PROVE PortInv'
  <2>1. /\ Frame(p) /\ record' = record /\ pc[p] \in {"restore", "start"} /\ inst'[p] = inst[p]
        /\ pc'[p] \in {"health", "start", "undoUntrack"}
        /\ \/ job'[p] = job[p]
           \/ \E i \in Id : Fresh(i) /\ job'[p] = i
    BY <1>0, <1>8, BootDoes DEF store, Keeps
  <2>2. job[p] = None
    BY <1>0, <2>1 DEF LifeInv, MakingInv
  <2>3. job'[p] # None => job'[p] \in Id /\ record'[job'[p]] = None /\ \A q \in Proc : job[q] # job'[p]
    BY <2>1, <2>2 DEF Fresh
  <2> QED
    BY <1>0, <2>1, <2>3, PortStep
<1>9. ASSUME NEW a \in Acquirer, AcquireFromPool(a) PROVE PortInv'
  <2> DEFINE i == Head(poolReady)
  <2>1. /\ pc[a] = "idle" /\ a \in Proc
        /\ \/ UNCHANGED <<record, pc, job, inst, read>>
           \/ Taken(i) /\ (UNCHANGED <<pc, job, inst, read>> \/ Takes(a, i))
    BY <1>0, <1>9, PopDoes DEF locals
  <2>2. CASE UNCHANGED <<record, pc, job, inst, read>>
    BY <2>2 DEF PortInv
  <2>3. CASE Taken(i) /\ (UNCHANGED <<pc, job, inst, read>> \/ Takes(a, i))
    <3> HIDE DEF i
    <3>1. /\ i \in Id /\ record[i] \in Record /\ record[i] # None /\ record'[i] = Assigned(record[i])
          /\ \A j \in Id \ {i} : record'[j] = record[j]
      BY <1>0, <2>3, ElementsType DEF Taken, IndType, TypeOK, StoreTypeOK
    <3>2. record'[i].port = record[i].port /\ Assigned(record[i]).port = record[i].port
      BY <3>1 DEF Assigned, Record
    <3>3. \A j \in Id : record'[j] = record[j] \/ (record[j] # None /\ record'[j].port = record[j].port)
      BY <3>1, <3>2
    <3>4. CASE UNCHANGED <<pc, job, inst, read>>
      <4>1. \A q \in Proc : pc'[q] = pc[q] /\ job'[q] = job[q] /\ inst'[q] = inst[q] /\ read'[q] = read[q]
        BY <3>4
      <4>2. \A q \in Proc : job[q] # None => job[q] \in Id
        BY <1>0 DEF IndType, TypeOK, ProcTypeOK
      <4>3. ASSUME NEW q \in Proc, pc[q] \in HasInst, job[q] # None, record'[job[q]] # None
            PROVE  record'[job[q]].port = inst[q].port
        <5>1. record[job[q]] # None /\ record'[job[q]].port = record[job[q]].port
          BY <3>3, <4>2, <4>3
        <5> QED
          BY <4>3, <5>1 DEF PortInv
      <4> QED
        BY <4>1, <4>3 DEF PortInv
    <3>5. CASE Takes(a, i)
      <4>1. Frame(a) /\ pc'[a] = "ttlGet" /\ job'[a] = i /\ inst'[a].port = record[i].port
        BY <3>2, <3>5 DEF Takes
      <4> QED
        BY <1>0, <2>1, <3>1, <3>3, <4>1, PortStep
    <3> QED
      BY <2>3, <3>4, <3>5
  <2> QED
    BY <2>1, <2>2, <2>3
<1>10. ASSUME NEW a \in Acquirer, Served(a) PROVE PortInv'
  <2>1. /\ Frame(a) /\ pc[a] \in AcquireLabel
        /\ ServesOn(a) \/ Answers(a)
    BY <1>0, <1>10, ServedLocals
  <2>2. \A i \in Id : \/ record'[i] = record[i]
                      \/ pc[a] = "ttlSet" /\ i = job[a] /\ record'[i] = [read[a] EXCEPT !.expires = TRUE]
                      \/ pc[a] = "save" /\ i = job[a] /\ record'[i] = inst[a]
    BY <1>0, <1>10, ServedEffects
  <2>3. /\ pc[a] \in HasInst /\ inst[a] \in Record /\ job[a] # None
        /\ pc[a] = "ttlSet" => read[a] \in Record
    BY <1>0, <2>1, ElementsType DEF IndType, LocalsOK, HasInst, HasRead, HasJob, AcquireLabel
  <2>4. /\ \A r \in Record : [r EXCEPT !.expires = TRUE].port = r.port
        /\ pc[a] = "ttlSet" => read[a].port = inst[a].port
    BY DEF Record, PortInv
  <2>5. \A i \in Id : \/ record'[i] = record[i]
                      \/ i = job[a] /\ record'[i].port = inst[a].port
    BY <2>2, <2>3, <2>4
  <2>6. ServesOn(a) => job'[a] = job[a] /\ inst'[a].port = inst[a].port
    BY <2>3, <2>4 DEF ServesOn, Keeps
  <2>7. pc'[a] \in HasInst /\ job'[a] # None =>
          pc[a] \in HasInst /\ job'[a] = job[a] /\ inst'[a].port = inst[a].port
    BY <2>1, <2>3, <2>6 DEF Answers, Leaves
  <2>8. pc'[a] = "ttlSet" => read'[a].port = inst'[a].port
    <3>1. pc'[a] = "ttlSet" => ServesOn(a) /\ record[job[a]] # None /\ read'[a] = record[job[a]]
      BY <2>1 DEF ServesOn, Answers
    <3>2. record[job[a]] # None => record[job[a]].port = inst[a].port
      BY <2>3 DEF PortInv
    <3> QED
      BY <2>6, <3>1, <3>2
  <2> QED
    BY <1>0, <2>1, <2>3, <2>5, <2>7, <2>8, PortStep
<1>11. ASSUME NEW p \in Proc, Release(p) PROVE PortInv'
  <2>1. /\ Frame(p) /\ pc[p] \in ReleaseLabel /\ job[p] \in Id
        /\ \/ Leaves(p)
           \/ /\ Keeps(p) /\ pc'[p] \in ReleaseLabel
              /\ pc[p] = "rGet" => inst'[p] = record[job[p]] /\ record[job[p]] # None
              /\ pc[p] # "rGet" => inst'[p] = inst[p]
    BY <1>0, <1>11, ReleaseLocals DEF IndType, LocalsOK, HasJob
  <2>2. \A i \in Id : record'[i] \in {record[i], None}
    BY <1>0, <1>11, ReleaseEffects
  <2>3. pc'[p] \in HasInst /\ job'[p] # None /\ pc[p] # "rGet" =>
          pc[p] \in HasInst /\ job'[p] = job[p] /\ inst'[p].port = inst[p].port
    <3>1. pc'[p] \in HasInst /\ pc[p] # "rGet" => pc[p] \in HasInst \/ Leaves(p)
      BY <1>0, <1>11, ReleaseOrder DEF HasInst, ProvisionLabel
    <3> QED
      BY <2>1, <3>1 DEF Leaves, Keeps
  <2>4. pc'[p] \in HasInst /\ job'[p] # None /\ pc[p] = "rGet" =>
          job'[p] \in Id /\ record[job'[p]] # None /\ inst'[p].port = record[job'[p]].port
    BY <2>1 DEF Leaves, Keeps
  <2>5. pc'[p] # "ttlSet"
    BY <2>1 DEF Leaves, ReleaseLabel
  <2> QED
    BY <1>0, <2>1, <2>2, <2>3, <2>4, <2>5, PortStep
<1>12. ASSUME NEW p \in Proc, Makes(p) PROVE PortInv'
  <2>1. /\ Frame(p) /\ pc[p] \in ProvisionLabel /\ (MakesOn(p) \/ Leaves(p))
        /\ pc[p] = "alloc" => job[p] = None
    BY <1>0, <1>12, MakesLocals DEF LifeInv, MakingInv
  <2>2. \A i \in Id : \/ record'[i] = record[i]
                      \/ pc[p] = "addSet" /\ i = job[p] /\ record'[i] = [inst[p] EXCEPT !.state = "ready"]
    BY <1>0, <1>12, MakesEffects
  <2>3. pc[p] # "alloc" => pc[p] \in HasInst /\ inst[p] \in Record
    BY <1>0, <2>1 DEF IndType, LocalsOK, HasInst
  <2>4. \A r \in Record : [r EXCEPT !.state = "ready"].port = r.port
    BY DEF Record
  <2>5. \A i \in Id : \/ record'[i] = record[i]
                      \/ i = job[p] /\ pc[p] \in HasInst /\ record'[i].port = inst[p].port
    BY <2>2, <2>3, <2>4
  <2>6. pc'[p] \in HasInst /\ job'[p] # None =>
          pc[p] \in HasInst /\ job'[p] = job[p] /\ inst'[p].port = inst[p].port
    BY <2>1, <2>3, <2>4 DEF MakesOn, Leaves, Keeps
  <2>7. pc'[p] # "ttlSet"
    BY <2>1 DEF MakesOn, Leaves
  <2> QED
    BY <1>0, <2>1, <2>5, <2>6, <2>7, PortStep
<1> QED
  BY <1>0, <1>1, <1>3, <1>4, <1>5, <1>6, <1>7, <1>8, <1>9, <1>10, <1>11, <1>12, StepCases

LEMMA PortHolds == Spec => []PortInv
  BY PortInit, PortNext, PoolInvHolds, PTL DEF Spec

-----------------------------------------------------------------------------
(* What is offered can be served.                                          *)

\* The container of an instance on its way into the ready list, and of an instance in the
\* list, runs on the recorded port.
ServeInv ==
  /\ \A i \in Elements(poolReady) : running[i] = record[i].port
  /\ \A p \in Proc : pc[p] \in MakeLabel => running[job[p]] = inst[p].port

\* A step of p that concerns no instance but j, and j is not offered afterwards, or rightly.
LEMMA ServeStep ==
  ASSUME IndType, ServeInv, NEW p \in Proc, Frame(p), NEW j \in Id \cup {None},
         \A q \in Proc \ {p} : pc[q] \in MakeLabel => job[q] # j,
         \A i \in Elements(poolReady') : i \in Elements(poolReady) \ {j} \/ running'[i] = record'[i].port,
         \A i \in Id \ {j} : record'[i] = record[i] /\ running'[i] = running[i],
         pc'[p] \in MakeLabel => running'[job'[p]] = inst'[p].port
  PROVE  ServeInv'
<1>1. ASSUME NEW i \in Elements(poolReady') PROVE running'[i] = record'[i].port
  <2> SUFFICES ASSUME i \in Elements(poolReady) \ {j} PROVE running'[i] = record'[i].port
    OBVIOUS
  <2>1. i \in Elements(poolReady) /\ i \in Id \ {j}
    BY ElementsType
  <2>2. record'[i] = record[i] /\ running'[i] = running[i]
    BY <2>1
  <2> QED
    BY <2>1, <2>2 DEF ServeInv
<1>2. ASSUME NEW q \in Proc, pc'[q] \in MakeLabel PROVE running'[job'[q]] = inst'[q].port
  <2>1. CASE q = p
    BY <1>2, <2>1
  <2>2. CASE q # p
    <3>1. pc[q] \in MakeLabel /\ job'[q] = job[q] /\ inst'[q] = inst[q]
      BY <1>2, <2>2 DEF Frame
    <3>2. job[q] \in Id \ {j}
      BY <2>2, <3>1 DEF IndType, LocalsOK, HasJob, MakeLabel
    <3>3. running'[job[q]] = running[job[q]]
      BY <3>2
    <3> QED
      BY <3>1, <3>3 DEF ServeInv
  <2> QED
    BY <2>1, <2>2
<1>3. Elements(poolReady)' = Elements(poolReady')
  BY DEF Elements
<1> QED
  BY <1>1, <1>2, <1>3 DEF ServeInv

\* ... and one that concerns none.
LEMMA ServeQuiet ==
  ASSUME IndType, ServeInv, NEW p \in Proc, Frame(p),
         Elements(poolReady') = Elements(poolReady), UNCHANGED <<record, running>>, pc'[p] \notin MakeLabel
  PROVE  ServeInv'
<1>1. None \notin Elements(poolReady) /\ None \in Id \cup {None}
  BY ElementsType
<1>2. \A q \in Proc \ {p} : pc[q] \in MakeLabel => job[q] # None
  BY ElementsType DEF IndType, LocalsOK, HasJob, MakeLabel
<1> QED
  BY <1>1, <1>2, ServeStep

LEMMA ServeMakes ==
  ASSUME "lost" \notin Failure, PoolInv, ServeInv, NEW p \in Proc, Makes(p) PROVE ServeInv'
<1>0. IndType /\ LifeInv
  BY DEF PoolInv
<1>1. Frame(p) /\ pc[p] \in ProvisionLabel /\ (MakesOn(p) \/ Leaves(p))
  BY <1>0, MakesLocals
<1>2. /\ \A i \in Id : \/ record'[i] = record[i]
                       \/ pc[p] = "addSet" /\ i = job[p] /\ record'[i] = [inst[p] EXCEPT !.state = "ready"]
      /\ pc'[p] = "addIndex" => record'[job[p]] = [inst[p] EXCEPT !.state = "ready"]
      /\ \/ poolReady' = poolReady
         \/ pc[p] = "push" /\ poolReady' = Append(poolReady, job[p]) /\ Leaves(p)
      /\ \A i \in Id : running'[i] = running[i] \/ (pc[p] = "undoStop" /\ i = job[p] /\ running'[i] = None)
  BY <1>0, MakesEffects
<1>3. job[p] \in Id \cup {None} /\ None \notin Elements(poolReady)
  BY <1>0, ElementsType DEF IndType, TypeOK, ProcTypeOK
<1>4. pc[p] \in {"alloc", "track", "restore", "start"} => job[p] = None
  BY <1>0 DEF LifeInv, MakingInv
<1>5. pc[p] \in MakeLabel \cup UndoLabel => Making(p)
  BY DEF Making
<1>6. job[p] \notin Elements(poolReady)
  BY <1>0, <1>1, <1>3, <1>4, <1>5 DEF LifeInv, MakingInv, ProvisionLabel, MakeLabel, UndoLabel
<1>7. ASSUME NEW q \in Proc \ {p}, pc[q] \in MakeLabel PROVE job[q] # job[p]
  <2>1. Making(q) /\ job[q] # None
    BY <1>0, <1>7, ElementsType DEF Making, IndType, LocalsOK, HasJob, MakeLabel
  <2> QED
    BY <1>0, <2>1 DEF LifeInv, MakingInv
<1>8. ASSUME pc'[p] \in MakeLabel PROVE running'[job'[p]] = inst'[p].port
  <2>1. MakesOn(p) /\ pc[p] \in MakeLabel
    BY <1>1, <1>8 DEF MakesOn, Leaves, MakeLabel
  <2>2. job'[p] = job[p] /\ inst[p] \in Record /\ job[p] \in Id
    BY <1>0, <2>1 DEF MakesOn, Keeps, IndType, LocalsOK, HasInst, HasJob, MakeLabel, ProvisionLabel
  <2>3. inst'[p].port = inst[p].port
    <3>1. \A r \in Record : [r EXCEPT !.state = "ready"].port = r.port
      BY DEF Record
    <3>2. inst'[p] = inst[p] \/ inst'[p] = [inst[p] EXCEPT !.state = "ready"]
      BY <2>1 DEF MakesOn, MakeLabel
    <3> QED
      BY <2>2, <3>1, <3>2
  <2>4. running'[job[p]] = running[job[p]]
    BY <1>2, <2>1, <2>2 DEF MakeLabel
  <2> QED
    BY <2>1, <2>2, <2>3, <2>4 DEF ServeInv
<1>9. \A i \in Id \ {job[p]} : record'[i] = record[i] /\ running'[i] = running[i]
  BY <1>2
<1>10. ASSUME NEW i \in Elements(poolReady')
       PROVE  i \in Elements(poolReady) \ {job[p]} \/ running'[i] = record'[i].port
  <2>1. CASE poolReady' = poolReady
    BY <1>6, <1>10, <2>1
  <2>2. CASE pc[p] = "push" /\ poolReady' = Append(poolReady, job[p])
    <3>1. job[p] \in Id /\ record[job[p]] = inst[p] /\ running[job[p]] = inst[p].port
      BY <1>0, <2>2 DEF IndType, LocalsOK, HasJob, LifeInv, MakingInv, MakeLabel, ServeInv
    <3>2. Elements(poolReady') = Elements(poolReady) \cup {job[p]}
      BY <1>0, <2>2, <3>1, AppendElements DEF IndType, TypeOK, StoreTypeOK
    <3>3. record'[job[p]] = record[job[p]] /\ running'[job[p]] = running[job[p]]
      BY <1>2, <2>2, <3>1
    <3> QED
      BY <1>6, <1>10, <3>1, <3>2, <3>3
  <2> QED
    BY <1>2, <2>1, <2>2
<1> QED
  BY <1>0, <1>1, <1>3, <1>7, <1>8, <1>9, <1>10, ServeStep

LEMMA ServeInit == Init => ServeInv
<1> SUFFICES ASSUME Init PROVE ServeInv
  OBVIOUS
<1>1. Elements(poolReady) = {}
  BY DEF Init, StoreInit, Elements
<1>2. \A p \in Proc : pc[p] \in {"idle", "llen"}
  BY DEF Init
<1> QED
  BY <1>1, <1>2 DEF ServeInv, MakeLabel

LEMMA ServeNext ==
  ASSUME "lost" \notin Failure
  PROVE  PoolInv /\ ServeInv /\ [Next]_vars => ServeInv'
<1> SUFFICES ASSUME PoolInv, ServeInv, [Next]_vars PROVE ServeInv'
  OBVIOUS
<1> USE Processes
<1>0. IndType /\ ClaimInv /\ LifeInv /\ UseInv /\ SoleInv
  BY DEF PoolInv
<1>1. CASE UNCHANGED vars
  BY <1>1 DEF vars, store, outside, locals, ServeInv, Elements
<1>2. ASSUME NEW d \in Deleter, Delete(d) PROVE ServeInv'
  BY <1>0, <1>2, ServeQuiet, DeleteDoes DEF store, outside, MakeLabel
<1>3. ASSUME NEW w \in Worker, ProvisionOne(w) PROVE ServeInv'
  BY <1>0, <1>3, ServeQuiet, ProvisionOneDoes DEF store, outside, MakeLabel
<1>4. CASE LoopTurn
  <2>1. Frame(Loop) /\ UNCHANGED <<store, outside>> /\ pc'[Loop] \in LoopLabel \cup {"alloc", "rGet"}
    BY <1>0, <1>4, LoopDoes
  <2> QED
    BY <1>0, <2>1, ServeQuiet DEF store, outside, LoopLabel, MakeLabel
<1>5. CASE (\E i \in Id : Elapse(i)) \/ (\E p \in Proc : Cancel(p))
  BY <1>5 DEF Elapse, Cancel, store, outside, locals, ServeInv, Elements
<1>6. CASE Restart
  <2>1. \A p \in Proc : pc'[p] \in {"idle", "llen"}
    BY <1>6 DEF Restart
  <2>2. UNCHANGED <<record, poolReady, running>>
    BY <1>6 DEF Restart, InitializePorts, outside
  <2> QED
    BY <2>1, <2>2 DEF ServeInv, Elements, MakeLabel
<1>7. ASSUME NEW p \in Proc, pc[p] \in AcquireLabel \cup ReleaseLabel, Frame(p),
             poolReady' = poolReady, pc'[p] \notin MakeLabel,
             \A i \in Id \ {job[p]} : record'[i] = record[i] /\ running'[i] = running[i]
      PROVE  ServeInv'
  <2>1. /\ job[p] \in Id /\ job[p] \notin Elements(poolReady)
        /\ \A q \in Proc : Making(q) /\ job[q] # None => job[q] # job[p]
    BY <1>0, <1>7, Popped
  <2>2. \A q \in Proc \ {p} : pc[q] \in MakeLabel => job[q] # job[p]
    BY <1>0, <2>1, ElementsType DEF Making, IndType, LocalsOK, HasJob, MakeLabel
  <2>3. \A i \in Elements(poolReady') : i \in Elements(poolReady) \ {job[p]}
    BY <1>7, <2>1
  <2> QED
    BY <1>0, <1>7, <2>1, <2>2, <2>3, ServeStep
<1>8. ASSUME NEW p \in Proc, Release(p) PROVE ServeInv'
  <2>1. Frame(p) /\ pc[p] \in ReleaseLabel /\ poolReady' = poolReady /\ pc'[p] \notin MakeLabel
    BY <1>0, <1>8, ReleaseLocals DEF Leaves, ReleaseLabel, MakeLabel
  <2>2. \A i \in Id \ {job[p]} : record'[i] = record[i] /\ running'[i] = running[i]
    BY <1>0, <1>8, ReleaseEffects
  <2> QED
    BY <1>7, <2>1, <2>2
<1>9. ASSUME NEW a \in Acquirer, Served(a) PROVE ServeInv'
  <2>1. Frame(a) /\ pc[a] \in AcquireLabel /\ poolReady' = poolReady /\ pc'[a] \notin MakeLabel
    BY <1>0, <1>9, ServedLocals DEF ServesOn, Answers, MakeLabel
  <2>2. \A i \in Id \ {job[a]} : record'[i] = record[i] /\ running'[i] = running[i]
    BY <1>0, <1>9, ServedEffects
  <2> QED
    BY <1>7, <2>1, <2>2
<1>10. ASSUME NEW a \in Acquirer, AcquireFromPool(a) PROVE ServeInv'
  <2> DEFINE i == Head(poolReady)
  <2>1. /\ running' = running /\ pc[a] = "idle"
        /\ \/ UNCHANGED <<record, pc, locals, ctxDone>> /\ Elements(poolReady') = Elements(poolReady)
           \/ Taken(i) /\ Takes(a, i)
    BY <1>0, <1>10, PopDoes
  <2>2. CASE UNCHANGED <<record, pc, locals, ctxDone>> /\ Elements(poolReady') = Elements(poolReady)
    BY <1>0, <2>1, <2>2, ServeQuiet DEF Frame, locals, MakeLabel
  <2>3. CASE Taken(i) /\ Takes(a, i)
    <3> HIDE DEF i
    <3>1. i \in Id /\ \A j \in Id \ {i} : record'[j] = record[j] /\ running'[j] = running[j]
      BY <1>0, <2>1, <2>3, ElementsType DEF Taken
    <3>2. \A q \in Proc \ {a} : pc[q] \in MakeLabel => job[q] # i
      BY <1>0, <2>3 DEF Taken, LifeInv, ListInv, MakeLabel, UndoLabel
    <3>3. /\ Frame(a) /\ pc'[a] \notin MakeLabel
          /\ \A j \in Elements(poolReady') : j \in Elements(poolReady) \ {i}
      BY <2>3 DEF Taken, Takes, MakeLabel
    <3> QED
      BY <1>0, <3>1, <3>2, <3>3, ServeStep
  <2> QED
    BY <2>1, <2>2, <2>3
<1>11. ASSUME NEW p \in Proc, RestoreFromCheckpoint(p) \/ Start(p) PROVE ServeInv'
  <2>1. /\ Frame(p) /\ UNCHANGED store /\ inst'[p] = inst[p]
        /\ \/ pc'[p] \in {"start", "undoUntrack"} /\ UNCHANGED running
           \/ \E i \in Id :
                /\ Fresh(i) /\ running'[i] = inst[p].port /\ \A j \in Id \ {i} : running'[j] = running[j]
                /\ pc'[p] = "health" /\ job'[p] = i
    BY <1>0, <1>11, BootDoes
  <2>2. CASE pc'[p] \in {"start", "undoUntrack"} /\ UNCHANGED running
    BY <1>0, <2>1, <2>2, ServeQuiet DEF store, MakeLabel
  <2>3. ASSUME NEW i \in Id, Fresh(i), running'[i] = inst[p].port,
               \A j \in Id \ {i} : running'[j] = running[j], pc'[p] = "health", job'[p] = i
        PROVE  ServeInv'
    <3>1. record' = record /\ poolReady' = poolReady
      BY <2>1 DEF store
    <3>2. \A q \in Proc : job[q] # i
      BY <2>3 DEF Fresh
    <3>3. \A j \in Elements(poolReady') : j \in Elements(poolReady) \ {i}
      BY <2>3, <3>1 DEF Fresh
    <3> QED
      BY <1>0, <2>1, <2>3, <3>1, <3>2, <3>3, ServeStep
  <2> QED
    BY <2>1, <2>2, <2>3
<1>12. ASSUME NEW p \in Proc, Makes(p) PROVE ServeInv'
  BY <1>12, ServeMakes
<1> QED
  BY <1>0, <1>1, <1>2, <1>3, <1>4, <1>5, <1>6, <1>8, <1>9, <1>10, <1>11, <1>12, StepCases

LEMMA ServeHolds == ASSUME "lost" \notin Failure PROVE Spec => []ServeInv
  BY ServeInit, ServeNext, PoolInvHolds, PTL DEF Spec

\* Every id that AcquireFromPool can pop has a ready record and a container that runs on
\* the recorded port, whatever else fails, unless a command is lost: provisionInstance then
\* stops the container of an id whose RPUSH was applied.
THEOREM ReadyInstancesServeHolds ==
  ASSUME "lost" \notin Failure PROVE Spec => []ReadyInstancesServe
<1>1. PoolInv /\ ServeInv => ReadyInstancesServe
  <2> SUFFICES ASSUME PoolInv, ServeInv, NEW i \in Elements(poolReady)
               PROVE  record[i] # None /\ record[i].state = "ready" /\ running[i] = record[i].port
    BY DEF ReadyInstancesServe
  <2>1. i \in Id /\ Unused(i)
    BY ElementsType DEF PoolInv, Unused
  <2> QED
    BY <2>1 DEF PoolInv, LifeInv, ListInv, UnusedInv, ServeInv
<1> QED
  BY <1>1, ServeHolds, PoolInvHolds, PTL

-----------------------------------------------------------------------------
(* Routes and containers.                                                  *)

\* A route leads to its own container, and no port is bound twice.  Release has removed the
\* route when it stops the container, unless its context is over and Docker refuses as well.
RouteInv ==
  /\ \A i \in Id : routes[i] # None => running[i] = routes[i]
  /\ \A i, j \in Id : running[i] = running[j] /\ running[i] # None => i = j
  /\ \A p \in Proc : pc[p] \in {"rDrop", "rStop"} /\ p \notin ctxDone => routes[job[p]] = None
  /\ \A a \in Acquirer : pc[a] \in AcquireLabel => running[job[a]] = inst[a].port

\* Stopping a container and removing its route fail together.
Together == ContainerMode = "docker" \/ Calm

LEMMA TogetherHolds ==
  ASSUME ContainerMode = "docker" \/ "cancel" \notin Failure PROVE Spec => []Together
<1>1. CASE ContainerMode = "docker"
  <2>1. Together
    BY <1>1 DEF Together
  <2> QED
    BY <2>1, PTL
<1>2. CASE "cancel" \notin Failure
  <2>1. Calm => Together
    BY DEF Together
  <2> QED
    BY <1>2, <2>1, CalmHolds, PTL
<1> QED
  BY <1>1, <1>2

\* A step of p that touches the container and the route of j only.
LEMMA RouteStep ==
  ASSUME IndType, RouteInv, NEW p \in Proc, Frame(p), NEW j \in Id \cup {None},
         \A i \in Id \ {j} : running'[i] = running[i] /\ routes'[i] = routes[i],
         j \in Id => /\ routes'[j] # None => running'[j] = routes'[j]
                     /\ \/ running'[j] \in {running[j], None}
                        \/ \A i \in Id : running[i] # running'[j]
                     /\ \/ routes'[j] \in {routes[j], None}
                        \/ \A q \in Proc \ {p} : job[q] = j => pc[q] \notin {"rDrop", "rStop"}
                     /\ \/ running'[j] = running[j]
                        \/ \A a \in Acquirer \ {p} : job[a] = j => pc[a] \notin AcquireLabel,
         pc'[p] \in {"rDrop", "rStop"} /\ p \notin ctxDone' => routes'[job'[p]] = None,
         p \in Acquirer /\ pc'[p] \in AcquireLabel => running'[job'[p]] = inst'[p].port
  PROVE  RouteInv'
<1> USE Processes
<1>1. ASSUME NEW i \in Id, routes'[i] # None PROVE running'[i] = routes'[i]
  <2>1. CASE i = j
    BY <1>1, <2>1
  <2>2. CASE i # j
    <3>1. running'[i] = running[i] /\ routes'[i] = routes[i]
      BY <2>2
    <3> QED
      BY <1>1, <3>1 DEF RouteInv
  <2> QED
    BY <2>1, <2>2
<1>2. ASSUME NEW i \in Id, NEW k \in Id, running'[i] = running'[k], running'[i] # None PROVE i = k
  <2>1. CASE i # j /\ k # j
    <3>1. running'[i] = running[i] /\ running'[k] = running[k]
      BY <2>1
    <3> QED
      BY <1>2, <3>1 DEF RouteInv
  <2>2. ASSUME NEW m \in Id, m # j, j \in Id, running'[m] = running'[j], running'[m] # None PROVE FALSE
    <3>1. running[m] = running'[j]
      BY <2>2
    <3>2. running'[j] = running[j]
      BY <2>2, <3>1
    <3> QED
      BY <2>2, <3>1, <3>2 DEF RouteInv
  <2> QED
    BY <1>2, <2>1, <2>2
<1>3. ASSUME NEW q \in Proc, pc'[q] \in {"rDrop", "rStop"}, q \notin ctxDone' PROVE routes'[job'[q]] = None
  <2>1. CASE q = p
    BY <1>3, <2>1
  <2>2. CASE q # p
    <3>1. pc[q] \in {"rDrop", "rStop"} /\ job'[q] = job[q] /\ q \notin ctxDone
      BY <1>3, <2>2 DEF Frame
    <3>2. job[q] \in Id /\ routes[job[q]] = None
      BY <3>1 DEF IndType, LocalsOK, HasJob, ReleaseLabel, RouteInv
    <3>3. CASE job[q] = j
      BY <2>2, <3>1, <3>2, <3>3
    <3>4. CASE job[q] # j
      BY <3>1, <3>2, <3>4
    <3> QED
      BY <3>3, <3>4
  <2> QED
    BY <2>1, <2>2
<1>4. ASSUME NEW a \in Acquirer, pc'[a] \in AcquireLabel PROVE running'[job'[a]] = inst'[a].port
  <2>1. CASE a = p
    BY <1>4, <2>1
  <2>2. CASE a # p
    <3>1. pc[a] \in AcquireLabel /\ job'[a] = job[a] /\ inst'[a] = inst[a]
      BY <1>4, <2>2 DEF Frame
    <3>2. job[a] \in Id /\ running[job[a]] = inst[a].port
      BY <3>1 DEF IndType, LocalsOK, HasJob, RouteInv
    <3>3. running'[job[a]] = running[job[a]]
      BY <2>2, <3>1, <3>2
    <3> QED
      BY <3>1, <3>2, <3>3
  <2> QED
    BY <2>1, <2>2
<1> QED
  BY <1>1, <1>2, <1>3, <1>4 DEF RouteInv

\* ... and one that touches none.
LEMMA RouteQuiet ==
  ASSUME IndType, RouteInv, NEW p \in Proc, Frame(p), UNCHANGED <<running, routes>>,
         pc'[p] \notin {"rDrop", "rStop"},
         p \in Acquirer /\ pc'[p] \in AcquireLabel => running'[job'[p]] = inst'[p].port
  PROVE  RouteInv'
<1>1. None \in Id \cup {None} /\ None \notin Id
  BY ElementsType
<1> QED
  BY <1>1, RouteStep

LEMMA RouteRelease ==
  ASSUME "slow" \notin Failure, "lost" \notin Failure, PoolInv, Together, RouteInv, NEW p \in Proc, Release(p)
  PROVE  RouteInv'
<1>0. IndType /\ LifeInv /\ SoleInv
  BY DEF PoolInv
<1>1. /\ Frame(p) /\ pc[p] \in ReleaseLabel /\ job[p] \in Id
      /\ \/ Leaves(p)
         \/ Keeps(p) /\ pc'[p] \in ReleaseLabel \ {"rGet"}
  BY <1>0, ReleaseLocals DEF IndType, LocalsOK, HasJob
<1>2. /\ \A i \in Id : routes'[i] = routes[i] \/ (pc[p] = "rRoute" /\ i = job[p] /\ routes'[i] = None)
      /\ \A i \in Id : running'[i] = running[i] \/ (pc[p] = "rStop" /\ i = job[p] /\ running'[i] = None)
  BY <1>0, ReleaseEffects
<1>3. \A a \in Acquirer \ {p} : job[a] = job[p] => pc[a] \notin AcquireLabel
  BY <1>0, <1>1, Rivals DEF Unrivalled, UndoLabel, ReleaseLabel
<1>4. routes'[job[p]] # None => running'[job[p]] = routes'[job[p]]
  <2>1. CASE running'[job[p]] = running[job[p]]
    BY <1>1, <1>2, <2>1 DEF RouteInv
  <2>2. CASE pc[p] = "rStop" /\ p \notin ctxDone
    <3>1. routes[job[p]] = None
      BY <2>2 DEF RouteInv
    <3> QED
      BY <1>1, <1>2, <3>1
  <2>3. CASE pc[p] = "rStop" /\ p \in ctxDone
    <3>1. running' = running
      BY <2>3, StopRefused DEF Together, Calm
    <3> QED
      BY <2>1, <3>1
  <2> QED
    BY <1>1, <1>2, <2>1, <2>2, <2>3
<1>5. pc'[p] \in {"rDrop", "rStop"} /\ p \notin ctxDone' => routes'[job'[p]] = None
  <2> SUFFICES ASSUME pc'[p] \in {"rDrop", "rStop"}, p \notin ctxDone' PROVE routes'[job'[p]] = None
    OBVIOUS
  <2>1. Keeps(p) /\ (pc[p] = "rRoute" \/ pc[p] = "rDrop")
    BY <1>0, <1>1, ReleaseOrder DEF Leaves
  <2>2. job'[p] = job[p] /\ p \notin ctxDone
    BY <2>1 DEF Keeps
  <2>3. CASE pc[p] = "rRoute"
    BY <1>0, <2>2, <2>3, ReleaseSure
  <2>4. CASE pc[p] = "rDrop"
    BY <1>1, <1>2, <2>2, <2>4 DEF RouteInv
  <2> QED
    BY <2>1, <2>3, <2>4
<1>6. pc'[p] \notin AcquireLabel
  BY <1>1 DEF Leaves, ReleaseLabel, AcquireLabel
<1>7. /\ \A i \in Id \ {job[p]} : running'[i] = running[i] /\ routes'[i] = routes[i]
      /\ running'[job[p]] \in {running[job[p]], None} /\ routes'[job[p]] \in {routes[job[p]], None}
  BY <1>1, <1>2
<1> QED
  BY <1>0, <1>1, <1>3, <1>4, <1>5, <1>6, <1>7, RouteStep

LEMMA RouteServed ==
  ASSUME "slow" \notin Failure, PoolInv, RouteInv, NEW a \in Acquirer, Served(a)
  PROVE  RouteInv'
<1>0. IndType /\ LifeInv /\ SoleInv /\ a \in Proc
  BY Processes DEF PoolInv
<1>1. Frame(a) /\ pc[a] \in AcquireLabel /\ (ServesOn(a) \/ Answers(a)) /\ job[a] \in Id /\ inst[a] \in Record
  BY <1>0, ServedLocals DEF IndType, LocalsOK, HasJob, HasInst, AcquireLabel
<1>2. /\ \A i \in Id : routes'[i] = routes[i] \/ (pc[a] = "route" /\ i = job[a] /\ routes'[i] = inst[a].port)
      /\ running' = running
  BY <1>0, ServedEffects
<1>3. running[job[a]] = inst[a].port
  BY <1>1 DEF RouteInv
<1>4. Sole(a)
  BY <1>0, <1>1 DEF SoleInv, Unrivalled
<1>5. \A q \in Proc \ {a} : job[q] = job[a] => pc[q] \notin {"rDrop", "rStop"}
  BY <1>4 DEF Sole, UndoLabel
<1>6. pc'[a] \in AcquireLabel => running'[job'[a]] = inst'[a].port
  <2>1. \A r \in Record : [r EXCEPT !.expires = TRUE].port = r.port
    BY DEF Record
  <2>2. pc'[a] \in AcquireLabel => ServesOn(a)
    BY <1>1 DEF Answers, AcquireLabel
  <2>3. ServesOn(a) => job'[a] = job[a] /\ inst'[a].port = inst[a].port
    BY <1>1, <2>1 DEF ServesOn, Keeps
  <2> QED
    BY <1>2, <1>3, <2>2, <2>3
<1>7. routes'[job[a]] # None => running'[job[a]] = routes'[job[a]]
  BY <1>1, <1>2, <1>3 DEF RouteInv
<1>8. pc'[a] \notin {"rDrop", "rStop"}
  BY <1>1 DEF ServesOn, Answers
<1>9. \A i \in Id \ {job[a]} : running'[i] = running[i] /\ routes'[i] = routes[i]
  BY <1>2
<1> QED
  BY <1>0, <1>1, <1>2, <1>5, <1>6, <1>7, <1>8, <1>9, RouteStep

LEMMA RouteBoot ==
  ASSUME PoolInv, RouteInv, NEW p \in Proc, RestoreFromCheckpoint(p) \/ Start(p) PROVE RouteInv'
<1>0. IndType
  BY DEF PoolInv
<1>1. /\ Frame(p) /\ UNCHANGED routes /\ pc'[p] \in {"start", "undoUntrack", "health"}
      /\ \/ UNCHANGED running
         \/ \E i \in Id :
              /\ Fresh(i) /\ ~PortBound(inst[p].port)
              /\ running'[i] = inst[p].port /\ \A j \in Id \ {i} : running'[j] = running[j]
  BY <1>0, BootDoes
<1>2. pc'[p] \notin {"rDrop", "rStop"} \cup AcquireLabel
  BY <1>1 DEF AcquireLabel
<1>3. CASE UNCHANGED running
  BY <1>0, <1>1, <1>2, <1>3, RouteQuiet
<1>4. ASSUME NEW i \in Id, Fresh(i), ~PortBound(inst[p].port),
             running'[i] = inst[p].port, \A j \in Id \ {i} : running'[j] = running[j]
      PROVE  RouteInv'
  <2>1. routes'[i] = None /\ \A q \in Proc : job[q] # i
    BY <1>1, <1>4 DEF Fresh
  <2>2. \A j \in Id : running[j] # running'[i]
    BY <1>4 DEF PortBound
  <2>3. \A a \in Acquirer \ {p} : job[a] = i => pc[a] \notin AcquireLabel
    BY <2>1, Processes
  <2>4. \A q \in Proc \ {p} : job[q] = i => pc[q] \notin {"rDrop", "rStop"}
    BY <2>1
  <2>5. \A j \in Id \ {i} : running'[j] = running[j] /\ routes'[j] = routes[j]
    BY <1>1, <1>4
  <2> QED
    BY <1>0, <1>1, <1>2, <2>1, <2>2, <2>3, <2>4, <2>5, RouteStep
<1> QED
  BY <1>1, <1>3, <1>4

LEMMA RouteMakes ==
  ASSUME "lost" \notin Failure, PoolInv, RouteInv, NEW p \in Proc, Makes(p) PROVE RouteInv'
<1>0. IndType /\ LifeInv
  BY DEF PoolInv
<1>1. Frame(p) /\ UNCHANGED routes /\ (MakesOn(p) \/ Leaves(p))
  BY <1>0, MakesLocals
<1>2. \A i \in Id : running'[i] = running[i] \/ (pc[p] = "undoStop" /\ i = job[p] /\ running'[i] = None)
  BY <1>0, MakesEffects
<1>3. pc'[p] \notin {"rDrop", "rStop"} \cup AcquireLabel
  BY <1>1 DEF MakesOn, Leaves, AcquireLabel
<1>4. CASE pc[p] # "undoStop"
  <2>1. \A i \in Id : running'[i] = running[i] /\ routes'[i] = routes[i]
    BY <1>1, <1>2, <1>4
  <2>2. None \in Id \cup {None} /\ None \notin Id
    BY <1>0, ElementsType
  <2> QED
    BY <1>0, <1>1, <1>3, <2>1, <2>2, RouteStep
<1>5. CASE pc[p] = "undoStop"
  <2>1. job[p] \in Id /\ job[p] # None /\ Making(p)
    BY <1>0, <1>5, ElementsType DEF IndType, LocalsOK, HasJob, Making, UndoLabel
  <2>2. routes[job[p]] = None /\ \A q \in Proc \ {p} : job[q] # job[p]
    BY <1>0, <2>1 DEF LifeInv, UnusedInv, MakingInv, Unused
  <2>3. routes'[job[p]] = None
    BY <1>1, <2>2
  <2>4. \A a \in Acquirer \ {p} : job[a] = job[p] => pc[a] \notin AcquireLabel
    BY <2>2, Processes
  <2>5. /\ \A i \in Id \ {job[p]} : running'[i] = running[i] /\ routes'[i] = routes[i]
        /\ running'[job[p]] \in {running[job[p]], None}
    BY <1>1, <1>2, <2>1
  <2> QED
    BY <1>0, <1>1, <1>3, <2>1, <2>2, <2>3, <2>4, <2>5, RouteStep
<1> QED
  BY <1>4, <1>5

LEMMA RouteInit == Init => RouteInv
<1> SUFFICES ASSUME Init PROVE RouteInv
  OBVIOUS
<1>1. \A p \in Proc : pc[p] \in {"idle", "llen"}
  BY DEF Init
<1> QED
  BY <1>1, Processes DEF Init, RouteInv, AcquireLabel

LEMMA RouteNext ==
  ASSUME "slow" \notin Failure, "lost" \notin Failure
  PROVE  PoolInv /\ ServeInv /\ Together /\ RouteInv /\ [Next]_vars => RouteInv'
<1> SUFFICES ASSUME PoolInv, ServeInv, Together, RouteInv, [Next]_vars PROVE RouteInv'
  OBVIOUS
<1> USE Processes
<1>0. IndType /\ ClaimInv
  BY DEF PoolInv
<1>1. CASE UNCHANGED vars
  BY <1>1 DEF vars, outside, locals, RouteInv
<1>2. ASSUME NEW d \in Deleter, Delete(d) PROVE RouteInv'
  BY <1>0, <1>2, RouteQuiet, DeleteDoes DEF outside, AcquireLabel
<1>3. ASSUME NEW w \in Worker, ProvisionOne(w) PROVE RouteInv'
  BY <1>0, <1>3, RouteQuiet, ProvisionOneDoes DEF outside, AcquireLabel
<1>4. CASE LoopTurn
  <2>1. Frame(Loop) /\ UNCHANGED outside /\ pc'[Loop] \in LoopLabel \cup {"alloc", "rGet"}
    BY <1>0, <1>4, LoopDoes
  <2> QED
    BY <1>0, <2>1, RouteQuiet DEF outside, LoopLabel, AcquireLabel
<1>5. CASE (\E i \in Id : Elapse(i)) \/ (\E p \in Proc : Cancel(p))
  <2>1. UNCHANGED <<running, routes, pc, job, inst>> /\ ctxDone \subseteq ctxDone'
    BY <1>5 DEF Elapse, Cancel, outside, locals
  <2> QED
    BY <2>1 DEF RouteInv
<1>6. CASE Restart
  <2>1. (\A p \in Proc : pc'[p] \in {"idle", "llen"}) /\ UNCHANGED <<running, routes>>
    BY <1>6 DEF Restart, outside
  <2> QED
    BY <2>1 DEF RouteInv, AcquireLabel
<1>7. ASSUME NEW a \in Acquirer, AcquireFromPool(a) PROVE RouteInv'
  <2> DEFINE i == Head(poolReady)
  <2>1. /\ UNCHANGED <<running, routes>> /\ pc[a] = "idle"
        /\ \/ UNCHANGED <<pc, locals, ctxDone>>
           \/ Taken(i) /\ Takes(a, i)
    BY <1>0, <1>7, PopDoes
  <2>2. CASE UNCHANGED <<pc, locals, ctxDone>>
    BY <1>0, <2>1, <2>2, RouteQuiet DEF Frame, locals, AcquireLabel
  <2>3. CASE Taken(i) /\ Takes(a, i)
    <3> HIDE DEF i
    <3>1. i \in Id /\ record[i] \in Record /\ running[i] = record[i].port
      BY <1>0, <2>3, ElementsType DEF Taken, ServeInv, IndType, TypeOK, StoreTypeOK
    <3>2. Assigned(record[i]).port = record[i].port
      BY <3>1 DEF Assigned, Record
    <3>3. Frame(a) /\ pc'[a] = "ttlGet" /\ job'[a] = i /\ inst'[a].port = running[i]
      BY <2>3, <3>1, <3>2 DEF Takes
    <3> QED
      BY <1>0, <2>1, <3>3, RouteQuiet
  <2> QED
    BY <2>1, <2>2, <2>3
<1>8. ASSUME NEW a \in Acquirer, Served(a) PROVE RouteInv'
  BY <1>8, RouteServed
<1>9. ASSUME NEW p \in Proc, Release(p) PROVE RouteInv'
  BY <1>9, RouteRelease
<1>10. ASSUME NEW p \in Proc, RestoreFromCheckpoint(p) \/ Start(p) PROVE RouteInv'
  BY <1>10, RouteBoot
<1>11. ASSUME NEW p \in Proc, Makes(p) PROVE RouteInv'
  BY <1>11, RouteMakes
<1> QED
  BY <1>0, <1>1, <1>2, <1>3, <1>4, <1>5, <1>6, <1>7, <1>8, <1>9, <1>10, <1>11, StepCases

\* A route never leads to another instance's container, whatever is cancelled (with Docker),
\* whatever container stays sick and wherever the process dies: Release removes the route
\* while the port is still bound.
THEOREM RouteIsolationHolds ==
  ASSUME "lost" \notin Failure, "slow" \notin Failure, ContainerMode = "docker" \/ "cancel" \notin Failure
  PROVE  Spec => []RouteIsolation
<1>1. Spec => []RouteInv
  BY RouteInit, RouteNext, TogetherHolds, ServeHolds, PoolInvHolds, PTL DEF Spec
<1>2. RouteInv => RouteIsolation
  BY DEF RouteInv, RouteIsolation
<1> QED
  BY <1>1, <1>2, PTL

-----------------------------------------------------------------------------
(* No port is lost.                                                        *)

\* p is in DeleteInstance: Release has returned the port.
Deleting(p) == pc[p] \in {"dGet", "dSRem", "dDel"}

\* The record of i stands for a port that is still to be returned.
Leased(i) == record[i] # None /\ \A p \in Proc : Deleting(p) => job[p] # i

\* A port that is not available belongs to a process that provisions, or to an instance
\* whose Release has not come to DeleteInstance.
LeakInv ==
  \A n \in Port \ portsAvailable :
    \/ \E p \in Proc : Provisioning(p) /\ inst[p].port = n
    \/ \E i \in Id : Leased(i) /\ record[i].port = n

\* A step of p that takes no port without owning it and gives up none without returning it.
LEMMA LeakStep ==
  ASSUME IndType, LeakInv, NEW p \in Proc, Frame(p),
         \A n \in portsAvailable \ portsAvailable' : Provisioning(p)' /\ inst'[p].port = n,
         Provisioning(p) =>
           \/ Provisioning(p)' /\ inst'[p].port = inst[p].port
           \/ inst[p].port \in portsAvailable'
           \/ \E i \in Id : Leased(i)' /\ record'[i].port = inst[p].port,
         \A i \in Id : record[i] # None /\ ~(Deleting(p) /\ job[p] = i) =>
           \/ record[i].port \in portsAvailable'
           \/ record'[i] # None /\ record'[i].port = record[i].port /\ ~(Deleting(p)' /\ job'[p] = i)
  PROVE  LeakInv'
<1> SUFFICES ASSUME NEW n \in Port \ portsAvailable'
             PROVE  \/ \E q \in Proc : Provisioning(q)' /\ inst'[q].port = n
                    \/ \E i \in Id : Leased(i)' /\ record'[i].port = n
  BY DEF LeakInv
<1>1. CASE n \in portsAvailable
  BY <1>1
<1>2. ASSUME NEW q \in Proc, Provisioning(q), inst[q].port = n
      PROVE  \/ \E r \in Proc : Provisioning(r)' /\ inst'[r].port = n
             \/ \E i \in Id : Leased(i)' /\ record'[i].port = n
  <2>1. CASE q = p
    BY <1>2, <2>1
  <2>2. CASE q # p
    BY <1>2, <2>2 DEF Frame, Provisioning
  <2> QED
    BY <2>1, <2>2
<1>3. ASSUME NEW i \in Id, Leased(i), record[i].port = n PROVE Leased(i)' /\ record'[i].port = n
  <2>1. record'[i] # None /\ record'[i].port = record[i].port /\ ~(Deleting(p)' /\ job'[p] = i)
    BY <1>3 DEF Leased
  <2>2. \A q \in Proc \ {p} : Deleting(q)' => job'[q] # i
    BY <1>3 DEF Leased, Deleting, Frame
  <2> QED
    BY <1>3, <2>1, <2>2 DEF Leased
<1> QED
  BY <1>1, <1>2, <1>3 DEF LeakInv

LEMMA LeakQuiet ==
  ASSUME IndType, LeakInv, NEW p \in Proc, Frame(p), UNCHANGED <<record, portsAvailable>>,
         Provisioning(p) => Provisioning(p)' /\ inst'[p].port = inst[p].port, ~Deleting(p)'
  PROVE  LeakInv'
  BY LeakStep

\* The steps of a request that is served, and of provisionInstance, remove no record and
\* keep the port of each.
LEMMA ServedRecords ==
  ASSUME PoolInv, PortInv, NEW a \in Proc, Served(a)
  PROVE  \A i \in Id : record[i] # None => record'[i] # None /\ record'[i].port = record[i].port
<1>0. IndType
  BY DEF PoolInv
<1>1. /\ pc[a] \in AcquireLabel /\ job[a] \in Id /\ job[a] # None
      /\ inst[a] \in Record /\ pc[a] \in HasInst
      /\ pc[a] = "ttlSet" => read[a] \in Record
  BY <1>0, ServedLocals, ElementsType DEF IndType, LocalsOK, HasJob, HasInst, HasRead, AcquireLabel
<1>2. \A i \in Id : \/ record'[i] = record[i]
                    \/ pc[a] = "ttlSet" /\ i = job[a] /\ record'[i] = [read[a] EXCEPT !.expires = TRUE]
                    \/ pc[a] = "save" /\ i = job[a] /\ record'[i] = inst[a]
  BY <1>0, ServedEffects
<1>3. \A r \in Record : [r EXCEPT !.expires = TRUE] \in Record /\ [r EXCEPT !.expires = TRUE].port = r.port
  BY DEF Record
<1> SUFFICES ASSUME NEW i \in Id, record[i] # None PROVE record'[i] # None /\ record'[i].port = record[i].port
  OBVIOUS
<1>4. pc[a] = "ttlSet" => read[a].port = inst[a].port
  BY DEF PortInv
<1>5. i = job[a] => record[i].port = inst[a].port
  BY <1>1 DEF PortInv
<1>6. None \notin Record
  BY <1>0, ElementsType
<1> QED
  BY <1>1, <1>2, <1>3, <1>4, <1>5, <1>6

LEMMA MakesRecords ==
  ASSUME PoolInv, NEW p \in Proc, Makes(p)
  PROVE  \A i \in Id : record[i] # None => record'[i] # None /\ record'[i].port = record[i].port
<1>1. \A i \in Id : \/ record'[i] = record[i]
                    \/ pc[p] = "addSet" /\ i = job[p] /\ record'[i] = [inst[p] EXCEPT !.state = "ready"]
  BY MakesEffects DEF PoolInv
<1>2. pc[p] = "addSet" => record[job[p]] = None
  BY DEF PoolInv, LifeInv, MakingInv
<1> QED
  BY <1>1, <1>2

\* The script of AcquireFromPool makes no record, removes none and keeps the ports.
LEMMA PopRecords ==
  ASSUME PoolInv, NEW a \in Acquirer, AcquireFromPool(a)
  PROVE  /\ \A i \in Id : record[i] # None => record'[i] # None /\ record'[i].port = record[i].port
         /\ \A i \in Id : record[i] = None => record'[i] = None
<1> DEFINE i == Head(poolReady)
<1>0. IndType /\ ClaimInv
  BY DEF PoolInv
<1>1. UNCHANGED record \/ Taken(i)
  BY <1>0, PopDoes
<1>2. CASE UNCHANGED record
  BY <1>2
<1>3. CASE Taken(i)
  <2> HIDE DEF i
  <2>1. /\ i \in Id /\ record[i] \in Record /\ record'[i] = Assigned(record[i]) /\ record[i] # None
        /\ \A j \in Id \ {i} : record'[j] = record[j]
    BY <1>0, <1>3, ElementsType DEF Taken, IndType, TypeOK, StoreTypeOK
  <2>2. \A r \in Record : Assigned(r) # None /\ Assigned(r).port = r.port
    BY <1>0, ElementsType DEF Assigned, Record, State
  <2> QED
    BY <2>1, <2>2
<1> QED
  BY <1>1, <1>2, <1>3

LEMMA LeakRelease ==
  ASSUME "lost" \notin Failure, PoolInv, PortInv, Calm, LeakInv, NEW p \in Proc, Release(p) PROVE LeakInv'
<1>0. IndType /\ p \notin ctxDone
  BY DEF PoolInv, Calm
<1>1. Frame(p) /\ pc[p] \in ReleaseLabel /\ (Leaves(p) \/ Keeps(p)) /\ job[p] \in Id
  BY <1>0, ReleaseLocals DEF IndType, LocalsOK, HasJob
<1>2. /\ \A i \in Id : record'[i] = record[i] \/ (pc[p] = "dDel" /\ i = job[p] /\ record'[i] = None)
      /\ portsAvailable \subseteq portsAvailable'
  BY <1>0, ReleaseEffects
<1>3. ~Provisioning(p)
  BY <1>1, OtherLabels DEF Provisioning
<1>4. ASSUME NEW i \in Id, record[i] # None, ~(Deleting(p) /\ job[p] = i)
      PROVE  \/ record[i].port \in portsAvailable'
             \/ record'[i] # None /\ record'[i].port = record[i].port /\ ~(Deleting(p)' /\ job'[p] = i)
  <2>1. record'[i] = record[i]
    BY <1>2, <1>4 DEF Deleting
  <2>2. CASE Deleting(p)' /\ job'[p] = i
    <3>1. Keeps(p) /\ job[p] = i /\ pc'[p] \in {"dGet", "dSRem", "dDel"}
      BY <1>1, <2>2 DEF Deleting, Leaves, Keeps
    <3>2. pc[p] = "rReturn"
      BY <1>0, <1>4, <3>1, ReleaseOrder, ReleaseSure DEF Leaves, Deleting
    <3>3. inst[p].port \in portsAvailable'
      BY <1>0, <3>2, ReleaseSure
    <3>4. record[i].port = inst[p].port
      BY <1>4, <3>1, <3>2, <1>0, ElementsType DEF PortInv, HasInst
    <3> QED
      BY <3>3, <3>4
  <2> QED
    BY <1>4, <2>1, <2>2
<1>5. \A n \in portsAvailable \ portsAvailable' : Provisioning(p)' /\ inst'[p].port = n
  BY <1>2
<1> QED
  BY <1>0, <1>1, <1>3, <1>4, <1>5, LeakStep

LEMMA LeakServed ==
  ASSUME PoolInv, PortInv, LeakInv, NEW a \in Proc, Served(a) PROVE LeakInv'
<1>0. IndType
  BY DEF PoolInv
<1>1. Frame(a) /\ pc[a] \in AcquireLabel /\ (ServesOn(a) \/ Answers(a)) /\ portsAvailable' = portsAvailable
  BY <1>0, ServedLocals, ServedEffects
<1>2. ~Provisioning(a) /\ ~Deleting(a)'
  BY <1>1, OtherLabels DEF Provisioning, Deleting, ServesOn, Answers
<1>3. \A i \in Id : record[i] # None => record'[i] # None /\ record'[i].port = record[i].port
  BY ServedRecords
<1> QED
  BY <1>0, <1>1, <1>2, <1>3, LeakStep

LEMMA LeakMakes ==
  ASSUME "lost" \notin Failure, PoolInv, Calm, LeakInv, NEW p \in Proc, Makes(p) PROVE LeakInv'
<1>0. IndType /\ LifeInv /\ p \notin ctxDone
  BY DEF PoolInv, Calm
<1>1. Frame(p) /\ pc[p] \in ProvisionLabel \ {"restore", "start"}
  BY <1>0, MakesLocals
<1>1a. MakesOn(p) \/ (Leaves(p) /\ pc[p] \notin {"health", "addSet", "addIndex", "undoStop"})
  BY <1>0, MakesLocals
<1>2. \A i \in Id : \/ record'[i] = record[i]
                    \/ pc[p] = "addSet" /\ i = job[p] /\ record'[i] = [inst[p] EXCEPT !.state = "ready"]
  BY <1>0, MakesEffects
<1>3. ~Deleting(p)' /\ ~Deleting(p)
  BY <1>1, <1>1a DEF MakesOn, Leaves, Deleting, ProvisionLabel
<1>4. \A i \in Id : record[i] # None => record'[i] # None /\ record'[i].port = record[i].port
  BY MakesRecords
<1>5. \A n \in portsAvailable \ portsAvailable' : Provisioning(p)' /\ inst'[p].port = n
  <2>1. CASE pc[p] # "alloc"
    BY <1>0, <2>1, MakesPorts
  <2>2. CASE pc[p] = "alloc"
    <3>1. \/ portsAvailable' = portsAvailable
          \/ /\ pc'[p] = "track"
             /\ \E n \in portsAvailable : inst'[p] = Warming(n) /\ portsAvailable' = portsAvailable \ {n}
      BY <1>0, <2>2, MakesPorts
    <3>2. pc'[p] = "track" => Provisioning(p)'
      BY DEF Provisioning, ProvisionLabel
    <3>3. ASSUME NEW n \in portsAvailable, inst'[p] = Warming(n), portsAvailable' = portsAvailable \ {n},
                 NEW m \in portsAvailable \ portsAvailable'
          PROVE  inst'[p].port = m
      <4>1. m = n /\ Warming(n).port = n
        BY <3>3 DEF Warming
      <4> QED
        BY <3>3, <4>1
    <3> QED
      BY <3>1, <3>2, <3>3
  <2> QED
    BY <2>1, <2>2
<1>6. ASSUME Provisioning(p)
      PROVE  \/ Provisioning(p)' /\ inst'[p].port = inst[p].port
             \/ inst[p].port \in portsAvailable'
             \/ \E i \in Id : Leased(i)' /\ record'[i].port = inst[p].port
  <2>1. pc[p] # "alloc" /\ inst[p] \in Record
    BY <1>0, <1>6 DEF Provisioning, IndType, LocalsOK, HasInst
  <2>2. CASE MakesOn(p)
    <3>1. \A r \in Record : [r EXCEPT !.state = "ready"].port = r.port
      BY DEF Record
    <3>2. inst'[p].port = inst[p].port
      BY <2>1, <2>2, <3>1 DEF MakesOn
    <3>3. Provisioning(p)'
      BY <2>2 DEF MakesOn, Provisioning, ProvisionLabel
    <3> QED
      BY <3>2, <3>3
  <2>3. CASE pc[p] = "undoReturn"
    BY <1>0, <2>3, MakesSure
  <2>4. CASE Leaves(p) /\ pc[p] # "undoReturn"
    <3>1. pc[p] = "push"
      <4>1. pc[p] \in {"track", "undoUntrack", "push"}
        BY <1>1, <1>1a, <2>1, <2>4 DEF ProvisionLabel, MakesOn, Leaves
      <4> QED
        BY <1>0, <2>4, <4>1, MakesSure DEF Leaves
    <3>2. job[p] \in Id /\ Making(p) /\ job[p] # None /\ record[job[p]] = inst[p]
      BY <1>0, <3>1, ElementsType DEF IndType, LocalsOK, HasJob, Making, MakeLabel, LifeInv, MakingInv
    <3>3. \A q \in Proc \ {p} : job[q] # job[p]
      BY <1>0, <3>2 DEF LifeInv, MakingInv
    <3>4. record'[job[p]] = inst[p] /\ inst[p] # None
      BY <1>0, <1>2, <2>1, <3>1, <3>2, ElementsType
    <3>5. \A q \in Proc : Deleting(q)' => job'[q] # job[p]
      BY <1>1, <1>3, <3>3 DEF Frame
    <3> QED
      BY <3>2, <3>4, <3>5 DEF Leased
  <2> QED
    BY <1>1a, <2>2, <2>3, <2>4
<1> QED
  BY <1>0, <1>1, <1>3, <1>4, <1>5, <1>6, LeakStep

LEMMA LeakInit == Init => LeakInv
  BY DEF Init, StoreInit, LeakInv

LEMMA LeakNext ==
  ASSUME "lost" \notin Failure, "cancel" \notin Failure, "restart" \notin Failure
  PROVE  PoolInv /\ PortInv /\ Calm /\ LeakInv /\ [Next]_vars => LeakInv'
<1> SUFFICES ASSUME PoolInv, PortInv, Calm, LeakInv, [Next]_vars PROVE LeakInv'
  OBVIOUS
<1> USE Processes
<1>0. IndType /\ ClaimInv
  BY DEF PoolInv
<1>1. CASE UNCHANGED vars \/ \E i \in Id : Elapse(i)
  BY <1>1 DEF Elapse, vars, store, locals, LeakInv, Provisioning, Leased, Deleting
<1>2. ASSUME NEW d \in Deleter, Delete(d) PROVE LeakInv'
  BY <1>0, <1>2, LeakQuiet, DeleteDoes DEF store, Provisioning, ProvisionLabel, Deleting
<1>3. ASSUME NEW w \in Worker, ProvisionOne(w) PROVE LeakInv'
  BY <1>0, <1>3, LeakQuiet, ProvisionOneDoes DEF store, Provisioning, ProvisionLabel, Deleting
<1>4. CASE LoopTurn
  <2>1. /\ Frame(Loop) /\ UNCHANGED store /\ pc[Loop] \in LoopLabel
        /\ pc'[Loop] \in LoopLabel \cup {"alloc", "rGet"}
    BY <1>0, <1>4, LoopDoes
  <2>2. ~Provisioning(Loop) /\ ~Deleting(Loop)'
    BY <2>1 DEF LoopLabel, Provisioning, ProvisionLabel, Deleting
  <2> QED
    BY <1>0, <2>1, <2>2, LeakQuiet DEF store
<1>5. (\E p \in Proc : Cancel(p)) \/ Restart => FALSE
  BY DEF Cancel, Restart, Fails
<1>6. ASSUME NEW a \in Acquirer, AcquireFromPool(a) PROVE LeakInv'
  <2> DEFINE i == Head(poolReady)
  <2>1. /\ portsAvailable' = portsAvailable /\ pc[a] = "idle"
        /\ \/ UNCHANGED <<record, pc, locals, ctxDone>>
           \/ Taken(i) /\ Takes(a, i)
    BY <1>0, <1>6, PopDoes
  <2>2. ~Provisioning(a)
    BY <2>1 DEF Provisioning, ProvisionLabel
  <2>3. CASE UNCHANGED <<record, pc, locals, ctxDone>>
    BY <1>0, <2>1, <2>2, <2>3, LeakQuiet DEF Frame, locals, Deleting
  <2>4. CASE Taken(i) /\ Takes(a, i)
    <3> HIDE DEF i
    <3>3. \A j \in Id : record[j] # None => record'[j] # None /\ record'[j].port = record[j].port
      BY <1>6, PopRecords
    <3>4. Frame(a) /\ ~Deleting(a)'
      BY <2>4 DEF Takes, Deleting
    <3> QED
      BY <1>0, <2>1, <2>2, <3>3, <3>4, LeakStep
  <2> QED
    BY <2>1, <2>3, <2>4
<1>7. ASSUME NEW a \in Acquirer, Served(a) PROVE LeakInv'
  BY <1>7, LeakServed
<1>8. ASSUME NEW p \in Proc, Release(p) PROVE LeakInv'
  BY <1>8, LeakRelease
<1>9. ASSUME NEW p \in Proc, RestoreFromCheckpoint(p) \/ Start(p) PROVE LeakInv'
  <2>1. Frame(p) /\ UNCHANGED store /\ inst'[p] = inst[p] /\ pc'[p] \in {"start", "undoUntrack", "health"}
    BY <1>0, <1>9, BootDoes
  <2>2. Provisioning(p)' /\ ~Deleting(p)'
    BY <2>1 DEF Provisioning, ProvisionLabel, Deleting
  <2> QED
    BY <1>0, <2>1, <2>2, LeakQuiet DEF store
<1>10. ASSUME NEW p \in Proc, Makes(p) PROVE LeakInv'
  BY <1>10, LeakMakes
<1> QED
  BY <1>0, <1>1, <1>2, <1>3, <1>4, <1>5, <1>6, <1>7, <1>8, <1>9, <1>10, StepCases

\* A port outside the available set has an owner that will return it, as long as no call fails
\* and the process lives: a sick container and a request that outlasts the TTL cost no port.
THEOREM NoPortLeakHolds == ASSUME Failure \subseteq {"sick", "slow"} PROVE Spec => []NoPortLeak
<1>0. "lost" \notin Failure /\ "cancel" \notin Failure /\ "restart" \notin Failure
  OBVIOUS
<1>1. Spec => []LeakInv
  BY <1>0, LeakInit, LeakNext, CalmHolds, PortHolds, PoolInvHolds, PTL DEF Spec
<1>2. LeakInv => NoPortLeak
  BY DEF LeakInv, NoPortLeak, Leased
<1> QED
  BY <1>1, <1>2, PTL

-----------------------------------------------------------------------------
(* The cap.                                                                *)

\* The number the replenisher has read is at least the length of the list, which only
\* the replenisher makes longer.
SeenInv == pc[Loop] = "scard" => Len(poolReady) <= seenReady

LEMMA SeenNext ==
  ASSUME Worker = {} PROVE PoolInv /\ SeenInv /\ [Next]_vars => SeenInv'
<1> SUFFICES ASSUME PoolInv, SeenInv, [Next]_vars PROVE SeenInv'
  OBVIOUS
<1> USE Processes
<1>0. IndType /\ ClaimInv /\ poolReady \in Seq(Id) /\ seenReady \in Nat
  BY DEF PoolInv, IndType, TypeOK, StoreTypeOK, LoopTypeOK
<1>1. CASE UNCHANGED vars
  BY <1>1 DEF vars, store, loop, SeenInv
<1> SUFFICES ASSUME Next, pc'[Loop] = "scard" PROVE Len(poolReady') <= seenReady'
  BY <1>1 DEF SeenInv
<1>2. \/ pc[Loop] = "scard" /\ seenReady' = seenReady
      \/ pc[Loop] = "llen" /\ seenReady' = Len(poolReady) /\ UNCHANGED store
  BY <1>0, LoopLabels
<1>3. CASE UNCHANGED store
  BY <1>0, <1>2, <1>3 DEF store, SeenInv
<1> SUFFICES ASSUME pc[Loop] = "scard", seenReady' = seenReady, Len(poolReady') <= Len(poolReady)
             PROVE  Len(poolReady') <= seenReady'
  <2> SUFFICES ASSUME pc[Loop] = "scard", seenReady' = seenReady PROVE Len(poolReady') <= Len(poolReady)
    BY <1>2, <1>3
  <2>1. ASSUME NEW a \in Acquirer, AcquireFromPool(a) PROVE Len(poolReady') <= Len(poolReady)
    <3>1. UNCHANGED poolReady \/ Contract!Grant
      BY <2>1, PopMoves
    <3> QED
      BY <1>0, <3>1 DEF Contract!Grant
  <2>2. ASSUME NEW p \in Proc, Release(p) \/ Served(p) PROVE Len(poolReady') <= Len(poolReady)
    <3>1. Len(poolReady) \in Nat
      BY <1>0
    <3>2. Release(p) => poolReady' = poolReady
      BY <1>0, ReleaseLocals
    <3>3. Served(p) => poolReady' = poolReady
      BY <1>0, ServedLocals
    <3> QED
      BY <2>2, <3>1, <3>2, <3>3
  <2>3. ASSUME NEW p \in Worker \cup {Loop}, Makes(p) \/ RestoreFromCheckpoint(p) \/ Start(p)
        PROVE  Len(poolReady') <= Len(poolReady)
    <3>1. p = Loop /\ pc[Loop] \in ProvisionLabel
      BY <1>0, <2>3, MakesLocals, BootDoes DEF ProvisionLabel
    <3> QED
      BY <3>1 DEF ProvisionLabel
  <2>4. \A d \in Deleter : Delete(d) => UNCHANGED store
    BY <1>0, DeleteDoes
  <2>5. LoopTurn => UNCHANGED store
    BY <1>0, LoopDoes
  <2>6. (\E i \in Id : Elapse(i)) \/ (\E p \in Proc : Cancel(p)) \/ Restart => UNCHANGED poolReady
    BY DEF Elapse, Cancel, Restart, InitializePorts, store
  <2> QED
    BY <1>0, <2>1, <2>2, <2>3, <2>4, <2>5, <2>6, StepCases DEF store
<1> QED
  BY <1>0 DEF SeenInv

LEMMA SeenHolds == ASSUME Worker = {} PROVE Spec => []SeenInv
<1>1. Init => SeenInv
  BY Processes DEF Init, SeenInv
<1> QED
  BY <1>1, SeenNext, PoolInvHolds, PTL DEF Spec

LEMMA ElementsCount ==
  ASSUME NEW q \in Seq(Id) PROVE IsFiniteSet(Elements(q)) /\ Cardinality(Elements(q)) <= Len(q)
<1>1. q \in [1 .. Len(q) -> Elements(q)] /\ \A e \in Elements(q) : \E k \in 1 .. Len(q) : q[k] = e
  BY DEF Elements
<1>2. q \in Surjection(1 .. Len(q), Elements(q))
  BY <1>1 DEF Surjection
<1>2a. Len(q) \in Nat /\ 1 \in Int /\ Len(q) \in Int
  OBVIOUS
<1>2b. IsFiniteSet(1 .. Len(q)) /\ Cardinality(1 .. Len(q)) = IF 1 > Len(q) THEN 0 ELSE Len(q) - 1 + 1
  BY <1>2a, FS_Interval
<1>3. IsFiniteSet(1 .. Len(q)) /\ Cardinality(1 .. Len(q)) = Len(q)
  BY <1>2a, <1>2b
<1> QED
  BY <1>2, <1>3, FS_Surjection

BootLabel == {"alloc", "track", "restore", "start"}
GoneLabel == {"rUntrack", "rReturn", "dGet", "dSRem", "dDel"}

\* The replenisher runs a container that is in no set of the store yet.
MakesNow(i) == pc[Loop] \in MakeLabel \cup {"undoStop"} /\ job[Loop] = i

\* Whatever runs is in the list, is assigned or is being made, and there is room for one more
\* while the replenisher is on its way to start one.
CapInv ==
  /\ IsFiniteSet(Running) /\ Cardinality(Running) <= MaxPoolSize
  /\ pc[Loop] \in BootLabel => Cardinality(Running) < MaxPoolSize
  /\ \A i \in Id : running[i] # None => i \in Elements(poolReady) \cup Out \/ MakesNow(i)
  /\ \A p \in Proc : pc[p] \in GoneLabel => running[job[p]] = None

\* A stop is carried out.
Stops == ContainerMode # "docker" \/ Calm

LEMMA StopsHolds ==
  ASSUME ContainerMode # "docker" \/ "cancel" \notin Failure PROVE Spec => []Stops
<1>1. CASE ContainerMode # "docker"
  <2>1. Stops
    BY <1>1 DEF Stops
  <2> QED
    BY <2>1, PTL
<1>2. CASE "cancel" \notin Failure
  <2>1. Calm => Stops
    BY DEF Stops
  <2> QED
    BY <1>2, <2>1, CalmHolds, PTL
<1> QED
  BY <1>1, <1>2

\* A step that starts no container.
LEMMA CapStep ==
  ASSUME IndType, CapInv, NEW p \in Proc, Frame(p),
         \A i \in Id : running'[i] \in {running[i], None},
         pc'[Loop] \in BootLabel => pc[Loop] \in BootLabel \/ Cardinality(Running) < MaxPoolSize,
         \A i \in Id : running'[i] # None /\ (i \in Elements(poolReady) \cup Out \/ MakesNow(i)) =>
           i \in Elements(poolReady') \cup Out' \/ MakesNow(i)',
         pc'[p] \in GoneLabel =>
           job'[p] \in Id /\ (running'[job'[p]] = None \/ (pc[p] \in GoneLabel /\ job'[p] = job[p]))
  PROVE  CapInv'
<1>1. Running' \subseteq Running
  BY DEF Running
<1>2. IsFiniteSet(Running') /\ Cardinality(Running') <= Cardinality(Running)
  BY <1>1, FS_Subset DEF CapInv
<1>2a. Cardinality(Running) \in Nat /\ Cardinality(Running') \in Nat /\ MaxPoolSize \in Nat
  BY <1>2, FS_CardinalityType, SizeAssumption DEF CapInv
<1>3. Cardinality(Running') <= MaxPoolSize /\ (pc'[Loop] \in BootLabel => Cardinality(Running') < MaxPoolSize)
  BY <1>2, <1>2a DEF CapInv
<1>4. ASSUME NEW i \in Id, running'[i] # None PROVE i \in Elements(poolReady') \cup Out' \/ MakesNow(i)'
  BY <1>4 DEF CapInv
<1>5. ASSUME NEW q \in Proc, pc'[q] \in GoneLabel PROVE running'[job'[q]] = None
  <2>1. \A r \in Proc : pc[r] \in GoneLabel => job[r] \in Id /\ running[job[r]] = None
    BY DEF CapInv, IndType, LocalsOK, HasJob, ReleaseLabel, GoneLabel
  <2>2. CASE q = p
    BY <1>5, <2>1, <2>2
  <2>3. CASE q # p
    <3>1. pc[q] \in GoneLabel /\ job'[q] = job[q]
      BY <1>5, <2>3 DEF Frame
    <3> QED
      BY <2>1, <3>1
  <2> QED
    BY <2>2, <2>3
<1>6. Elements(poolReady)' = Elements(poolReady')
  BY DEF Elements
<1> QED
  BY <1>2, <1>3, <1>4, <1>5, <1>6 DEF CapInv

\* When the counters say that the pool lacks an instance, there is room for one.
LEMMA CapRoom ==
  ASSUME PoolInv, OutInv, SeenInv, CapInv, pc[Loop] = "scard", ReplenishmentNeeded(Seen) # 0
  PROVE  Cardinality(Running) < MaxPoolSize
<1>0. poolReady \in Seq(Id) /\ seenReady \in Nat /\ MaxPoolSize \in Nat /\ IsFiniteSet(Out)
  BY SizeAssumption DEF PoolInv, IndType, TypeOK, StoreTypeOK, LoopTypeOK, OutInv
<1>1. Cardinality(Out) \in Nat /\ seenReady + Cardinality(Out) < MaxPoolSize
  BY <1>0, SeenMeans
<1>2. IsFiniteSet(Elements(poolReady)) /\ Cardinality(Elements(poolReady)) <= Len(poolReady)
  BY <1>0, ElementsCount
<1>3. Cardinality(Elements(poolReady)) \in Nat /\ Len(poolReady) \in Nat
  BY <1>0, <1>2, FS_CardinalityType
<1>4. Len(poolReady) <= seenReady
  BY DEF SeenInv
<1>5. /\ IsFiniteSet(Elements(poolReady) \cup Out) /\ Cardinality(Elements(poolReady) \cap Out) \in Nat
      /\ Cardinality(Elements(poolReady) \cup Out)
           = Cardinality(Elements(poolReady)) + Cardinality(Out) - Cardinality(Elements(poolReady) \cap Out)
  <2>1. IsFiniteSet(Elements(poolReady) \cap Out)
    BY <1>0, FS_Subset
  <2> QED
    BY <1>0, <1>2, <2>1, FS_Union, FS_CardinalityType
<1>6. Running \subseteq Elements(poolReady) \cup Out
  BY DEF CapInv, Running, MakesNow, MakeLabel
<1>7. Cardinality(Running) <= Cardinality(Elements(poolReady) \cup Out)
  BY <1>5, <1>6, FS_Subset
<1>8. Cardinality(Running) \in Nat
  BY FS_CardinalityType DEF CapInv
<1> QED
  BY <1>0, <1>1, <1>2, <1>3, <1>4, <1>5, <1>7, <1>8

LEMMA CapRelease ==
  ASSUME "lost" \notin Failure, Stops, PoolInv, CapInv, NEW p \in Proc, Release(p) PROVE CapInv'
<1> USE Processes
<1>0. IndType
  BY DEF PoolInv
<1>1. /\ Frame(p) /\ pc[p] \in ReleaseLabel /\ job[p] \in Id /\ poolReady' = poolReady
      /\ \/ Leaves(p)
         \/ Keeps(p) /\ pc'[p] \in ReleaseLabel
  BY <1>0, ReleaseLocals DEF IndType, LocalsOK, HasJob
<1>2. /\ \A i \in Out : i \in Out' \/ (pc[p] = "dSRem" /\ i = job[p])
      /\ \A i \in Id : running'[i] \in {running[i], None}
  <2>1. /\ \A s \in State : \A i \in stateSet[s] :
             i \in stateSet'[s] \/ (pc[p] = "dSRem" /\ i = job[p] /\ s = read[p].state)
        /\ \A i \in Id : running'[i] = running[i] \/ (pc[p] = "rStop" /\ i = job[p] /\ running'[i] = None)
    BY <1>0, ReleaseEffects
  <2>2. "assigned" \in State
    BY DEF State
  <2> QED
    BY <2>1, <2>2 DEF Out
<1>3. pc[p] = "dSRem" => running'[job[p]] = None
  BY <1>1, <1>2 DEF CapInv, GoneLabel
<1>4. \A i \in Id : MakesNow(i) => MakesNow(i)'
  <2>1. CASE p = Loop
    BY <1>1, <2>1, OtherLabels DEF MakesNow, UndoLabel
  <2>2. CASE p # Loop
    BY <1>1, <2>2 DEF Frame, MakesNow
  <2> QED
    BY <2>1, <2>2
<1>5. pc'[Loop] \in BootLabel => pc[Loop] \in BootLabel
  <2>1. CASE p = Loop
    BY <1>1, <2>1 DEF BootLabel, Leaves, ReleaseLabel
  <2>2. CASE p # Loop
    BY <1>1, <2>2 DEF Frame
  <2> QED
    BY <2>1, <2>2
<1>6. pc'[p] \in GoneLabel =>
        job'[p] \in Id /\ (running'[job'[p]] = None \/ (pc[p] \in GoneLabel /\ job'[p] = job[p]))
  <2> SUFFICES ASSUME pc'[p] \in GoneLabel
               PROVE  job'[p] \in Id /\ (running'[job'[p]] = None \/ (pc[p] \in GoneLabel /\ job'[p] = job[p]))
    OBVIOUS
  <2>1. job'[p] = job[p] /\ (pc[p] = "rStop" \/ pc[p] \in GoneLabel)
    BY <1>0, <1>1, ReleaseOrder DEF Leaves, Keeps, GoneLabel
  <2>2. pc[p] = "rStop" => running'[job[p]] = None
    BY <1>0, StopSure DEF Stops, Calm
  <2> QED
    BY <1>1, <2>1, <2>2
<1>7. \A i \in Id : running'[i] # None /\ (i \in Elements(poolReady) \cup Out \/ MakesNow(i)) =>
           i \in Elements(poolReady') \cup Out' \/ MakesNow(i)'
  BY <1>1, <1>2, <1>3, <1>4
<1> QED
  BY <1>0, <1>1, <1>2, <1>5, <1>6, <1>7, CapStep

LEMMA CapBoot ==
  ASSUME "lost" \notin Failure, PoolInv, CapInv, RestoreFromCheckpoint(Loop) \/ Start(Loop) PROVE CapInv'
<1> USE Processes
<1>0. IndType
  BY DEF PoolInv
<1>1. /\ Frame(Loop) /\ pc[Loop] \in BootLabel /\ UNCHANGED store /\ inst[Loop] \in Record
      /\ \/ pc'[Loop] \in {"start", "undoUntrack"} /\ UNCHANGED running
         \/ \E i \in Id :
              /\ Fresh(i) /\ running'[i] = inst[Loop].port /\ \A j \in Id \ {i} : running'[j] = running[j]
              /\ pc'[Loop] = "health" /\ job'[Loop] = i
  BY <1>0, BootDoes DEF BootLabel, IndType, LocalsOK, HasInst, ProvisionLabel
<1>2. Elements(poolReady') = Elements(poolReady) /\ Out' = Out
  BY <1>1 DEF store, Out
<1>3. \A i \in Id : ~MakesNow(i)
  BY <1>1 DEF MakesNow, BootLabel, MakeLabel
<1>4. CASE pc'[Loop] \in {"start", "undoUntrack"} /\ UNCHANGED running
  <2>1. pc'[Loop] \notin GoneLabel
    BY <1>4 DEF GoneLabel
  <2> QED
    BY <1>0, <1>1, <1>2, <1>3, <1>4, <2>1, CapStep
<1>5. ASSUME NEW i \in Id, Fresh(i), running'[i] = inst[Loop].port,
             \A j \in Id \ {i} : running'[j] = running[j], pc'[Loop] = "health", job'[Loop] = i
      PROVE  CapInv'
  <2>1. Running' \subseteq Running \cup {i}
    BY <1>5 DEF Running
  <2>2. IsFiniteSet(Running) /\ Cardinality(Running) \in Nat /\ Cardinality(Running) < MaxPoolSize
    BY <1>1, FS_CardinalityType DEF CapInv
  <2>3. IsFiniteSet(Running \cup {i}) /\ Cardinality(Running \cup {i}) <= Cardinality(Running) + 1
    BY <2>2, FS_AddElement
  <2>4. /\ IsFiniteSet(Running') /\ Cardinality(Running') <= Cardinality(Running \cup {i})
        /\ Cardinality(Running') \in Nat /\ Cardinality(Running \cup {i}) \in Nat
    BY <2>1, <2>3, FS_Subset, FS_CardinalityType
  <2>5. Cardinality(Running') <= MaxPoolSize
    BY <2>2, <2>3, <2>4, SizeAssumption
  <2>6. pc'[Loop] \notin BootLabel \cup GoneLabel
    BY <1>5 DEF BootLabel, GoneLabel
  <2>7. ASSUME NEW j \in Id, running'[j] # None PROVE j \in Elements(poolReady') \cup Out' \/ MakesNow(j)'
    <3>1. CASE j = i
      BY <1>5, <3>1 DEF MakesNow, MakeLabel
    <3>2. CASE j # i
      BY <1>2, <1>3, <1>5, <2>7, <3>2 DEF CapInv
    <3> QED
      BY <3>1, <3>2
  <2>8. ASSUME NEW q \in Proc, pc'[q] \in GoneLabel PROVE running'[job'[q]] = None
    <3>1. q # Loop /\ pc[q] \in GoneLabel /\ job'[q] = job[q]
      BY <1>1, <2>6, <2>8 DEF Frame
    <3>2. job[q] \in Id /\ job[q] # i /\ running[job[q]] = None
      BY <1>0, <1>5, <3>1 DEF CapInv, IndType, LocalsOK, HasJob, ReleaseLabel, GoneLabel, Fresh
    <3> QED
      BY <1>5, <3>1, <3>2
  <2>9. Elements(poolReady)' = Elements(poolReady')
    BY DEF Elements
  <2> QED
    BY <2>4, <2>5, <2>6, <2>7, <2>8, <2>9 DEF CapInv
<1> QED
  BY <1>1, <1>4, <1>5

LEMMA CapMakes ==
  ASSUME "lost" \notin Failure, Stops, PoolInv, CapInv, Makes(Loop) PROVE CapInv'
<1> USE Processes
<1>0. IndType
  BY DEF PoolInv
<1>1. Frame(Loop) /\ pc[Loop] \in ProvisionLabel
  BY <1>0, MakesLocals
<1>1a. MakesOn(Loop) \/ (Leaves(Loop) /\ pc[Loop] \notin {"health", "addSet", "addIndex", "undoStop"})
  BY <1>0, MakesLocals
<1>2. /\ \A s \in State : stateSet[s] \subseteq stateSet'[s]
      /\ \/ poolReady' = poolReady /\ (pc[Loop] = "push" => pc'[Loop] = "undoStop")
         \/ pc[Loop] = "push" /\ poolReady' = Append(poolReady, job[Loop])
      /\ \A i \in Id : running'[i] \in {running[i], None}
  BY <1>0, MakesEffects
<1>3. Out \subseteq Out'
  BY <1>2 DEF Out, State
<1>4. /\ Elements(poolReady) \subseteq Elements(poolReady')
      /\ pc[Loop] = "push" => pc'[Loop] = "undoStop" \/ job[Loop] \in Elements(poolReady')
  <2>1. CASE poolReady' = poolReady /\ (pc[Loop] = "push" => pc'[Loop] = "undoStop")
    BY <2>1
  <2>2. CASE pc[Loop] = "push" /\ poolReady' = Append(poolReady, job[Loop])
    <3>1. job[Loop] \in Id
      BY <1>0, <2>2 DEF IndType, LocalsOK, HasJob
    <3>2. Elements(poolReady') = Elements(poolReady) \cup {job[Loop]}
      BY <1>0, <2>2, <3>1, AppendElements DEF IndType, TypeOK, StoreTypeOK
    <3> QED
      BY <3>2
  <2> QED
    BY <1>2, <2>1, <2>2
<1>5. pc'[Loop] \in BootLabel => pc[Loop] \in BootLabel
  BY <1>1a DEF MakesOn, Leaves, BootLabel, MakeLabel
<1>6. pc'[Loop] \notin GoneLabel
  BY <1>1a DEF MakesOn, Leaves, GoneLabel
<1>7. ASSUME NEW i \in Id, running'[i] # None, MakesNow(i)
      PROVE  i \in Elements(poolReady') \/ MakesNow(i)'
  <2>1. CASE pc[Loop] = "undoStop"
    <3>1. running'[job[Loop]] = None
      BY <1>0, <2>1, StopSure DEF Stops, Calm
    <3> QED
      BY <1>7, <3>1 DEF MakesNow
  <2>2. CASE pc[Loop] = "push"
    <3>1. pc'[Loop] = "undoStop" => job'[Loop] = job[Loop]
      BY <1>1a DEF Leaves, MakesOn, Keeps
    <3> QED
      BY <1>4, <1>7, <2>2, <3>1 DEF MakesNow
  <2>3. CASE pc[Loop] \in {"health", "addSet", "addIndex"}
    <3>1. job'[Loop] = job[Loop] /\ pc'[Loop] \in MakeLabel \cup {"undoStop"}
      BY <1>1a, <2>3 DEF MakesOn, Keeps, MakeLabel
    <3> QED
      BY <1>7, <3>1 DEF MakesNow
  <2> QED
    BY <1>7, <2>1, <2>2, <2>3 DEF MakesNow, MakeLabel
<1> QED
  BY <1>0, <1>1, <1>2, <1>3, <1>4, <1>5, <1>6, <1>7, CapStep

LEMMA CapQuiet ==
  ASSUME IndType, CapInv, NEW p \in Proc, Frame(p), Elements(poolReady') = Elements(poolReady),
         Out' = Out, running' = running,
         p = Loop => pc[p] \in LoopLabel,
         p = Loop /\ pc'[p] \in BootLabel => Cardinality(Running) < MaxPoolSize, pc'[p] \notin GoneLabel
  PROVE  CapInv'
<1> USE Processes
<1>1. CASE p = Loop
  <2>1. \A i \in Id : ~MakesNow(i)
    BY <1>1, OtherLabels DEF MakesNow, LoopLabel, MakeLabel
  <2> QED
    BY <1>1, <2>1, CapStep
<1>2. CASE p # Loop
  <2>1. pc'[Loop] = pc[Loop] /\ job'[Loop] = job[Loop]
    BY <1>2 DEF Frame
  <2>2. \A i \in Id : MakesNow(i) => MakesNow(i)'
    BY <2>1 DEF MakesNow
  <2> QED
    BY <2>1, <2>2, CapStep
<1> QED
  BY <1>1, <1>2

LEMMA CapInit == Init => CapInv
<1> SUFFICES ASSUME Init PROVE CapInv
  OBVIOUS
<1>1. Running = {} /\ \A i \in Id : running[i] = None
  BY DEF Init, Running
<1>2. \A p \in Proc : pc[p] \in {"idle", "llen"}
  BY DEF Init
<1> QED
  BY <1>1, <1>2, FS_EmptySet, SizeAssumption, Processes DEF CapInv, BootLabel, GoneLabel

LEMMA CapNext ==
  ASSUME Worker = {}, "lost" \notin Failure, "restart" \notin Failure
  PROVE  PoolInv /\ OutInv /\ SeenInv /\ Stops /\ CapInv /\ [Next]_vars => CapInv'
<1> SUFFICES ASSUME PoolInv, OutInv, SeenInv, Stops, CapInv, [Next]_vars PROVE CapInv'
  OBVIOUS
<1> USE Processes
<1>0. IndType /\ ClaimInv /\ LifeInv
  BY DEF PoolInv
<1>1. CASE UNCHANGED vars \/ (\E i \in Id : Elapse(i)) \/ (\E p \in Proc : Cancel(p))
  <2>1. UNCHANGED <<running, pc, job, poolReady, stateSet>>
    BY <1>1 DEF Elapse, Cancel, vars, store, outside, locals
  <2>2. Running' = Running
    BY <2>1 DEF Running
  <2> QED
    BY <2>1, <2>2 DEF CapInv, MakesNow, Elements, Out
<1>2. ASSUME NEW d \in Deleter, Delete(d) PROVE CapInv'
  <2>1. d # Loop
    BY <1>2, ProcAssumption
  <2> QED
    BY <1>0, <1>2, <2>1, CapQuiet, DeleteDoes DEF store, outside, GoneLabel, Out
<1>3. CASE LoopTurn
  <2>1. /\ Frame(Loop) /\ UNCHANGED <<store, outside>> /\ pc[Loop] \in LoopLabel
        /\ pc'[Loop] \in LoopLabel \cup {"alloc", "rGet"}
        /\ pc'[Loop] = "alloc" => pc[Loop] = "scard" /\ ReplenishmentNeeded(Seen) # 0
    BY <1>0, <1>3, LoopDoes
  <2>2. pc'[Loop] \in BootLabel => pc'[Loop] = "alloc"
    BY <2>1 DEF BootLabel, LoopLabel
  <2>3. pc'[Loop] \in BootLabel => Cardinality(Running) < MaxPoolSize
    BY <2>1, <2>2, CapRoom
  <2>4. pc'[Loop] \notin GoneLabel
    BY <2>1 DEF GoneLabel, LoopLabel
  <2> QED
    BY <1>0, <2>1, <2>3, <2>4, CapQuiet DEF store, outside, Out
<1>4. ~Restart
  BY DEF Restart, Fails
<1>5. ASSUME NEW a \in Acquirer, AcquireFromPool(a) PROVE CapInv'
  <2> DEFINE i == Head(poolReady)
  <2>1. /\ running' = running /\ a # Loop /\ a \in Proc
        /\ \/ UNCHANGED <<stateSet, pc, locals, ctxDone>> /\ Elements(poolReady') = Elements(poolReady)
           \/ Taken(i) /\ Takes(a, i)
        /\ pc[a] = "idle"
    BY <1>0, <1>5, PopDoes, ProcAssumption
  <2>2. CASE UNCHANGED <<stateSet, pc, locals, ctxDone>> /\ Elements(poolReady') = Elements(poolReady)
    BY <1>0, <2>1, <2>2, CapQuiet DEF Frame, locals, GoneLabel, Out
  <2>3. CASE Taken(i) /\ Takes(a, i)
    <3> HIDE DEF i
    <3>1. Elements(poolReady') \cup Out' = Elements(poolReady) \cup Out
      BY <2>3 DEF Taken, Out
    <3>2. Frame(a) /\ pc'[a] \notin GoneLabel
      BY <2>3 DEF Takes, GoneLabel
    <3>3. pc'[Loop] = pc[Loop] /\ \A j \in Id : MakesNow(j) => MakesNow(j)'
      BY <2>1, <3>2 DEF Frame, MakesNow
    <3> QED
      BY <1>0, <2>1, <3>1, <3>2, <3>3, CapStep
  <2> QED
    BY <2>1, <2>2, <2>3
<1>6. ASSUME NEW a \in Acquirer, Served(a) PROVE CapInv'
  <2>1. /\ Frame(a) /\ (ServesOn(a) \/ Answers(a)) /\ poolReady' = poolReady /\ running' = running
        /\ \A s \in State : stateSet[s] \subseteq stateSet'[s]
        /\ a # Loop
    BY <1>0, <1>6, ServedLocals, ServedEffects, ProcAssumption
  <2>2. Out \subseteq Out' /\ pc'[a] \notin GoneLabel
    BY <2>1 DEF Out, State, GoneLabel, ServesOn, Answers
  <2>3. pc'[Loop] = pc[Loop] /\ \A j \in Id : MakesNow(j) => MakesNow(j)'
    BY <2>1 DEF Frame, MakesNow
  <2> QED
    BY <1>0, <2>1, <2>2, <2>3, CapStep
<1>7. ASSUME NEW p \in Proc, Release(p) PROVE CapInv'
  BY <1>7, CapRelease
<1>8. RestoreFromCheckpoint(Loop) \/ Start(Loop) => CapInv'
  BY CapBoot
<1>9. Makes(Loop) => CapInv'
  BY CapMakes
<1> QED
  BY <1>0, <1>1, <1>2, <1>3, <1>4, <1>5, <1>6, <1>7, <1>8, <1>9, StepCases

\* MaxPoolSize caps the running containers, although TriggerReplenish compares it with two
\* numbers it reads by separate commands, whatever is slow or sick, as long as only
\* the replenisher provisions, the process lives and every stop is carried out.
THEOREM HardCapHolds ==
  ASSUME Worker = {}, "lost" \notin Failure, "restart" \notin Failure,
         ContainerMode # "docker" \/ "cancel" \notin Failure
  PROVE  Spec => []HardCap
<1>1. Spec => []CapInv
  BY CapInit, CapNext, StopsHolds, SeenHolds, OutHolds, PoolInvHolds, PTL DEF Spec
<1>2. CapInv => HardCap
  BY DEF CapInv, HardCap
<1> QED
  BY <1>1, <1>2, PTL

-----------------------------------------------------------------------------
(* One release at a time.                                                  *)

LEMMA LoopContext ==
  ASSUME IndType, LoopTurn
  PROVE  /\ pc'[Loop] = "rGet" => job'[Loop] \notin expired'
         /\ pc[Loop] \in {"llen", "scard"} => pc'[Loop] \in {"scard", "alloc"} \/ Loop \notin ctxDone'
<1> USE Processes
<1>0. ProcTypeOK
  BY DEF IndType, TypeOK
<1>1. \A l : Send(Loop, l) => pc'[Loop] = l
  BY <1>0 DEF Send, Goto, ProcTypeOK
<1>2. Replenished => Loop \notin ctxDone' /\ pc'[Loop] \in {"select", "list"}
  BY <1>0 DEF Replenished, Goto, ProcTypeOK
<1>3. Rest => pc'[Loop] = "select"
  BY <1>1 DEF Rest
<1>4. CASE Trigger \/ Tick
  BY <1>1, <1>4 DEF Trigger, Tick, Wake, At
<1>5. CASE ReadReady
  BY <1>1, <1>2, <1>5 DEF ReadReady, Query
<1>6. CASE ReadAssigned
  BY <1>1, <1>2, <1>6 DEF ReadAssigned, Query, Resume
<1>7. CASE ListAssigned
  BY <1>1, <1>3, <1>7 DEF ListAssigned, Query, At
<1>8. CASE FetchAssigned
  BY <1>1, <1>3, <1>8 DEF FetchAssigned, Query, At
<1>9. CASE Sweep
  BY <1>0, <1>3, <1>9 DEF Sweep, Goto, ProcTypeOK, At
<1> QED
  BY <1>4, <1>5, <1>6, <1>7, <1>8, <1>9 DEF LoopTurn

\* Without DELETE requests the replenisher alone releases: a request that gives up finds its own
\* context over.  What is to be released exists, once, and its container stops before its
\* port is returned.
SweepInv ==
  /\ \A a \in Acquirer : pc[a] \in ReleaseLabel => pc[a] = "rGet" /\ a \in ctxDone
  /\ pc[Loop] \in ReleaseLabel => record[job[Loop]] # None /\ job[Loop] \notin expired
  /\ pc[Loop] \in GoneLabel => running[job[Loop]] = None
  /\ Loop \in ctxDone => pc[Loop] \in {"llen", "scard"} \cup ProvisionLabel
  /\ \A i \in expired : record[i] # None

LEMMA SweepOther ==
  ASSUME IndType, SweepInv, NEW p \in Proc \ {Loop}, Frame(p), expired' = expired,
         \A i \in Id : record[i] # None => record'[i] # None,
         \A i \in Id : running'[i] \in {running[i], None} \/ job[Loop] # i,
         p \in Acquirer /\ pc'[p] \in ReleaseLabel => pc'[p] = "rGet" /\ p \in ctxDone'
  PROVE  SweepInv'
<1> USE Processes
<1>1. pc'[Loop] = pc[Loop] /\ job'[Loop] = job[Loop] /\ (Loop \in ctxDone' <=> Loop \in ctxDone)
  BY DEF Frame
<1>2. ASSUME NEW a \in Acquirer, pc'[a] \in ReleaseLabel PROVE pc'[a] = "rGet" /\ a \in ctxDone'
  <2>1. CASE a = p
    BY <1>2, <2>1
  <2>2. CASE a # p
    BY <1>2, <2>2 DEF Frame, SweepInv
  <2> QED
    BY <2>1, <2>2
<1>3. pc[Loop] \in ReleaseLabel \cup GoneLabel => job[Loop] \in Id
  BY DEF IndType, LocalsOK, HasJob, ReleaseLabel, GoneLabel
<1>4. expired \subseteq Id
  BY DEF IndType, TypeOK, LoopTypeOK
<1>5. pc'[Loop] \in ReleaseLabel => record'[job'[Loop]] # None /\ job'[Loop] \notin expired'
  BY <1>1, <1>3 DEF SweepInv
<1>6. pc'[Loop] \in GoneLabel => running'[job'[Loop]] = None
  BY <1>1, <1>3 DEF SweepInv
<1>7. Loop \in ctxDone' => pc'[Loop] \in {"llen", "scard"} \cup ProvisionLabel
  BY <1>1 DEF SweepInv
<1>8. \A i \in expired' : record'[i] # None
  BY <1>4 DEF SweepInv
<1> QED
  BY <1>2, <1>5, <1>6, <1>7, <1>8 DEF SweepInv

\* A step of the replenisher that makes no record disappear and begins no release.
LEMMA SweepOwn ==
  ASSUME IndType, SweepInv, Frame(Loop), \A i \in expired' : record'[i] # None,
         pc'[Loop] \notin ReleaseLabel \cup GoneLabel,
         Loop \in ctxDone' => pc'[Loop] \in {"llen", "scard"} \cup ProvisionLabel
  PROVE  SweepInv'
<1>1. ASSUME NEW a \in Acquirer, pc'[a] \in ReleaseLabel PROVE pc'[a] = "rGet" /\ a \in ctxDone'
  BY <1>1, Processes, ProcAssumption DEF Frame, SweepInv
<1> QED
  BY <1>1 DEF SweepInv

LEMMA SweepRelease ==
  ASSUME Deleter = {}, "lost" \notin Failure, PoolInv, SweepInv,
         NEW p \in Acquirer \cup Deleter \cup {Loop}, Release(p)
  PROVE  SweepInv'
<1> USE Processes
<1>0. IndType /\ p \in Proc
  BY DEF PoolInv
<1>1. /\ Frame(p) /\ pc[p] \in ReleaseLabel /\ UNCHANGED loop /\ job[p] \in Id
      /\ Leaves(p) \/ (Keeps(p) /\ pc'[p] \in ReleaseLabel)
  BY <1>0, ReleaseLocals DEF IndType, LocalsOK, HasJob
<1>2. /\ \A i \in Id : record'[i] = record[i] \/ (pc[p] = "dDel" /\ i = job[p] /\ record'[i] = None)
      /\ \A i \in Id : running'[i] \in {running[i], None}
  BY <1>0, ReleaseEffects
<1>3. expired' = expired /\ expired \subseteq Id
  BY <1>0, <1>1 DEF loop, sweep, IndType, TypeOK, LoopTypeOK
<1>4. CASE p \in Acquirer
  <2>1. pc[p] = "rGet" /\ p \in ctxDone /\ p # Loop
    BY <1>1, <1>4, ProcAssumption DEF SweepInv
  <2>2. ~Answered(p) /\ ~Lost(p)
    BY <2>1 DEF Answered, Lost
  <2>3. Leaves(p)
    <3>1. GetForRelease(p)
      BY <2>1 DEF Release, RemoveRoute, DropPrefixedTables, Stop, UntrackPort, ReturnPort, GetForDelete,
                  RemoveFromStateSet, DeleteRecord, At
    <3>2. Released(p)
      BY <2>2, <3>1 DEF GetForRelease, Query
    <3> QED
      BY <1>0, <3>2, ReleasedDoes DEF IndType, TypeOK
  <2>4. pc'[p] \notin ReleaseLabel
    BY <2>3 DEF Leaves, ReleaseLabel
  <2>5. \A i \in Id : record[i] # None => record'[i] # None
    BY <1>2, <2>1
  <2> QED
    BY <1>0, <1>1, <1>2, <1>3, <2>1, <2>4, <2>5, SweepOther
<1>5. CASE p = Loop
  <2>1. Loop \notin ctxDone
    BY <1>1, <1>5, OtherLabels DEF SweepInv, ReleaseLabel, ProvisionLabel
  <2>2. Loop \notin ctxDone'
    BY <1>1, <1>5, <2>1 DEF Leaves, Keeps
  <2>3. \A i \in expired' : record'[i] # None
    <3>1. job[Loop] \notin expired /\ \A i \in expired : record[i] # None
      BY <1>1, <1>5 DEF SweepInv
    <3> QED
      BY <1>2, <1>3, <1>5, <3>1
  <2>4. CASE Leaves(p)
    <3>1. pc'[Loop] \notin ReleaseLabel \cup GoneLabel
      BY <1>5, <2>4 DEF Leaves, ReleaseLabel, GoneLabel
    <3> QED
      BY <1>0, <1>1, <1>5, <2>2, <2>3, <3>1, SweepOwn
  <2>5. CASE Keeps(p) /\ pc'[p] \in ReleaseLabel /\ ~Leaves(p)
    <3>1. pc[Loop] # "dDel" /\ (pc'[Loop] \in GoneLabel => pc[Loop] = "rStop" \/ pc[Loop] \in GoneLabel)
      BY <1>0, <1>5, <2>5, ReleaseOrder DEF GoneLabel
    <3>2. job'[Loop] = job[Loop] /\ record'[job[Loop]] # None /\ job[Loop] \notin expired'
      BY <1>1, <1>2, <1>3, <1>5, <2>5, <3>1 DEF Keeps, SweepInv
    <3>3. pc'[Loop] \in GoneLabel => running'[job[Loop]] = None
      <4>1. pc[Loop] = "rStop" => running'[job[Loop]] = None
        BY <1>0, <1>5, <2>1, StopSure
      <4>2. pc[Loop] \in GoneLabel => running'[job[Loop]] = None
        BY <1>1, <1>2, <1>5 DEF SweepInv
      <4> QED
        BY <3>1, <4>1, <4>2
    <3>4. ASSUME NEW a \in Acquirer, pc'[a] \in ReleaseLabel PROVE pc'[a] = "rGet" /\ a \in ctxDone'
      BY <1>1, <1>5, <3>4, ProcAssumption DEF Frame, SweepInv
    <3> QED
      BY <2>2, <2>3, <3>2, <3>3, <3>4 DEF SweepInv
  <2> QED
    BY <1>1, <2>4, <2>5
<1> QED
  BY <1>4, <1>5

LEMMA SweepServed ==
  ASSUME "slow" \notin Failure, "lost" \notin Failure, PoolInv, PortInv, SweepInv, NEW a \in Acquirer, Served(a)
  PROVE  SweepInv'
<1> USE Processes
<1>0. IndType /\ SoleInv /\ a # Loop
  BY ProcAssumption DEF PoolInv
<1>1. /\ Frame(a) /\ pc[a] \in AcquireLabel /\ UNCHANGED loop /\ (ServesOn(a) \/ Answers(a))
      /\ running' = running /\ job[a] \in Id
  BY <1>0, ServedLocals, ServedEffects DEF IndType, LocalsOK, HasJob
<1>2. \A i \in Id : record[i] # None => record'[i] # None
  BY ServedRecords
<1>3. ASSUME pc'[a] \in ReleaseLabel PROVE pc'[a] = "rGet" /\ a \in ctxDone'
  <2>1. ServesOn(a) /\ pc'[a] = "rGet"
    BY <1>1, <1>3 DEF ServesOn, Answers, ReleaseLabel
  <2>2. record[job[a]] # None
    BY <1>0, <1>1 DEF SoleInv, Sole, Unrivalled
  <2>3. pc[a] \in {"ttlGet", "ttlSet", "route"}
    <3>1. pc[a] = "signal" => pc'[a] = "save"
      BY <1>0 DEF Served, GetForTTL, SetTTL, AddRoute, Signal, SaveUserIP, SaveUserIPIndex, At, Send, Goto,
                  IndType, TypeOK, ProcTypeOK
    <3>2. ASSUME pc[a] \in {"save", "saveAdd"} PROVE pc'[a] # "rGet"
      <4>1. SaveUserIP(a) \/ SaveUserIPIndex(a)
        BY <3>2 DEF Served, GetForTTL, SetTTL, AddRoute, Signal, At
      <4>2. Respond(a) => pc'[a] = "idle"
        BY <1>0, RespondDoes DEF IndType, TypeOK
      <4>3. Send(a, "saveAdd") => pc'[a] = "saveAdd"
        BY <1>0, SendDoes DEF IndType, TypeOK
      <4> QED
        BY <4>1, <4>2, <4>3 DEF SaveUserIP, SaveUserIPIndex, Call
    <3> QED
      BY <1>1, <2>1, <3>1, <3>2 DEF AcquireLabel
  <2>4. a \in ctxDone
    BY <1>0, <2>1, <2>2, <2>3, ServedSure
  <2> QED
    BY <2>1, <2>4 DEF ServesOn, Keeps
<1> QED
  BY <1>0, <1>1, <1>2, <1>3, SweepOther DEF loop, sweep

LEMMA SweepMakes ==
  ASSUME PoolInv, SweepInv, NEW p \in Worker \cup {Loop}, Makes(p) PROVE SweepInv'
<1> USE Processes
<1>0. IndType /\ LifeInv /\ p \in Proc
  BY DEF PoolInv
<1>1. /\ Frame(p) /\ UNCHANGED expired /\ pc[p] \in ProvisionLabel
      /\ \/ MakesOn(p)
         \/ Leaves(p) /\ (p = Loop => pc'[p] = "llen" \/ Loop \notin ctxDone')
  BY <1>0, MakesLocals
<1>2. \A i \in Id : running'[i] = running[i] \/ (pc[p] = "undoStop" /\ i = job[p] /\ running'[i] = None)
  BY <1>0, MakesEffects
<1>3. (\A i \in Id : record[i] # None => record'[i] # None) /\ expired \subseteq Id
  BY <1>0, MakesRecords DEF IndType, TypeOK, LoopTypeOK
<1>4. CASE p = Loop
  <2>1. pc'[Loop] \notin ReleaseLabel \cup GoneLabel
    BY <1>1, <1>4 DEF MakesOn, Leaves, ReleaseLabel, GoneLabel
  <2>2. Loop \in ctxDone' => pc'[Loop] \in {"llen", "scard"} \cup ProvisionLabel
    BY <1>1, <1>4 DEF MakesOn, ProvisionLabel
  <2>3. \A i \in expired' : record'[i] # None
    BY <1>1, <1>3 DEF SweepInv
  <2> QED
    BY <1>0, <1>1, <1>4, <2>1, <2>2, <2>3, SweepOwn
<1>5. CASE p # Loop
  <2>1. p \notin Acquirer
    BY <1>5, ProcAssumption
  <2>2. \A i \in Id : running'[i] \in {running[i], None}
    BY <1>2
  <2> QED
    BY <1>0, <1>1, <1>3, <1>5, <2>1, <2>2, SweepOther
<1> QED
  BY <1>4, <1>5

LEMMA SweepBoot ==
  ASSUME PoolInv, SweepInv, NEW p \in Worker \cup {Loop}, RestoreFromCheckpoint(p) \/ Start(p) PROVE SweepInv'
<1> USE Processes
<1>0. IndType /\ p \in Proc
  BY DEF PoolInv
<1>1. /\ Frame(p) /\ UNCHANGED record /\ pc'[p] \in {"start", "undoUntrack", "health"}
      /\ \/ UNCHANGED running
         \/ \E i \in Id : Fresh(i) /\ \A j \in Id \ {i} : running'[j] = running[j]
  BY <1>0, BootDoes DEF store
<1>2. expired' = expired /\ expired \subseteq Id
  <2>1. UNCHANGED loop
    BY <1>0, BootDoes
  <2> QED
    BY <1>0, <2>1 DEF loop, sweep, IndType, TypeOK, LoopTypeOK
<1>3. CASE p = Loop
  <2>1. pc'[Loop] \notin ReleaseLabel \cup GoneLabel /\ pc'[Loop] \in ProvisionLabel
    BY <1>1, <1>3 DEF ReleaseLabel, GoneLabel, ProvisionLabel
  <2>2. \A i \in expired' : record'[i] # None
    BY <1>1, <1>2 DEF SweepInv
  <2> QED
    BY <1>0, <1>1, <1>3, <2>1, <2>2, SweepOwn
<1>4. CASE p # Loop
  <2>1. p \notin Acquirer
    BY <1>4, ProcAssumption
  <2>2. \A i \in Id : running'[i] \in {running[i], None} \/ job[Loop] # i
    BY <1>1 DEF Fresh
  <2> QED
    BY <1>0, <1>1, <1>2, <1>4, <2>1, <2>2, SweepOther
<1> QED
  BY <1>3, <1>4

LEMMA SweepInit == Init => SweepInv
<1> SUFFICES ASSUME Init PROVE SweepInv
  OBVIOUS
<1>1. (\A p \in Proc : pc[p] \in {"idle", "llen"}) /\ expired = {} /\ ctxDone = {}
  BY DEF Init
<1> QED
  BY <1>1, Processes DEF SweepInv, ReleaseLabel, GoneLabel

LEMMA SweepNext ==
  ASSUME Deleter = {}, "slow" \notin Failure, "lost" \notin Failure, "restart" \notin Failure
  PROVE  PoolInv /\ PortInv /\ SweepInv /\ [Next]_vars => SweepInv'
<1> SUFFICES ASSUME PoolInv, PortInv, SweepInv, [Next]_vars PROVE SweepInv'
  OBVIOUS
<1> USE Processes
<1>0. IndType /\ ClaimInv /\ expired \subseteq Id
  BY DEF PoolInv, IndType, TypeOK, LoopTypeOK
<1>1. CASE UNCHANGED vars \/ (\E i \in Id : Elapse(i))
  BY <1>1 DEF Elapse, vars, store, outside, locals, loop, sweep, SweepInv
<1>2. ASSUME NEW p \in Proc, Cancel(p) PROVE SweepInv'
  <2>1. /\ UNCHANGED <<record, running, pc, job, expired>> /\ ctxDone' = ctxDone \cup {p}
        /\ p = Loop => pc[Loop] \in {"llen", "scard"} \cup ProvisionLabel
    BY <1>2 DEF Cancel, HasDeadline, store, outside, locals, loop, sweep
  <2> QED
    BY <2>1 DEF SweepInv
<1>3. ASSUME NEW w \in Worker, ProvisionOne(w) PROVE SweepInv'
  <2>1. /\ Frame(w) /\ pc'[w] = "alloc" /\ record' = record /\ running' = running /\ UNCHANGED loop
        /\ w # Loop /\ w \notin Acquirer
    BY <1>0, <1>3, ProvisionOneDoes, ProcAssumption DEF store, outside
  <2> QED
    BY <1>0, <2>1, SweepOther DEF loop, sweep
<1>4. CASE LoopTurn
  <2>1. /\ Frame(Loop) /\ UNCHANGED <<record, running>> /\ pc[Loop] \in LoopLabel /\ ctxDone' \subseteq ctxDone
        /\ expired' \subseteq expired \cup {i \in listed : record[i] # None /\ IsExpired(i)}
        /\ \/ pc'[Loop] \in LoopLabel \cup {"alloc"}
           \/ pc'[Loop] = "rGet" /\ job'[Loop] \in expired
    BY <1>0, <1>4, LoopDoes DEF store, outside
  <2>2. \A i \in expired' : record'[i] # None
    BY <2>1 DEF SweepInv
  <2>3. Loop \in ctxDone' => pc'[Loop] \in {"scard", "alloc"}
    <3>1. Loop \in ctxDone => pc[Loop] \in {"llen", "scard"}
      BY <2>1, OtherLabels DEF SweepInv
    <3> QED
      BY <1>0, <1>4, <2>1, <3>1, LoopContext
  <2>4. CASE pc'[Loop] \in LoopLabel \cup {"alloc"}
    <3>1. pc'[Loop] \notin ReleaseLabel \cup GoneLabel
      BY <2>4 DEF LoopLabel, ReleaseLabel, GoneLabel
    <3>2. Loop \in ctxDone' => pc'[Loop] \in {"llen", "scard"} \cup ProvisionLabel
      BY <2>3 DEF ProvisionLabel
    <3> QED
      BY <1>0, <2>1, <2>2, <3>1, <3>2, SweepOwn
  <2>5. CASE pc'[Loop] = "rGet" /\ job'[Loop] \in expired
    <3>1. job'[Loop] \notin expired' /\ record'[job'[Loop]] # None
      BY <1>0, <1>4, <2>1, <2>5, LoopContext DEF SweepInv
    <3>2. pc'[Loop] \notin GoneLabel /\ Loop \notin ctxDone'
      BY <2>3, <2>5 DEF GoneLabel
    <3>3. ASSUME NEW a \in Acquirer, pc'[a] \in ReleaseLabel PROVE pc'[a] = "rGet" /\ a \in ctxDone'
      BY <2>1, <3>3, ProcAssumption DEF Frame, SweepInv
    <3> QED
      BY <2>2, <3>1, <3>2, <3>3 DEF SweepInv
  <2> QED
    BY <2>1, <2>4, <2>5
<1>5. ~Restart
  BY DEF Restart, Fails
<1>6. ASSUME NEW a \in Acquirer, AcquireFromPool(a) PROVE SweepInv'
  <2>1. a # Loop /\ running' = running /\ pc[a] = "idle"
    BY <1>0, <1>6, PopDoes, ProcAssumption
  <2>2. expired' = expired
    <3>1. UNCHANGED loop
      BY <1>0, <1>6, PopDoes
    <3> QED
      BY <3>1 DEF loop, sweep
  <2>3. Frame(a) /\ pc'[a] \in {"idle", "ttlGet"}
    <3>1. UNCHANGED <<pc, locals, ctxDone>> \/ Takes(a, Head(poolReady))
      BY <1>0, <1>6, PopDoes
    <3> QED
      BY <2>1, <3>1 DEF Takes, Frame, locals
  <2>4. \A i \in Id : record[i] # None => record'[i] # None
    BY <1>6, PopRecords
  <2>5. pc'[a] \notin ReleaseLabel
    BY <2>3 DEF ReleaseLabel
  <2> QED
    BY <1>0, <2>1, <2>2, <2>3, <2>4, <2>5, SweepOther
<1>7. ASSUME NEW a \in Acquirer, Served(a) PROVE SweepInv'
  BY <1>7, SweepServed
<1>8. ASSUME NEW p \in Acquirer \cup Deleter \cup {Loop}, Release(p) PROVE SweepInv'
  BY <1>8, SweepRelease
<1>9. ASSUME NEW p \in Worker \cup {Loop}, RestoreFromCheckpoint(p) \/ Start(p) PROVE SweepInv'
  BY <1>9, SweepBoot
<1>10. ASSUME NEW p \in Worker \cup {Loop}, Makes(p) PROVE SweepInv'
  BY <1>10, SweepMakes
<1>11. ~\E d \in Deleter : Delete(d)
  OBVIOUS
<1> QED
  BY <1>0, <1>1, <1>2, <1>3, <1>4, <1>5, <1>6, <1>7, <1>8, <1>9, <1>10, <1>11, StepCases

-----------------------------------------------------------------------------
(* On the way back, nothing is left of the instance that failed.           *)

UndoInv ==
  \A p \in Proc :
    pc[p] \in UndoLabel /\ p \notin ctxDone /\ job[p] # None =>
      /\ record[job[p]] = None
      /\ pc[p] # "undoStop" => running[job[p]] = None

\* A step of p that leaves alone what the others work back.
LEMMA UndoStep ==
  ASSUME IndType, UndoInv, NEW p \in Proc, Frame(p),
         \A q \in Proc \ {p} : pc[q] \in UndoLabel /\ job[q] # None =>
           record'[job[q]] = record[job[q]] /\ running'[job[q]] = running[job[q]],
         pc'[p] \in UndoLabel /\ p \notin ctxDone' /\ job'[p] # None =>
           /\ record'[job'[p]] = None
           /\ pc'[p] # "undoStop" => running'[job'[p]] = None
  PROVE  UndoInv'
<1> SUFFICES ASSUME NEW q \in Proc, pc'[q] \in UndoLabel, q \notin ctxDone', job'[q] # None
             PROVE  record'[job'[q]] = None /\ (pc'[q] # "undoStop" => running'[job'[q]] = None)
  BY DEF UndoInv
<1>1. CASE q = p
  BY <1>1
<1>2. CASE q # p
  <2>1. pc[q] \in UndoLabel /\ q \notin ctxDone /\ job'[q] = job[q] /\ pc'[q] = pc[q]
    BY <1>2 DEF Frame
  <2> QED
    BY <1>2, <2>1 DEF UndoInv
<1> QED
  BY <1>1, <1>2

\* The others' jobs are not p's: what p does to its own instance is no concern of theirs.
LEMMA UndoOwn ==
  ASSUME "lost" \notin Failure, IndType, LifeInv, UndoInv, NEW p \in Proc, Frame(p),
         \A i \in Id : job[p] # i => record'[i] = record[i] /\ running'[i] = running[i],
         pc'[p] \in UndoLabel /\ p \notin ctxDone' /\ job'[p] # None =>
           /\ record'[job'[p]] = None
           /\ pc'[p] # "undoStop" => running'[job'[p]] = None
  PROVE  UndoInv'
<1>1. ASSUME NEW q \in Proc \ {p}, pc[q] \in UndoLabel, job[q] # None
      PROVE  record'[job[q]] = record[job[q]] /\ running'[job[q]] = running[job[q]]
  <2>1. job[q] \in Id /\ Making(q)
    BY <1>1 DEF IndType, TypeOK, ProcTypeOK, Making
  <2>2. job[p] # job[q]
    BY <1>1, <2>1 DEF LifeInv, MakingInv
  <2> QED
    BY <2>1, <2>2
<1> QED
  BY <1>1, UndoStep

LEMMA UndoMakes ==
  ASSUME "lost" \notin Failure, PoolInv, UndoInv, NEW p \in Proc, Makes(p) PROVE UndoInv'
<1>0. IndType /\ LifeInv
  BY DEF PoolInv
<1>1. Frame(p) /\ (MakesOn(p) \/ Leaves(p))
  BY <1>0, MakesLocals
<1>2. /\ \A i \in Id : \/ record'[i] = record[i]
                       \/ pc[p] = "addSet" /\ i = job[p] /\ record'[i] = [inst[p] EXCEPT !.state = "ready"]
      /\ \A i \in Id : running'[i] = running[i] \/ (pc[p] = "undoStop" /\ i = job[p] /\ running'[i] = None)
  BY <1>0, MakesEffects
<1>3. ASSUME pc'[p] \in UndoLabel, p \notin ctxDone', job'[p] # None
      PROVE  record'[job'[p]] = None /\ (pc'[p] # "undoStop" => running'[job'[p]] = None)
  <2>1. MakesOn(p) /\ job'[p] = job[p] /\ p \notin ctxDone /\ job[p] \in Id
    BY <1>0, <1>1, <1>3 DEF Leaves, UndoLabel, MakesOn, Keeps, IndType, TypeOK, ProcTypeOK
  <2>2. CASE pc[p] \in MakeLabel
    <3>1. pc'[p] = "undoStop"
      BY <1>3, <2>1, <2>2 DEF MakesOn, MakeLabel, UndoLabel
    <3>2. pc[p] = "health"
      BY <1>0, <2>1, <2>2, <3>1, MakesSure DEF MakeLabel, Leaves
    <3>3. record[job[p]] = None
      BY <1>0, <3>2 DEF LifeInv, MakingInv
    <3>4. record'[job[p]] = None
      BY <1>2, <2>1, <3>2, <3>3
    <3> QED
      BY <2>1, <3>1, <3>4
  <2>3. CASE pc[p] \in UndoLabel
    <3>1. record[job[p]] = None /\ (pc[p] # "undoStop" => running[job[p]] = None)
      BY <1>3, <2>1, <2>3 DEF UndoInv
    <3>2. record'[job[p]] = None
      BY <1>2, <2>1, <2>3, <3>1 DEF UndoLabel
    <3>3. pc[p] = "undoStop" => running'[job[p]] = None
      BY <1>0, <2>1, StopSure
    <3>4. running'[job[p]] = None
      BY <1>2, <2>1, <3>1, <3>3
    <3> QED
      BY <2>1, <3>2, <3>4
  <2> QED
    BY <1>3, <2>1, <2>2, <2>3 DEF MakesOn, UndoLabel, MakeLabel
<1>4. \A i \in Id : job[p] # i => record'[i] = record[i] /\ running'[i] = running[i]
  BY <1>2
<1> QED
  BY <1>0, <1>1, <1>3, <1>4, UndoOwn

LEMMA UndoInit == Init => UndoInv
<1> SUFFICES ASSUME Init PROVE UndoInv
  OBVIOUS
<1>1. \A p \in Proc : pc[p] \in {"idle", "llen"}
  BY DEF Init
<1> QED
  BY <1>1 DEF UndoInv, UndoLabel

LEMMA UndoNext ==
  ASSUME "lost" \notin Failure
  PROVE  PoolInv /\ UndoInv /\ [Next]_vars => UndoInv'
<1> SUFFICES ASSUME PoolInv, UndoInv, [Next]_vars PROVE UndoInv'
  OBVIOUS
<1> USE Processes
<1>0. IndType /\ ClaimInv /\ LifeInv
  BY DEF PoolInv
<1>1. CASE UNCHANGED vars \/ (\E i \in Id : Elapse(i)) \/ (\E p \in Proc : Cancel(p))
  <2>1. UNCHANGED <<record, running, pc, job>> /\ ctxDone \subseteq ctxDone'
    BY <1>1 DEF Elapse, Cancel, vars, store, outside, locals
  <2> QED
    BY <2>1 DEF UndoInv
<1>2. ASSUME NEW p \in Proc, Frame(p), UNCHANGED <<record, running>>, pc'[p] \notin UndoLabel PROVE UndoInv'
  BY <1>0, <1>2, UndoStep
<1>3. ASSUME NEW d \in Deleter, Delete(d) PROVE UndoInv'
  BY <1>0, <1>2, <1>3, DeleteDoes DEF store, outside, UndoLabel
<1>4. ASSUME NEW w \in Worker, ProvisionOne(w) PROVE UndoInv'
  BY <1>0, <1>2, <1>4, ProvisionOneDoes DEF store, outside, UndoLabel
<1>5. CASE LoopTurn
  <2>1. Frame(Loop) /\ UNCHANGED <<record, running>> /\ pc'[Loop] \in LoopLabel \cup {"alloc", "rGet"}
    BY <1>0, <1>5, LoopDoes DEF store, outside
  <2> QED
    BY <1>2, <2>1 DEF LoopLabel, UndoLabel
<1>6. CASE Restart
  <2>1. \A p \in Proc : pc'[p] \in {"idle", "llen"}
    BY <1>6 DEF Restart
  <2> QED
    BY <2>1 DEF UndoInv, UndoLabel
<1>7. ASSUME NEW a \in Acquirer, AcquireFromPool(a) PROVE UndoInv'
  <2> DEFINE i == Head(poolReady)
  <2>1. /\ running' = running /\ pc[a] = "idle"
        /\ \/ UNCHANGED <<record, pc, locals, ctxDone>>
           \/ Taken(i) /\ Takes(a, i)
    BY <1>0, <1>7, PopDoes
  <2>2. CASE UNCHANGED <<record, pc, locals, ctxDone>>
    BY <1>2, <2>1, <2>2 DEF Frame, locals, UndoLabel
  <2>3. CASE Taken(i) /\ Takes(a, i)
    <3> HIDE DEF i
    <3>1. ASSUME NEW q \in Proc \ {a}, pc[q] \in UndoLabel, job[q] # None
          PROVE  record'[job[q]] = record[job[q]] /\ running'[job[q]] = running[job[q]]
      <4>1. job[q] \in Id /\ job[q] \notin Elements(poolReady)
        BY <1>0, <3>1 DEF IndType, TypeOK, ProcTypeOK, Making, LifeInv, MakingInv
      <4> QED
        BY <2>1, <2>3, <4>1 DEF Taken
    <3>2. Frame(a) /\ pc'[a] \notin UndoLabel
      BY <2>3 DEF Takes, UndoLabel
    <3> QED
      BY <1>0, <3>1, <3>2, UndoStep
  <2> QED
    BY <2>1, <2>2, <2>3
<1>8. ASSUME NEW a \in Acquirer, Served(a) PROVE UndoInv'
  <2>1. Frame(a) /\ pc'[a] \notin UndoLabel
    BY <1>0, <1>8, ServedLocals DEF ServesOn, Answers, UndoLabel
  <2>2. \A i \in Id : job[a] # i => record'[i] = record[i] /\ running'[i] = running[i]
    BY <1>0, <1>8, ServedEffects
  <2> QED
    BY <1>0, <2>1, <2>2, UndoOwn
<1>9. ASSUME NEW p \in Proc, Release(p) PROVE UndoInv'
  <2>1. Frame(p) /\ pc'[p] \notin UndoLabel
    BY <1>0, <1>9, ReleaseLocals DEF Leaves, UndoLabel, ReleaseLabel
  <2>2. \A i \in Id : job[p] # i => record'[i] = record[i] /\ running'[i] = running[i]
    BY <1>0, <1>9, ReleaseEffects
  <2> QED
    BY <1>0, <2>1, <2>2, UndoOwn
<1>10. ASSUME NEW p \in Proc, RestoreFromCheckpoint(p) \/ Start(p) PROVE UndoInv'
  <2>1. /\ Frame(p) /\ record' = record /\ pc[p] \in {"restore", "start"}
        /\ pc'[p] \in {"start", "undoUntrack", "health"} /\ (pc'[p] = "health" \/ Keeps(p))
        /\ \/ UNCHANGED running
           \/ \E i \in Id : Fresh(i) /\ \A j \in Id \ {i} : running'[j] = running[j]
    BY <1>0, <1>10, BootDoes DEF store
  <2>2. job[p] = None
    BY <1>0, <2>1 DEF LifeInv, MakingInv
  <2>3. ~(pc'[p] \in UndoLabel /\ job'[p] # None)
    BY <2>1, <2>2 DEF Keeps, UndoLabel
  <2>4. ASSUME NEW q \in Proc \ {p}, pc[q] \in UndoLabel, job[q] # None
        PROVE  record'[job[q]] = record[job[q]] /\ running'[job[q]] = running[job[q]]
    <3>1. job[q] \in Id
      BY <1>0, <2>4 DEF IndType, TypeOK, ProcTypeOK
    <3> QED
      BY <2>1, <3>1 DEF Fresh
  <2> QED
    BY <1>0, <2>1, <2>3, <2>4, UndoStep
<1>11. ASSUME NEW p \in Proc, Makes(p) PROVE UndoInv'
  BY <1>11, UndoMakes
<1> QED
  BY <1>0, <1>1, <1>3, <1>4, <1>5, <1>6, <1>7, <1>8, <1>9, <1>10, <1>11, StepCases

-----------------------------------------------------------------------------
(* One owner of a port.                                                    *)

\* Instance i occupies port n: its container is bound to it, or its record names it and the
\* replenisher has not returned the port yet.
Occupies(i, n) ==
  \/ running[i] = n
  \/ record[i] # None /\ record[i].port = n /\ ~(Deleting(Loop) /\ job[Loop] = i)

\* No port has two owners, and none that is available has one.
HoldInv ==
  /\ \A n \in portsAvailable : \A i \in Id : ~Occupies(i, n)
  /\ \A n \in Port : \A i, j \in Id : Occupies(i, n) /\ Occupies(j, n) => i = j
  /\ \A p, q \in Proc : Provisioning(p) /\ Provisioning(q) /\ inst[p].port = inst[q].port => p = q
  /\ \A p \in Proc : Provisioning(p) => inst[p].port \notin portsAvailable
  /\ \A p \in Proc : \A n \in Port : Provisioning(p) /\ inst[p].port = n =>
       \A i \in Id : Occupies(i, n) => i = job[p]

\* p's instance comes to occupy the port that p provisions on.
Gains(p, i, n) == Provisioning(p) /\ inst[p].port = n /\ job'[p] = i /\ job[p] \in {i, None}

LEMMA HoldStep ==
  ASSUME IndType, IndType', HoldInv, NEW p \in Proc, Frame(p),
         \A n \in Port : \A i \in Id : Occupies(i, n)' => Occupies(i, n) \/ Gains(p, i, n),
         Provisioning(p)' =>
           \/ Provisioning(p) /\ inst'[p].port = inst[p].port /\ (job'[p] = job[p] \/ job[p] = None)
           \/ inst'[p].port \in portsAvailable /\ inst'[p].port \notin portsAvailable',
         \A n \in portsAvailable' : n \in portsAvailable \/
           /\ \A i \in Id : ~Occupies(i, n)'
           /\ \A q \in Proc : Provisioning(q)' => inst'[q].port # n
  PROVE  HoldInv'
<1>0. /\ portsAvailable \subseteq Port /\ portsAvailable' \subseteq Port /\ None \notin Id
      /\ \A q \in Proc : Provisioning(q)' => inst'[q].port \in Port
      /\ \A q \in Proc : Provisioning(q) => inst[q].port \in Port
  <2>1. portsAvailable \subseteq Port /\ portsAvailable' \subseteq Port /\ None \notin Id
    BY ElementsType DEF IndType, TypeOK, StoreTypeOK
  <2>2. \A q \in Proc : (Provisioning(q)' => inst'[q] \in Record) /\ (Provisioning(q) => inst[q] \in Record)
    BY DEF IndType, LocalsOK, HasInst, Provisioning
  <2>3. \A r \in Record : r.port \in Port
    BY DEF Record
  <2> QED
    BY <2>1, <2>2, <2>3
<1>1. \A q \in Proc \ {p} : /\ Provisioning(q)' <=> Provisioning(q)
                            /\ inst'[q] = inst[q] /\ job'[q] = job[q]
  BY DEF Frame, Provisioning
<1>2. ASSUME NEW n \in portsAvailable', NEW i \in Id, Occupies(i, n)' PROVE FALSE
  <2>1. n \in portsAvailable /\ n \in Port
    BY <1>0, <1>2
  <2>2. Occupies(i, n) \/ Gains(p, i, n)
    BY <1>2, <2>1
  <2> QED
    BY <2>1, <2>2 DEF HoldInv, Gains
<1>3. ASSUME NEW n \in Port, NEW i \in Id, NEW j \in Id, Gains(p, i, n), Occupies(j, n) PROVE i = j
  <2>1. j = job[p]
    BY <1>3 DEF HoldInv, Gains
  <2> QED
    BY <1>0, <1>3, <2>1 DEF Gains
<1>4. ASSUME NEW n \in Port, NEW i \in Id, NEW j \in Id, Occupies(i, n)', Occupies(j, n)' PROVE i = j
  <2>1. (Occupies(i, n) \/ Gains(p, i, n)) /\ (Occupies(j, n) \/ Gains(p, j, n))
    BY <1>4
  <2>2. Occupies(i, n) /\ Occupies(j, n) => i = j
    BY DEF HoldInv
  <2>3. Gains(p, i, n) /\ Gains(p, j, n) => i = j
    BY DEF Gains
  <2> QED
    BY <1>3, <2>1, <2>2, <2>3
<1>5. ASSUME NEW q \in Proc \ {p}, Provisioning(p)', Provisioning(q)', inst'[p].port = inst'[q].port PROVE FALSE
  <2>1. Provisioning(q) /\ inst'[q].port = inst[q].port
    BY <1>1, <1>5
  <2>2. inst[q].port \notin portsAvailable
    BY <2>1 DEF HoldInv
  <2>3. Provisioning(p) /\ inst[p].port = inst[q].port
    BY <1>5, <2>1, <2>2
  <2> QED
    BY <2>1, <2>3 DEF HoldInv
<1>6. ASSUME NEW q \in Proc, NEW r \in Proc, Provisioning(q)', Provisioning(r)', inst'[q].port = inst'[r].port
      PROVE  q = r
  <2>1. CASE q # p /\ r # p
    BY <1>1, <1>6, <2>1 DEF HoldInv
  <2>2. CASE q = p \/ r = p
    BY <1>5, <1>6, <2>2
  <2> QED
    BY <2>1, <2>2
<1>7. ASSUME NEW q \in Proc, Provisioning(q)', inst'[q].port \in portsAvailable' PROVE FALSE
  <2>1. inst'[q].port \in portsAvailable
    BY <1>7
  <2>2. Provisioning(q) /\ inst'[q].port = inst[q].port
    BY <1>1, <1>7
  <2> QED
    BY <2>1, <2>2 DEF HoldInv
<1>8. ASSUME NEW q \in Proc, Provisioning(q)', NEW n \in Port, inst'[q].port = n,
             NEW i \in Id, Occupies(i, n)'
      PROVE  i = job'[q]
  <2>2. Occupies(i, n) \/ Gains(p, i, n)
    BY <1>8
  <2>3. CASE q # p
    <3>1. Provisioning(q) /\ inst[q].port = n /\ job'[q] = job[q]
      BY <1>1, <1>8, <2>3
    <3>2. ~Gains(p, i, n)
      BY <2>3, <3>1 DEF Gains, HoldInv
    <3> QED
      BY <2>2, <3>1, <3>2 DEF HoldInv
  <2>4. CASE q = p
    <3>1. CASE Gains(p, i, n)
      BY <2>4, <3>1 DEF Gains
    <3>2. CASE Occupies(i, n)
      <4>1. n \notin portsAvailable
        BY <3>2 DEF HoldInv
      <4>2. Provisioning(p) /\ n = inst[p].port /\ (job'[p] = job[p] \/ job[p] = None)
        BY <1>8, <2>4, <4>1
      <4>3. i = job[p]
        BY <3>2, <4>2 DEF HoldInv
      <4> QED
        BY <1>0, <2>4, <4>2, <4>3
    <3> QED
      BY <2>2, <3>1, <3>2
  <2> QED
    BY <2>3, <2>4
<1> QED
  BY <1>2, <1>4, <1>6, <1>7, <1>8 DEF HoldInv

\* A step that starts no container, makes no record and does not touch the ports.
LEMMA HoldQuiet ==
  ASSUME IndType, IndType', HoldInv, NEW p \in Proc, Frame(p), portsAvailable' = portsAvailable,
         \A i \in Id : running'[i] \in {running[i], None},
         \A i \in Id : record'[i] # None => record[i] # None /\ record'[i].port = record[i].port,
         p = Loop => ~Deleting(Loop),
         Provisioning(p)' => Provisioning(p) /\ inst'[p].port = inst[p].port /\ job'[p] = job[p]
  PROVE  HoldInv'
<1> USE Processes
<1>1. Deleting(Loop) => job'[Loop] = job[Loop] /\ Deleting(Loop)'
  BY DEF Frame, Deleting
<1>2. None \notin Port
  BY NoneAssumption
<1>3. \A n \in Port : \A i \in Id : Occupies(i, n)' => Occupies(i, n)
  BY <1>1, <1>2 DEF Occupies
<1> QED
  BY <1>3, HoldStep

LEMMA HoldInit == Init => HoldInv
<1> SUFFICES ASSUME Init PROVE HoldInv
  OBVIOUS
<1>1. \A p \in Proc : pc[p] \in {"idle", "llen"}
  BY DEF Init
<1>2. \A p \in Proc : ~Provisioning(p)
  BY <1>1 DEF Provisioning, ProvisionLabel
<1>3. /\ None \notin Port /\ portsAvailable \subseteq Port
      /\ \A i \in Id : running[i] = None /\ record[i] = None
  BY NoneAssumption DEF Init, StoreInit
<1>4. \A n \in Port : \A i \in Id : ~Occupies(i, n)
  BY <1>3 DEF Occupies
<1> QED
  BY <1>2, <1>3, <1>4 DEF HoldInv

LEMMA HoldRelease ==
  ASSUME Deleter = {}, "lost" \notin Failure, PoolInv, PoolInv', PortInv, SweepInv, HoldInv,
         NEW p \in Acquirer \cup Deleter \cup {Loop}, Release(p)
  PROVE  HoldInv'
<1> USE Processes
<1>0. IndType /\ IndType' /\ LifeInv /\ p \in Proc /\ None \notin Port /\ None \notin Id
  BY NoneAssumption, ElementsType DEF PoolInv
<1>1. /\ Frame(p) /\ pc[p] \in ReleaseLabel /\ job[p] \in Id
      /\ Leaves(p) \/ (Keeps(p) /\ pc'[p] \in ReleaseLabel)
  BY <1>0, ReleaseLocals DEF IndType, LocalsOK, HasJob
<1>2. /\ \A i \in Id : record'[i] = record[i] \/ (pc[p] = "dDel" /\ i = job[p] /\ record'[i] = None)
      /\ \A i \in Id : running'[i] \in {running[i], None}
      /\ \/ portsAvailable' = portsAvailable
         \/ pc[p] = "rReturn" /\ portsAvailable' = portsAvailable \cup {inst[p].port}
  BY <1>0, ReleaseEffects
<1>3. ~Provisioning(p)'
  BY <1>1 DEF Provisioning, Leaves, ReleaseLabel, ProvisionLabel
<1>4. CASE p \in Acquirer
  <2>1. pc[p] = "rGet" /\ p # Loop
    BY <1>1, <1>4, ProcAssumption DEF SweepInv
  <2>2. \A i \in Id : record'[i] # None => record[i] # None /\ record'[i].port = record[i].port
    BY <1>2
  <2>3. portsAvailable' = portsAvailable
    BY <1>2, <2>1
  <2> QED
    BY <1>0, <1>1, <1>2, <1>3, <2>1, <2>2, <2>3, HoldQuiet
<1>5. CASE p = Loop
  <2>1. Loop \notin ctxDone /\ record[job[Loop]] # None /\ (pc[Loop] \in GoneLabel => running[job[Loop]] = None)
    BY <1>1, <1>5, OtherLabels DEF SweepInv, ReleaseLabel, ProvisionLabel
  <2>2. Deleting(Loop) => record'[job[Loop]] = None \/ (Deleting(Loop)' /\ job'[Loop] = job[Loop])
    <3>1. pc[Loop] = "dGet" => pc'[Loop] = "dSRem"
      BY <1>0, <1>5, <2>1, ReleaseSure
    <3>2. pc[Loop] = "dSRem" => pc'[Loop] = "dDel"
      BY <1>0, <1>5, <2>1, ReleaseSure
    <3>3. pc[Loop] = "dDel" => record'[job[Loop]] = None
      BY <1>0, <1>5, <2>1, ReleaseSure
    <3>4. pc'[Loop] \in {"dSRem", "dDel"} => job'[Loop] = job[Loop]
      BY <1>1, <1>5 DEF Leaves, Keeps
    <3> QED
      BY <3>1, <3>2, <3>3, <3>4 DEF Deleting
  <2>3. \A n \in Port : \A i \in Id : Occupies(i, n)' => Occupies(i, n)
    BY <1>0, <1>2, <2>2 DEF Occupies
  <2>4. ASSUME NEW n \in portsAvailable', n \notin portsAvailable
        PROVE  /\ \A i \in Id : ~Occupies(i, n)'
               /\ \A q \in Proc : Provisioning(q)' => inst'[q].port # n
    <3>1. pc[Loop] = "rReturn" /\ n = inst[Loop].port /\ n \in Port
      BY <1>0, <1>2, <1>5, <2>4 DEF IndType, TypeOK, StoreTypeOK
    <3>2. record[job[Loop]].port = n /\ running[job[Loop]] = None
      BY <1>0, <1>1, <1>5, <2>1, <3>1 DEF PortInv, HasInst, GoneLabel
    <3>3. Occupies(job[Loop], n)
      BY <2>1, <3>1, <3>2 DEF Occupies, Deleting
    <3>4. pc'[Loop] = "dGet" /\ job'[Loop] = job[Loop]
      <4>1. pc'[Loop] = "dGet"
        BY <1>0, <1>5, <2>1, <3>1, ReleaseSure
      <4> QED
        BY <1>1, <1>5, <4>1 DEF Leaves, Keeps
    <3>5. ~Occupies(job[Loop], n)'
      BY <1>0, <1>1, <1>2, <1>5, <3>1, <3>2, <3>4 DEF Occupies, Deleting
    <3>6. ASSUME NEW i \in Id, Occupies(i, n)' PROVE FALSE
      <4>1. Occupies(i, n)
        BY <2>3, <3>1, <3>6
      <4>2. i = job[Loop]
        BY <1>1, <1>5, <3>1, <3>3, <4>1 DEF HoldInv
      <4> QED
        BY <3>4, <3>5, <3>6, <4>2 DEF Occupies
    <3>7. ASSUME NEW q \in Proc, Provisioning(q)', inst'[q].port = n PROVE FALSE
      <4>1. q # Loop /\ Provisioning(q) /\ inst[q].port = n
        BY <1>1, <1>3, <1>5, <3>7 DEF Frame, Provisioning
      <4>2. job[Loop] = job[q]
        BY <1>1, <1>5, <3>1, <3>3, <4>1 DEF HoldInv
      <4>3. job[q] # None
        BY <1>0, <1>1, <1>5, <4>2
      <4>4. pc[q] \in MakeLabel \cup UndoLabel
        BY <1>0, <4>1, <4>3 DEF Provisioning, ProvisionLabel, MakeLabel, UndoLabel, LifeInv, MakingInv
      <4>5. Making(q)
        BY <4>4 DEF Making
      <4> QED
        BY <1>0, <4>1, <4>2, <4>3, <4>5 DEF LifeInv, MakingInv
    <3> QED
      BY <3>6, <3>7
  <2> QED
    BY <1>0, <1>1, <1>3, <1>5, <2>3, <2>4, HoldStep
<1> QED
  BY <1>4, <1>5

LEMMA HoldMakes ==
  ASSUME "lost" \notin Failure, PoolInv, PoolInv', UndoInv, HoldInv, NEW p \in Proc, Makes(p)
  PROVE  HoldInv'
<1> USE Processes
<1>0. IndType /\ IndType' /\ LifeInv /\ None \notin Port /\ None \notin Id
  BY NoneAssumption, ElementsType DEF PoolInv
<1>1. Frame(p) /\ pc[p] \in ProvisionLabel \ {"restore", "start"}
  BY <1>0, MakesLocals
<1>1a. MakesOn(p) \/ (Leaves(p) /\ pc[p] \notin {"health", "addSet", "addIndex", "undoStop"})
  BY <1>0, MakesLocals
<1>2. /\ \A i \in Id : \/ record'[i] = record[i]
                       \/ pc[p] = "addSet" /\ i = job[p] /\ record'[i] = [inst[p] EXCEPT !.state = "ready"]
      /\ \A i \in Id : running'[i] \in {running[i], None}
  BY <1>0, MakesEffects
<1>3. Deleting(Loop)' <=> Deleting(Loop)
  <2>1. CASE p = Loop
    BY <1>1, <1>1a, <2>1 DEF Deleting, ProvisionLabel, MakesOn, Leaves
  <2>2. CASE p # Loop
    BY <1>1, <2>2 DEF Frame, Deleting
  <2> QED
    BY <2>1, <2>2
<1>4. Deleting(Loop) => job'[Loop] = job[Loop]
  BY <1>1 DEF Frame, Deleting, ProvisionLabel
<1>5. \A r \in Record : [r EXCEPT !.state = "ready"].port = r.port
  BY DEF Record
<1>6. pc[p] # "alloc" => Provisioning(p) /\ inst[p] \in Record
  BY <1>0, <1>1 DEF Provisioning, IndType, LocalsOK, HasInst
<1>7. ASSUME NEW n \in Port, NEW i \in Id, Occupies(i, n)'
      PROVE  Occupies(i, n) \/ (Gains(p, i, n) /\ pc[p] = "addSet")
  <2>1. CASE record'[i] = record[i]
    BY <1>0, <1>2, <1>3, <1>4, <1>7, <2>1 DEF Occupies
  <2>2. CASE pc[p] = "addSet" /\ i = job[p] /\ record'[i] = [inst[p] EXCEPT !.state = "ready"]
    <3>1. record'[i].port = inst[p].port /\ job'[p] = job[p]
      BY <1>1a, <1>5, <1>6, <2>2 DEF MakesOn, Keeps
    <3>2. CASE running'[i] = n
      BY <1>0, <1>2, <3>2 DEF Occupies
    <3>3. CASE running'[i] # n
      BY <1>6, <1>7, <2>2, <3>1, <3>3 DEF Occupies, Gains
    <3> QED
      BY <3>2, <3>3
  <2> QED
    BY <1>2, <2>1, <2>2
<1>8. ASSUME Provisioning(p)'
      PROVE  \/ Provisioning(p) /\ inst'[p].port = inst[p].port /\ (job'[p] = job[p] \/ job[p] = None)
             \/ inst'[p].port \in portsAvailable /\ inst'[p].port \notin portsAvailable'
  <2>1. MakesOn(p)
    BY <1>1a, <1>8 DEF Leaves, Provisioning, ProvisionLabel
  <2>2. CASE pc[p] = "alloc"
    <3>1. \E n \in portsAvailable : inst'[p] = Warming(n) /\ portsAvailable' = portsAvailable \ {n}
      <4>1. ~Leaves(p)
        BY <1>8 DEF Leaves, Provisioning, ProvisionLabel
      <4> QED
        BY <1>0, <2>2, <4>1, MakesPorts
    <3>2. \A n : Warming(n).port = n
      BY DEF Warming
    <3> QED
      BY <3>1, <3>2
  <2>3. CASE pc[p] # "alloc"
    <3>1. inst'[p] = inst[p] \/ inst'[p] = [inst[p] EXCEPT !.state = "ready"]
      BY <2>1, <2>3 DEF MakesOn
    <3> QED
      BY <1>5, <1>6, <2>1, <2>3, <3>1 DEF MakesOn, Keeps
  <2> QED
    BY <2>2, <2>3
<1>9. ASSUME NEW n \in portsAvailable', n \notin portsAvailable
      PROVE  /\ \A i \in Id : ~Occupies(i, n)'
             /\ \A q \in Proc : Provisioning(q)' => inst'[q].port # n
  <2>1. pc[p] = "undoReturn" /\ n = inst[p].port /\ n \in Port
    <3>1. portsAvailable' # portsAvailable /\ ~(portsAvailable' \subseteq portsAvailable)
      BY <1>9
    <3>2. pc[p] = "undoReturn" /\ portsAvailable' = portsAvailable \cup {inst[p].port}
      BY <1>0, <3>1, MakesPorts
    <3> QED
      BY <1>0, <1>9, <3>2 DEF IndType, TypeOK, StoreTypeOK
  <2>2. p \notin ctxDone
    <3> SUFFICES ASSUME p \in ctxDone PROVE FALSE
      OBVIOUS
    <3>1. UndoReturnPort(p)
      BY <2>1 DEF Makes, AllocatePort, TrackPort, WaitForReady, AddRecord, AddToStateSet, PushReady,
                  UndoStop, UndoUntrackPort, At
    <3>2. ~Answered(p) /\ ~Lost(p)
      BY DEF Answered, Lost
    <3> QED
      BY <1>9, <3>1, <3>2 DEF UndoReturnPort, Call, store
  <2>3. Leaves(p) /\ Provisioning(p) /\ ~Provisioning(p)'
    BY <1>1a, <2>1 DEF MakesOn, MakeLabel, Leaves, Provisioning, ProvisionLabel
  <2>4. ASSUME NEW i \in Id, Occupies(i, n)' PROVE FALSE
    <3>1. Occupies(i, n)
      BY <1>7, <2>1, <2>4
    <3>2. i = job[p]
      BY <2>1, <2>3, <3>1 DEF HoldInv
    <3>3. record[i] = None /\ running[i] = None
      BY <1>0, <2>1, <2>2, <3>2 DEF UndoInv, UndoLabel
    <3> QED
      BY <1>0, <2>1, <3>1, <3>3 DEF Occupies
  <2>5. ASSUME NEW q \in Proc, Provisioning(q)', inst'[q].port = n PROVE FALSE
    <3>1. q # p
      BY <2>3, <2>5
    <3>2. Provisioning(q) /\ inst[q].port = inst[p].port
      BY <1>1, <2>1, <2>5, <3>1 DEF Frame, Provisioning
    <3> QED
      BY <2>3, <3>1, <3>2 DEF HoldInv
  <2> QED
    BY <2>4, <2>5
<1> QED
  BY <1>0, <1>1, <1>7, <1>8, <1>9, HoldStep

LEMMA HoldBoot ==
  ASSUME "lost" \notin Failure, PoolInv, PoolInv', HoldInv, NEW p \in Proc, RestoreFromCheckpoint(p) \/ Start(p)
  PROVE  HoldInv'
<1> USE Processes
<1>0. IndType /\ IndType' /\ LifeInv /\ None \notin Port
  BY NoneAssumption DEF PoolInv
<1>1. /\ Frame(p) /\ pc[p] \in {"restore", "start"} /\ UNCHANGED <<record, portsAvailable>> /\ inst'[p] = inst[p]
      /\ pc'[p] \in {"start", "undoUntrack", "health"}
      /\ \/ Keeps(p) /\ UNCHANGED running
         \/ \E i \in Id :
              /\ Fresh(i) /\ running'[i] = inst[p].port /\ \A j \in Id \ {i} : running'[j] = running[j]
              /\ job'[p] = i
  BY <1>0, BootDoes DEF store
<1>2. Provisioning(p) /\ job[p] = None /\ ~Deleting(p) /\ ~Deleting(p)'
  BY <1>0, <1>1 DEF Provisioning, ProvisionLabel, LifeInv, MakingInv, Deleting
<1>3. CASE Keeps(p) /\ UNCHANGED running
  <2>1. p = Loop => ~Deleting(Loop)
    BY <1>2
  <2> QED
    BY <1>0, <1>1, <1>2, <1>3, <2>1, HoldQuiet DEF Keeps
<1>4. ASSUME NEW i \in Id, Fresh(i), running'[i] = inst[p].port,
             \A j \in Id \ {i} : running'[j] = running[j], job'[p] = i
      PROVE  HoldInv'
  <2>1. Deleting(Loop) => Deleting(Loop)' /\ job'[Loop] = job[Loop]
    BY <1>1, <1>2 DEF Frame, Deleting
  <2>2. ASSUME NEW n \in Port, NEW j \in Id, Occupies(j, n)' PROVE Occupies(j, n) \/ Gains(p, j, n)
    <3>1. CASE j = i
      <4>1. record'[i] = None
        BY <1>1, <1>4 DEF Fresh
      <4>2. n = inst[p].port
        BY <1>4, <2>2, <3>1, <4>1 DEF Occupies
      <4> QED
        BY <1>2, <1>4, <3>1, <4>2 DEF Gains
    <3>2. CASE j # i
      BY <1>1, <1>4, <2>1, <2>2, <3>2 DEF Occupies
    <3> QED
      BY <3>1, <3>2
  <2> QED
    BY <1>0, <1>1, <1>2, <2>2, HoldStep
<1> QED
  BY <1>1, <1>3, <1>4

LEMMA HoldNext ==
  ASSUME Deleter = {}, "slow" \notin Failure, "lost" \notin Failure, "restart" \notin Failure
  PROVE  PoolInv /\ PoolInv' /\ PortInv /\ SweepInv /\ UndoInv /\ HoldInv /\ [Next]_vars => HoldInv'
<1> SUFFICES ASSUME PoolInv, PoolInv', PortInv, SweepInv, UndoInv, HoldInv, [Next]_vars PROVE HoldInv'
  OBVIOUS
<1> USE Processes
<1>0. IndType /\ IndType' /\ ClaimInv /\ SoleInv
  BY DEF PoolInv
<1>1. CASE UNCHANGED vars \/ (\E i \in Id : Elapse(i)) \/ (\E p \in Proc : Cancel(p))
  <2>1. UNCHANGED <<record, portsAvailable, running, pc, job, inst>>
    BY <1>1 DEF Elapse, Cancel, vars, store, outside, locals
  <2> QED
    BY <2>1 DEF HoldInv, Occupies, Provisioning, Deleting
<1>2. ASSUME NEW p \in Proc, Frame(p), UNCHANGED <<record, running, portsAvailable>>,
             pc[p] \in {"idle"} \cup LoopLabel, pc'[p] \in {"idle", "alloc", "ttlGet", "rGet"} \cup LoopLabel
      PROVE  HoldInv'
  <2>1. ~Deleting(p) /\ ~Provisioning(p)'
    BY <1>2 DEF Deleting, Provisioning, LoopLabel, ProvisionLabel
  <2> QED
    BY <1>0, <1>2, <2>1, HoldQuiet
<1>3. ASSUME NEW w \in Worker, ProvisionOne(w) PROVE HoldInv'
  BY <1>0, <1>2, <1>3, ProvisionOneDoes DEF store, outside
<1>4. CASE LoopTurn
  BY <1>0, <1>2, <1>4, LoopDoes DEF store, outside
<1>5. ~Restart
  BY DEF Restart, Fails
<1>6. ASSUME NEW a \in Acquirer, AcquireFromPool(a) PROVE HoldInv'
  <2>1. pc[a] = "idle" /\ running' = running /\ portsAvailable' = portsAvailable
    BY <1>0, <1>6, PopDoes
  <2>2. Frame(a) /\ pc'[a] \in {"idle", "ttlGet"}
    <3>1. UNCHANGED <<pc, locals, ctxDone>> \/ Takes(a, Head(poolReady))
      BY <1>0, <1>6, PopDoes
    <3> QED
      BY <2>1, <3>1 DEF Takes, Frame, locals
  <2>3. \A i \in Id : record'[i] # None => record[i] # None /\ record'[i].port = record[i].port
    <3>1. /\ \A i \in Id : record[i] # None => record'[i] # None /\ record'[i].port = record[i].port
          /\ \A i \in Id : record[i] = None => record'[i] = None
      BY <1>6, PopRecords
    <3> QED
      BY <3>1
  <2>4. ~Deleting(a) /\ ~Provisioning(a)'
    BY <2>1, <2>2 DEF Deleting, Provisioning, ProvisionLabel
  <2> QED
    BY <1>0, <2>1, <2>2, <2>3, <2>4, HoldQuiet
<1>7. ASSUME NEW a \in Acquirer, Served(a) PROVE HoldInv'
  <2>1. /\ Frame(a) /\ pc[a] \in AcquireLabel /\ (ServesOn(a) \/ Answers(a))
        /\ running' = running /\ portsAvailable' = portsAvailable
        /\ \A i \in Id : i # job[a] => record'[i] = record[i]
    BY <1>0, <1>7, ServedLocals, ServedEffects
  <2>2. record[job[a]] # None
    BY <1>0, <2>1 DEF SoleInv, Sole, Unrivalled
  <2>3. \A i \in Id : record[i] # None => record'[i] # None /\ record'[i].port = record[i].port
    BY <1>7, ServedRecords
  <2>4. \A i \in Id : record'[i] # None => record[i] # None /\ record'[i].port = record[i].port
    BY <2>1, <2>2, <2>3
  <2>5. ~Deleting(a) /\ ~Provisioning(a)'
    BY <2>1, OtherLabels DEF Deleting, Provisioning, ServesOn, Answers, AcquireLabel, ProvisionLabel
  <2> QED
    BY <1>0, <2>1, <2>4, <2>5, HoldQuiet
<1>8. ASSUME NEW p \in Acquirer \cup Deleter \cup {Loop}, Release(p) PROVE HoldInv'
  BY <1>8, HoldRelease
<1>9. ASSUME NEW p \in Proc, RestoreFromCheckpoint(p) \/ Start(p) PROVE HoldInv'
  BY <1>9, HoldBoot
<1>10. ASSUME NEW p \in Proc, Makes(p) PROVE HoldInv'
  BY <1>10, HoldMakes
<1>11. ~\E d \in Deleter : Delete(d)
  OBVIOUS
<1> QED
  BY <1>0, <1>1, <1>3, <1>4, <1>5, <1>6, <1>7, <1>8, <1>9, <1>10, <1>11, StepCases

\* The available set never offers a port that a container or another provisioning process has,
\* whatever is cancelled and whatever container stays sick, as long as the replenisher alone
\* releases: two releases of one instance return its port twice, see the run port_twice.
THEOREM PortExclusiveHolds ==
  ASSUME Deleter = {}, Failure \subseteq {"sick", "cancel"} PROVE Spec => []PortExclusive
<1>0. "slow" \notin Failure /\ "lost" \notin Failure /\ "restart" \notin Failure
  OBVIOUS
<1>1. Spec => []SweepInv
  BY <1>0, SweepInit, SweepNext, PortHolds, PoolInvHolds, PTL DEF Spec
<1>2. Spec => []UndoInv
  BY <1>0, UndoInit, UndoNext, PoolInvHolds, PTL DEF Spec
<1>3. Spec => []HoldInv
  BY <1>0, <1>1, <1>2, HoldInit, HoldNext, PortHolds, PoolInvHolds, PTL DEF Spec
<1>4. PoolInv /\ HoldInv => PortExclusive
  <2> SUFFICES ASSUME PoolInv, HoldInv PROVE PortExclusive
    OBVIOUS
  <2>1. \A i \in Id : \A n : running[i] = n => Occupies(i, n)
    BY DEF Occupies
  <2>2. \A p \in Proc : Provisioning(p) => inst[p].port \in Port
    <3>1. \A p \in Proc : Provisioning(p) => inst[p] \in Record
      BY DEF PoolInv, IndType, LocalsOK, HasInst, Provisioning
    <3> QED
      BY <3>1 DEF Record
  <2>3. \A n \in portsAvailable : ~PortBound(n)
    BY <2>1 DEF PortBound, HoldInv
  <2>4. ASSUME NEW p \in Proc, Provisioning(p)
        PROVE  /\ \A i \in Id : running[i] = inst[p].port => i = job[p]
               /\ \A q \in Proc : Provisioning(q) /\ inst[q].port = inst[p].port => q = p
    BY <2>1, <2>2, <2>4 DEF HoldInv
  <2> QED
    BY <2>3, <2>4 DEF PortExclusive, PortAllocatedOnce, HoldInv
<1> QED
  BY <1>3, <1>4, PoolInvHolds, PTL
=============================================================================
