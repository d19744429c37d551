--------------------------- MODULE WarmPoolProofs ---------------------------
(***************************************************************************)
(* Proofs about WarmPool for every value of its constants: any sets of     *)
(* requests, workers, instances and ports, any sizes, any failures.        *)
(***************************************************************************)
EXTENDS WarmPoolProperties, TLAPS

\* Where a process surely works on an instance, holds its record in memory, or has
\* read the record that it is about to write or delete.
HasJob  == AcquireLabel \cup ReleaseLabel \cup {"health", "addSet", "addIndex", "push", "undoStop"}
HasInst == {"route", "signal", "save", "saveAdd", "ttlGet", "ttlSet",
            "rRoute", "rDrop", "rStop", "rUntrack", "rReturn"} \cup (ProvisionLabel \ {"alloc"})
HasRead == {"ttlSet", "dSRem"}

LocalsOK ==
  \A p \in Proc :
    /\ pc[p] \in HasJob => job[p] \in Id
    /\ pc[p] \in HasInst => inst[p] \in Record
    /\ pc[p] \in HasRead => read[p] \in Record

IndType == TypeOK /\ LocalsOK


LEMMA TypeInit == Init => IndType
<1> SUFFICES ASSUME Init PROVE IndType
  OBVIOUS
<1>1. StoreTypeOK
  BY DEF Init, StoreInit, StoreTypeOK, State
<1>2. OutsideTypeOK /\ ClientTypeOK
  BY DEF Init, OutsideTypeOK, ClientTypeOK
<1>3. pc \in [Proc -> Label]
  BY DEF Init, Label, LoopLabel
<1>4. ProcTypeOK
  BY <1>3, SizeAssumption DEF Init, ProcTypeOK
<1>5. LoopTypeOK
  BY DEF Init, LoopTypeOK
<1>6. LocalsOK
  BY ProcAssumption
  DEF Init, LocalsOK, HasJob, HasInst, HasRead, AcquireLabel, ReleaseLabel, ProvisionLabel
<1> QED
  BY <1>1, <1>2, <1>4, <1>5, <1>6 DEF IndType, TypeOK

-----------------------------------------------------------------------------
(* The local step of a process, whatever it has called.                    *)

\* p goes to l with the instance j, the record r in memory and the record g read.
LEMMA LocalStep ==
  ASSUME ProcTypeOK, LocalsOK, NEW p \in Proc, NEW l \in Label,
         NEW j \in Id \cup {None}, NEW r \in Record \cup {None}, NEW g \in Record \cup {None},
         pc' = [pc EXCEPT ![p] = l], job' = [job EXCEPT ![p] = j],
         inst' = [inst EXCEPT ![p] = r], read' = [read EXCEPT ![p] = g],
         ctxDone' \subseteq Proc, failures' \in 0..MaxFailures,
         l \in HasJob => j \in Id, l \in HasInst => r \in Record, l \in HasRead => g \in Record
  PROVE  ProcTypeOK' /\ LocalsOK'
  BY DEF ProcTypeOK, LocalsOK

\* The labels at which a process may be sent without more being known of its locals.
Bare == Label \ (HasJob \cup HasInst \cup HasRead)

LEMMA SendStep ==
  ASSUME ProcTypeOK, LocalsOK, NEW p \in Proc, NEW l \in Label, Send(p, l),
         failures' \in 0..MaxFailures,
         l \in HasJob => job[p] \in Id, l \in HasInst => inst[p] \in Record,
         l \in HasRead => read[p] \in Record
  PROVE  ProcTypeOK' /\ LocalsOK'
  BY DEF ProcTypeOK, LocalsOK, Send, Goto, locals

LEMMA DropStep ==
  ASSUME ProcTypeOK, LocalsOK, NEW p \in Proc, NEW l \in Bare, Goto(p, l), Drop(p),
         ctxDone' \subseteq Proc, failures' \in 0..MaxFailures
  PROVE  ProcTypeOK' /\ LocalsOK'
  BY DEF ProcTypeOK, LocalsOK, Goto, Drop, Bare

LEMMA FailureStep ==
  ASSUME ProcTypeOK, NEW p \in Proc,
         \/ Answered(p) \/ Lost(p) \/ Refused(p) \/ Fails("sick")
         \/ RuntimeAnswered(p) \/ RuntimeLost(p) \/ RuntimeRefused(p)
  PROVE  failures' \in 0..MaxFailures
  BY SizeAssumption
  DEF ProcTypeOK, Answered, Lost, Refused, RuntimeAnswered, RuntimeLost, RuntimeRefused, Fails

\* What a process may be sent to that holds an instance and its record, or only its id.
Full == Label \ HasRead
JobOnly == {"rGet", "dGet", "dDel"}

LEMMA Labels ==
  /\ {"idle"} \cup LoopLabel \cup {"alloc"} \subseteq Bare
  /\ {"idle"} \cup LoopLabel \subseteq Full
  /\ AcquireLabel \ {"ttlSet"} \subseteq Full
  /\ ReleaseLabel \ {"dSRem"} \subseteq Full
  /\ ProvisionLabel \subseteq Full
  /\ Full \subseteq Label /\ Bare \subseteq Label /\ JobOnly \subseteq Label
  /\ JobOnly \cap (HasInst \cup HasRead) = {}
  BY DEF Label, Bare, Full, JobOnly, HasJob, HasInst, HasRead,
         AcquireLabel, ReleaseLabel, ProvisionLabel, LoopLabel

LEMMA SendFull ==
  ASSUME ProcTypeOK, LocalsOK, NEW p \in Proc, NEW l \in Full, Send(p, l),
         failures' \in 0..MaxFailures, job[p] \in Id, inst[p] \in Record
  PROVE  ProcTypeOK' /\ LocalsOK'
  BY SendStep, Labels DEF Full

LEMMA SendJobOnly ==
  ASSUME ProcTypeOK, LocalsOK, NEW p \in Proc, NEW l \in JobOnly, Send(p, l),
         failures' \in 0..MaxFailures, job[p] \in Id
  PROVE  ProcTypeOK' /\ LocalsOK'
  BY SendStep, Labels

\* p goes to l with a new instance, a new record in memory, or a new record read.
LEMMA JobStep ==
  ASSUME ProcTypeOK, LocalsOK, NEW p \in Proc, NEW l \in Full, NEW i \in Id,
         Goto(p, l), job' = [job EXCEPT ![p] = i], UNCHANGED <<inst, read, ctxDone>>,
         failures' \in 0..MaxFailures, l \in HasInst => inst[p] \in Record
  PROVE  ProcTypeOK' /\ LocalsOK'
  BY DEF ProcTypeOK, LocalsOK, Goto, Full

LEMMA InstStep ==
  ASSUME ProcTypeOK, LocalsOK, NEW p \in Proc, NEW l \in Full, NEW r \in Record,
         Goto(p, l), inst' = [inst EXCEPT ![p] = r], UNCHANGED <<job, read, ctxDone>>,
         failures' \in 0..MaxFailures, l \in HasJob => job[p] \in Id
  PROVE  ProcTypeOK' /\ LocalsOK'
  BY DEF ProcTypeOK, LocalsOK, Goto, Full

LEMMA ReadStep ==
  ASSUME ProcTypeOK, LocalsOK, NEW p \in Proc, NEW l \in Label, NEW r \in Record,
         Goto(p, l), read' = [read EXCEPT ![p] = r], UNCHANGED <<job, inst, ctxDone>>,
         failures' \in 0..MaxFailures, job[p] \in Id, l \in HasInst => inst[p] \in Record
  PROVE  ProcTypeOK' /\ LocalsOK'
  BY DEF ProcTypeOK, LocalsOK, Goto

-----------------------------------------------------------------------------
(* The store: whatever a process sends is one of these commands.           *)

Command ==
  \/ UNCHANGED store
  \/ PopGhost \/ PopInstance
  \/ \E i \in Id, r \in Record \cup {None} : Set(i, r)
  \/ \E i \in Id, s \in State : SAddState(s, i) \/ SRemState(s, i)
  \/ \E i \in Id : RPush(i)
  \/ \E n \in Port : SPopPort(n) \/ STrackPort(n) \/ SUntrackPort(n) \/ SReturnPort(n)
  \/ InitializePorts

LEMMA CommandType == ASSUME StoreTypeOK, Command PROVE StoreTypeOK'
<1>1. CASE UNCHANGED store
  BY <1>1 DEF store, StoreTypeOK
<1>2. CASE PopGhost
  BY <1>2 DEF PopGhost, StoreTypeOK
<1>3. CASE PopInstance
  <2> DEFINE i == Head(poolReady)
  <2>1. i \in Id /\ record[i] \in Record /\ poolReady' \in Seq(Id)
    BY <1>3 DEF PopInstance, StoreTypeOK
  <2>2. Assigned(record[i]) \in Record
    BY <2>1 DEF Assigned, Record, State
  <2>3. stateSet' \in [State -> SUBSET Id]
    BY <1>3, <2>1 DEF PopInstance, StoreTypeOK
  <2> QED
    BY <1>3, <2>1, <2>2, <2>3 DEF PopInstance, StoreTypeOK
<1>4. CASE \E i \in Id, r \in Record \cup {None} : Set(i, r)
  BY <1>4 DEF Set, StoreTypeOK
<1>5. CASE \E i \in Id, s \in State : SAddState(s, i) \/ SRemState(s, i)
  BY <1>5 DEF SAddState, SRemState, StoreTypeOK
<1>6. CASE \E i \in Id : RPush(i)
  BY <1>6 DEF RPush, StoreTypeOK
<1>7. CASE \E n \in Port : SPopPort(n) \/ STrackPort(n) \/ SUntrackPort(n) \/ SReturnPort(n)
  BY <1>7 DEF SPopPort, STrackPort, SUntrackPort, SReturnPort, StoreTypeOK
<1>8. CASE InitializePorts
  BY <1>8 DEF InitializePorts, StoreTypeOK
<1> QED
  BY <1>1, <1>2, <1>3, <1>4, <1>5, <1>6, <1>7, <1>8 DEF Command

-----------------------------------------------------------------------------
(* Acquire keeps the types.                                                *)

LEMMA AcquireProc ==
  ASSUME IndType, NEW a \in Acquirer, Acquire(a)
  PROVE  ProcTypeOK' /\ LocalsOK'
<1>0. a \in Proc /\ StoreTypeOK /\ ProcTypeOK /\ LocalsOK
  BY DEF IndType, TypeOK, Proc
<1>1. CASE AcquireFromPool(a)
  <2>1. ASSUME PopInstance
        PROVE  Head(poolReady) \in Id /\ Assigned(record[Head(poolReady)]) \in Record
    BY <1>0, <2>1 DEF PopInstance, StoreTypeOK, Assigned, Record, State
  <2>2. CASE UNCHANGED <<pc, locals, ctxDone>> /\ (UNCHANGED failures \/ Lost(a))
    BY <1>0, <2>2, FailureStep DEF ProcTypeOK, LocalsOK, locals
  <2>3. CASE /\ PopInstance /\ Answered(a)
             /\ Goto(a, "ttlGet")
             /\ job' = [job EXCEPT ![a] = Head(poolReady)]
             /\ inst' = [inst EXCEPT ![a] = Assigned(record[Head(poolReady)])]
             /\ UNCHANGED <<read, ctxDone>>
    <3>1. "ttlGet" \in Label /\ "ttlGet" \notin HasRead
      BY DEF Label, HasRead, AcquireLabel
    <3>2. read' = [read EXCEPT ![a] = read[a]] /\ read[a] \in Record \cup {None}
      BY <1>0, <2>3 DEF ProcTypeOK
    <3>3. failures' \in 0..MaxFailures /\ ctxDone' \subseteq Proc
      BY <1>0, <2>3, FailureStep DEF ProcTypeOK
    <3> QED
      BY <1>0, <2>1, <2>3, <3>1, <3>2, <3>3, LocalStep DEF Goto
  <2> QED
    BY <1>1, <2>2, <2>3 DEF AcquireFromPool
<1>2. CASE GetForTTL(a)
  <2>1. job[a] \in Id /\ inst[a] \in Record
    BY <1>0, <1>2 DEF LocalsOK, GetForTTL, At, HasJob, HasInst, AcquireLabel
  <2>2. failures' \in 0..MaxFailures
    BY <1>0, <1>2, FailureStep DEF GetForTTL, Query
  <2>3. CASE Send(a, "rGet")
    BY <1>0, <2>1, <2>2, <2>3, SendJobOnly DEF JobOnly
  <2>4. CASE /\ record[job[a]] # None
             /\ Goto(a, "ttlSet")
             /\ read' = [read EXCEPT ![a] = record[job[a]]]
             /\ UNCHANGED <<job, inst, ctxDone>>
    <3>1. "ttlSet" \in Label /\ record[job[a]] \in Record
      BY <1>0, <2>1, <2>4 DEF Label, AcquireLabel, StoreTypeOK
    <3> QED
      BY <1>0, <2>1, <2>2, <2>4, <3>1, ReadStep
  <2> QED
    BY <1>2, <2>3, <2>4 DEF GetForTTL, Query
<1>3. CASE SetTTL(a)
  <2>1. job[a] \in Id /\ inst[a] \in Record
    BY <1>0, <1>3 DEF LocalsOK, SetTTL, At, HasJob, HasInst, AcquireLabel
  <2>2. failures' \in 0..MaxFailures
    BY <1>0, <1>3, FailureStep DEF SetTTL, Call
  <2>3. CASE Send(a, "rGet")
    BY <1>0, <2>1, <2>2, <2>3, SendJobOnly DEF JobOnly
  <2>4. CASE /\ Goto(a, "route")
             /\ inst' = [inst EXCEPT ![a] = [@ EXCEPT !.expires = TRUE]]
             /\ UNCHANGED <<job, read, ctxDone>>
    <3>1. "route" \in Full /\ [inst[a] EXCEPT !.expires = TRUE] \in Record
      BY <2>1, Labels DEF AcquireLabel, Record
    <3>2. inst' = [inst EXCEPT ![a] = [inst[a] EXCEPT !.expires = TRUE]]
      BY <1>0, <2>4 DEF ProcTypeOK
    <3>3. Goto(a, "route") /\ UNCHANGED <<job, read, ctxDone>>
      BY <2>4
    <3> QED
      BY <1>0, <2>1, <2>2, <3>1, <3>2, <3>3, InstStep
  <2> QED
    BY <1>3, <2>3, <2>4 DEF SetTTL, Call
<1>4. CASE AddRoute(a) \/ Signal(a) \/ SaveUserIP(a) \/ SaveUserIPIndex(a)
  <2>1. job[a] \in Id /\ inst[a] \in Record
    BY <1>0, <1>4
    DEF LocalsOK, AddRoute, Signal, SaveUserIP, SaveUserIPIndex, At, HasJob, HasInst, AcquireLabel
  <2>2. failures' \in 0..MaxFailures
    BY <1>0, <1>4, FailureStep DEF AddRoute, Signal, SaveUserIP, SaveUserIPIndex, Call, ProcTypeOK
  <2>3. CASE Send(a, "signal") \/ Send(a, "rGet") \/ Send(a, "save") \/ Send(a, "saveAdd")
    BY <1>0, <2>1, <2>2, <2>3, SendFull, Labels DEF AcquireLabel, ReleaseLabel
  <2>4. CASE End(a)
    BY <1>0, <2>2, <2>4, DropStep, Labels DEF End, ProcTypeOK
  <2> QED
    BY <1>4, <2>3, <2>4 DEF AddRoute, Signal, SaveUserIP, SaveUserIPIndex, Call, Respond
<1> QED
  BY <1>1, <1>2, <1>3, <1>4 DEF Acquire

-----------------------------------------------------------------------------
(* Release keeps the types.                                                *)

LEMMA ReleasedProc ==
  ASSUME ProcTypeOK, LocalsOK, NEW p \in Proc, Released(p), failures' \in 0..MaxFailures
  PROVE  ProcTypeOK' /\ LocalsOK'
<1>1. ctxDone' \subseteq Proc
  BY DEF Released, End, ProcTypeOK
<1>2. Drop(p) /\ (Goto(p, "sweep") \/ Goto(p, "idle"))
  BY DEF Released, End
<1> QED
  BY <1>1, <1>2, DropStep, Labels DEF LoopLabel

LEMMA DeleteProc ==
  ASSUME IndType, NEW d \in Deleter, Delete(d)
  PROVE  ProcTypeOK' /\ LocalsOK'
<1>1. d \in Proc /\ ProcTypeOK /\ LocalsOK /\ handed \subseteq Id
  BY DEF IndType, TypeOK, Proc, ClientTypeOK
<1>2. PICK i \in handed : job' = [job EXCEPT ![d] = i]
  BY DEF Delete
<1>3. "rGet" \in Full /\ "rGet" \notin HasInst
  BY Labels DEF ReleaseLabel, JobOnly
<1> QED
  BY <1>1, <1>2, <1>3, JobStep DEF Delete, ProcTypeOK

LEMMA ReleaseProc ==
  ASSUME IndType, NEW p \in Proc, Release(p)
  PROVE  ProcTypeOK' /\ LocalsOK'
<1>0. StoreTypeOK /\ ProcTypeOK /\ LocalsOK
  BY DEF IndType, TypeOK
<1>1. failures' \in 0..MaxFailures
  BY <1>0, FailureStep
  DEF Release, GetForRelease, RemoveRoute, DropPrefixedTables, Stop, UntrackPort, ReturnPort,
      GetForDelete, RemoveFromStateSet, DeleteRecord, Attempt, RuntimeCall, Call, Query
<1>2. job[p] \in Id
  BY <1>0
  DEF Release, GetForRelease, RemoveRoute, DropPrefixedTables, Stop, UntrackPort, ReturnPort,
      GetForDelete, RemoveFromStateSet, DeleteRecord, At, LocalsOK, HasJob, ReleaseLabel
<1>3. record[job[p]] # None => record[job[p]] \in Record
  BY <1>0, <1>2 DEF StoreTypeOK
<1>4. CASE Released(p)
  BY <1>0, <1>1, <1>4, ReleasedProc
<1>5. CASE GetForRelease(p)
  <2>1. CASE /\ record[job[p]] # None
             /\ Goto(p, "rRoute")
             /\ inst' = [inst EXCEPT ![p] = record[job[p]]]
             /\ UNCHANGED <<job, read, ctxDone>>
    <3>1. "rRoute" \in Full
      BY Labels DEF ReleaseLabel
    <3> QED
      BY <1>0, <1>1, <1>2, <1>3, <2>1, <3>1, InstStep
  <2> QED
    BY <1>4, <1>5, <2>1 DEF GetForRelease, Query
<1>6. CASE RemoveRoute(p) \/ DropPrefixedTables(p) \/ Stop(p) \/ UntrackPort(p) \/ ReturnPort(p)
  <2>1. inst[p] \in Record
    BY <1>0, <1>6
    DEF RemoveRoute, DropPrefixedTables, Stop, UntrackPort, ReturnPort, At, LocalsOK, HasInst
  <2>2. Send(p, "rDrop") \/ Send(p, "rStop") \/ Send(p, "rUntrack") \/ Send(p, "rReturn")
        \/ Send(p, "dGet")
    BY <1>6 DEF RemoveRoute, DropPrefixedTables, Stop, UntrackPort, ReturnPort, Attempt, RuntimeCall, Call
  <2> QED
    BY <1>0, <1>1, <1>2, <2>1, <2>2, SendFull, Labels DEF ReleaseLabel
<1>7. CASE GetForDelete(p)
  <2>1. CASE /\ record[job[p]] # None
             /\ Goto(p, "dSRem")
             /\ read' = [read EXCEPT ![p] = record[job[p]]]
             /\ UNCHANGED <<job, inst, ctxDone>>
    <3>1. "dSRem" \in Label /\ "dSRem" \notin HasInst
      BY DEF Label, ReleaseLabel, HasInst, ProvisionLabel
    <3> QED
      BY <1>0, <1>1, <1>2, <1>3, <2>1, <3>1, ReadStep
  <2> QED
    BY <1>4, <1>7, <2>1 DEF GetForDelete, Query
<1>8. CASE RemoveFromStateSet(p) \/ DeleteRecord(p)
  <2>1. Send(p, "dDel") \/ Released(p)
    BY <1>8 DEF RemoveFromStateSet, DeleteRecord, Call
  <2> QED
    BY <1>0, <1>1, <1>2, <1>4, <2>1, SendJobOnly DEF JobOnly
<1> QED
  BY <1>5, <1>6, <1>7, <1>8 DEF Release

-----------------------------------------------------------------------------
(* Provisioning keeps the types.                                           *)

LEMMA FailedProc ==
  ASSUME ProcTypeOK, LocalsOK, NEW p \in Proc, ProvisionFailed(p) \/ Provisioned(p) \/ Replenished,
         failures' \in 0..MaxFailures
  PROVE  ProcTypeOK' /\ LocalsOK'
<1>1. Loop \in Proc
  BY DEF Proc
<1>2. ctxDone' \subseteq Proc
  BY DEF ProvisionFailed, Provisioned, Replenished, End, ProcTypeOK
<1>3. PICK q \in Proc : Drop(q) /\ (\E l \in {"idle", "llen", "list", "select"} : Goto(q, l))
  BY <1>1 DEF ProvisionFailed, Provisioned, Replenished, End
<1> QED
  BY <1>2, <1>3, DropStep, Labels DEF LoopLabel

LEMMA ProvisionOneProc ==
  ASSUME IndType, NEW w \in Worker, ProvisionOne(w)
  PROVE  ProcTypeOK' /\ LocalsOK'
<1>1. w \in Proc /\ ProcTypeOK /\ LocalsOK
  BY DEF IndType, TypeOK, Proc
<1>2. "alloc" \in Label /\ "alloc" \notin HasJob \cup HasInst \cup HasRead
  BY Labels DEF Bare
<1> QED
  BY <1>1, <1>2, SendStep DEF ProvisionOne, Resume, ProcTypeOK

LEMMA AllocateProc ==
  ASSUME IndType, NEW p \in Proc, AllocatePort(p)
  PROVE  ProcTypeOK' /\ LocalsOK'
<1>0. StoreTypeOK /\ ProcTypeOK /\ LocalsOK
  BY DEF IndType, TypeOK
<1>1. failures' \in 0..MaxFailures
  BY <1>0, FailureStep DEF AllocatePort, Call, Query
<1>2. CASE ProvisionFailed(p)
  BY <1>0, <1>1, <1>2, FailedProc
<1>3. ASSUME NEW n \in portsAvailable, Goto(p, "track"),
             inst' = [inst EXCEPT ![p] = Warming(n)], UNCHANGED <<job, read, ctxDone>>
      PROVE  ProcTypeOK' /\ LocalsOK'
  <2>1. Warming(n) \in Record
    BY <1>0 DEF Warming, Record, State, StoreTypeOK
  <2>2. "track" \in Full /\ "track" \notin HasJob
    BY Labels DEF ProvisionLabel, HasJob, AcquireLabel, ReleaseLabel
  <2> QED
    BY <1>0, <1>1, <1>3, <2>1, <2>2, InstStep
<1> QED
  BY <1>2, <1>3 DEF AllocatePort, Call, Query

LEMMA StartProc ==
  ASSUME ProcTypeOK, LocalsOK, NEW p \in Proc, NEW l \in {"start", "undoUntrack"},
         StartContainer(p, l), inst[p] \in Record
  PROVE  ProcTypeOK' /\ LocalsOK'
<1>1. failures' \in 0..MaxFailures
  BY FailureStep DEF StartContainer
<1>2. CASE Send(p, l)
  <2>1. l \in Label /\ l \notin HasJob \cup HasRead
    BY DEF Label, ProvisionLabel, HasJob, HasRead, AcquireLabel, ReleaseLabel
  <2> QED
    BY <1>1, <1>2, <2>1, SendStep
<1>3. ASSUME NEW i \in Id, job' = [job EXCEPT ![p] = i], Goto(p, "health"),
             UNCHANGED <<inst, read, ctxDone>>
      PROVE  ProcTypeOK' /\ LocalsOK'
  <2>1. "health" \in Full
    BY Labels DEF ProvisionLabel
  <2> QED
    BY <1>1, <1>3, <2>1, JobStep
<1> QED
  BY <1>2, <1>3 DEF StartContainer

LEMMA ProvisionProc ==
  ASSUME IndType, NEW p \in Proc, ProvisionInstance(p)
  PROVE  ProcTypeOK' /\ LocalsOK'
<1>0. ProcTypeOK /\ LocalsOK
  BY DEF IndType, TypeOK
<1>1. CASE AllocatePort(p)
  BY <1>1, AllocateProc
<1>2. CASE RestoreFromCheckpoint(p) \/ Start(p)
  <2>1. inst[p] \in Record
    BY <1>0, <1>2 DEF RestoreFromCheckpoint, Start, At, LocalsOK, HasInst, ProvisionLabel
  <2> QED
    BY <1>0, <1>2, <2>1, StartProc DEF RestoreFromCheckpoint, Start
<1>3. CASE TrackPort(p) \/ UndoUntrackPort(p) \/ UndoReturnPort(p)
  <2>1. inst[p] \in Record /\ failures' \in 0..MaxFailures
    BY <1>0, <1>3, FailureStep
    DEF TrackPort, UndoUntrackPort, UndoReturnPort, Call, At, LocalsOK, HasInst, ProvisionLabel
  <2>2. CASE Send(p, "restore") \/ Send(p, "start") \/ Send(p, "undoReturn")
    <3>1. {"restore", "start", "undoReturn"} \subseteq Label \ (HasJob \cup HasRead)
      BY DEF Label, ProvisionLabel, HasJob, HasRead, AcquireLabel, ReleaseLabel
    <3> QED
      BY <1>0, <2>1, <2>2, <3>1, SendStep
  <2>3. CASE ProvisionFailed(p)
    BY <1>0, <2>1, <2>3, FailedProc
  <2> QED
    BY <1>3, <2>2, <2>3 DEF TrackPort, UndoUntrackPort, UndoReturnPort, Call, Resume
<1>4. CASE WaitForReady(p) \/ AddRecord(p) \/ AddToStateSet(p) \/ PushReady(p) \/ UndoStop(p)
  <2>1. job[p] \in Id /\ inst[p] \in Record
    BY <1>0, <1>4
    DEF WaitForReady, AddRecord, AddToStateSet, PushReady, UndoStop, At, LocalsOK, HasJob,
        HasInst, ProvisionLabel
  <2>2. failures' \in 0..MaxFailures
    BY <1>0, <1>4, FailureStep
    DEF WaitForReady, AddRecord, AddToStateSet, PushReady, UndoStop, Call, RuntimeCall, Attempt
  <2>3. CASE Send(p, "addSet") \/ Send(p, "undoStop") \/ Send(p, "push") \/ Send(p, "undoUntrack")
    BY <1>0, <2>1, <2>2, <2>3, SendFull, Labels DEF ProvisionLabel
  <2>4. CASE Provisioned(p)
    BY <1>0, <2>2, <2>4, FailedProc
  <2>5. CASE /\ Goto(p, "addIndex")
             /\ inst' = [inst EXCEPT ![p] = [inst[p] EXCEPT !.state = "ready"]]
             /\ UNCHANGED <<job, read, ctxDone>>
    <3>1. "addIndex" \in Full /\ [inst[p] EXCEPT !.state = "ready"] \in Record
      BY <2>1, Labels DEF ProvisionLabel, Record, State
    <3> QED
      BY <1>0, <2>1, <2>2, <2>5, <3>1, InstStep
  <2> QED
    BY <1>4, <2>3, <2>4, <2>5
    DEF WaitForReady, AddRecord, AddToStateSet, PushReady, UndoStop, Call, RuntimeCall, Attempt, Resume
<1> QED
  BY <1>1, <1>2, <1>3, <1>4 DEF ProvisionInstance

-----------------------------------------------------------------------------
(* The replenisher and the environment keep the types.                     *)

LEMMA LoopProc ==
  ASSUME IndType,
         Trigger \/ Tick \/ ReadReady \/ ReadAssigned \/ ListAssigned \/ FetchAssigned \/ Sweep
  PROVE  ProcTypeOK' /\ LocalsOK'
<1>0. ProcTypeOK /\ LocalsOK /\ Loop \in Proc /\ expired \subseteq Id
  BY DEF IndType, TypeOK, LoopTypeOK, Proc
<1>1. failures' \in 0..MaxFailures
  BY <1>0, FailureStep
  DEF Trigger, Tick, Wake, ReadReady, ReadAssigned, ListAssigned, FetchAssigned, Sweep, Query,
      ProcTypeOK
<1>2. ASSUME NEW l \in LoopLabel \cup {"alloc"}, Send(Loop, l)
      PROVE  ProcTypeOK' /\ LocalsOK'
  BY <1>0, <1>1, <1>2, SendStep, Labels DEF Bare
<1>3. CASE Replenished
  BY <1>0, <1>1, <1>3, FailedProc
<1>4. ASSUME NEW i \in expired, job' = [job EXCEPT ![Loop] = i], Goto(Loop, "rGet"),
             UNCHANGED <<inst, read, ctxDone>>
      PROVE  ProcTypeOK' /\ LocalsOK'
  <2>1. "rGet" \in Full /\ "rGet" \notin HasInst
    BY Labels DEF ReleaseLabel, JobOnly
  <2> QED
    BY <1>0, <1>1, <1>4, <2>1, JobStep
<1>5. CASE Trigger \/ Tick \/ ReadReady \/ ReadAssigned
  <2>1. Send(Loop, "llen") \/ Send(Loop, "scard") \/ Send(Loop, "alloc") \/ Replenished
    BY <1>5 DEF Trigger, Tick, Wake, ReadReady, ReadAssigned, Query, Resume
  <2> QED
    BY <1>2, <1>3, <2>1 DEF LoopLabel
<1>6. CASE ListAssigned \/ FetchAssigned
  <2>1. Send(Loop, "fetch") \/ Send(Loop, "sweep") \/ Send(Loop, "select")
    BY <1>6 DEF ListAssigned, FetchAssigned, Query, Rest
  <2> QED
    BY <1>2, <2>1 DEF LoopLabel
<1>7. CASE Sweep
  BY <1>2, <1>4, <1>7 DEF Sweep, Rest, LoopLabel
<1> QED
  BY <1>5, <1>6, <1>7 

LEMMA EnvironmentProc ==
  ASSUME IndType, (\E i \in Id : Elapse(i)) \/ (\E p \in Proc : Cancel(p)) \/ Restart
  PROVE  ProcTypeOK' /\ LocalsOK'
<1>0. ProcTypeOK /\ LocalsOK
  BY DEF IndType, TypeOK
<1>1. failures' \in 0..MaxFailures
  BY <1>0, SizeAssumption DEF Elapse, Cancel, Restart, Fails, ProcTypeOK
<1>2. CASE \E i \in Id : Elapse(i)
  BY <1>0, <1>1, <1>2 DEF Elapse, ProcTypeOK, LocalsOK, locals
<1>3. CASE \E p \in Proc : Cancel(p)
  BY <1>0, <1>1, <1>3 DEF Cancel, ProcTypeOK, LocalsOK, locals
<1>4. CASE Restart
  <2>1. pc' \in [Proc -> Label] /\ \A p \in Proc : pc'[p] \in Bare
    BY <1>4, Labels DEF Restart, LoopLabel
  <2> QED
    BY <1>1, <1>4, <2>1 DEF Restart, ProcTypeOK, LocalsOK, Bare
<1> QED
  BY <1>2, <1>3, <1>4

-----------------------------------------------------------------------------
(* The world outside: the effects that the calls of the processes have.    *)

Effect ==
  \/ UNCHANGED outside
  \/ \E i \in Id, n \in Port \cup {None} :
       routes' = [routes EXCEPT ![i] = n] /\ UNCHANGED <<running, tables>>
  \/ \E i \in Id : tables' = tables \ {i} /\ UNCHANGED <<running, routes>>
  \/ \E i \in Id : StopContainer(i)
  \/ \E i \in Id, n \in Port : Boot(i, n)

LEMMA EffectType == ASSUME OutsideTypeOK, Effect PROVE OutsideTypeOK'
<1>1. CASE UNCHANGED outside
  BY <1>1 DEF outside, OutsideTypeOK
<1>2. CASE \E i \in Id, n \in Port \cup {None} :
             routes' = [routes EXCEPT ![i] = n] /\ UNCHANGED <<running, tables>>
  BY <1>2 DEF OutsideTypeOK
<1>3. CASE \E i \in Id : tables' = tables \ {i} /\ UNCHANGED <<running, routes>>
  BY <1>3 DEF OutsideTypeOK
<1>4. CASE \E i \in Id : StopContainer(i)
  BY <1>4 DEF StopContainer, OutsideTypeOK
<1>5. CASE \E i \in Id, n \in Port : Boot(i, n)
  BY <1>5 DEF Boot, OutsideTypeOK
<1> QED
  BY <1>1, <1>2, <1>3, <1>4, <1>5 DEF Effect

LEMMA AcquireEffect ==
  ASSUME IndType, NEW a \in Acquirer, Acquire(a)
  PROVE  Command /\ Effect
<1>0. a \in Proc /\ StoreTypeOK /\ ProcTypeOK /\ LocalsOK
  BY DEF IndType, TypeOK, Proc
<1>1. CASE AcquireFromPool(a)
  BY <1>1 DEF AcquireFromPool, PopNothing, Command, Effect
<1>2. CASE GetForTTL(a) \/ Signal(a)
  BY <1>2 DEF GetForTTL, Signal, Query, Command, Effect, store, outside
<1>3. CASE SetTTL(a)
  <2>1. job[a] \in Id /\ read[a] \in Record
    BY <1>0, <1>3 DEF SetTTL, At, LocalsOK, HasJob, HasRead, AcquireLabel
  <2>2. [read[a] EXCEPT !.expires = TRUE] \in Record \cup {None}
    BY <2>1 DEF Record
  <2> QED
    BY <1>3, <2>1, <2>2 DEF SetTTL, Call, Command, Effect, store, outside
<1>4. CASE AddRoute(a)
  <2>1. job[a] \in Id /\ inst[a].port \in Port
    BY <1>0, <1>4 DEF AddRoute, At, LocalsOK, HasJob, HasInst, AcquireLabel, Record
  <2> QED
    BY <1>4, <2>1 DEF AddRoute, Call, Command, Effect, store, outside
<1>5. CASE SaveUserIP(a) \/ SaveUserIPIndex(a)
  <2>1. job[a] \in Id /\ inst[a] \in Record /\ inst[a].state \in State
    BY <1>0, <1>5
    DEF SaveUserIP, SaveUserIPIndex, At, LocalsOK, HasJob, HasInst, AcquireLabel, Record
  <2> QED
    BY <1>5, <2>1 DEF SaveUserIP, SaveUserIPIndex, Call, Command, Effect, store, outside
<1> QED
  BY <1>1, <1>2, <1>3, <1>4, <1>5 DEF Acquire

LEMMA ReleaseEffect ==
  ASSUME IndType, NEW p \in Proc, Release(p)
  PROVE  Command /\ Effect
<1>0. StoreTypeOK /\ ProcTypeOK /\ LocalsOK
  BY DEF IndType, TypeOK
<1>1. job[p] \in Id
  BY <1>0
  DEF Release, GetForRelease, RemoveRoute, DropPrefixedTables, Stop, UntrackPort, ReturnPort,
      GetForDelete, RemoveFromStateSet, DeleteRecord, At, LocalsOK, HasJob, ReleaseLabel
<1>2. CASE GetForRelease(p) \/ GetForDelete(p)
  BY <1>2 DEF GetForRelease, GetForDelete, Query, Command, Effect, store, outside
<1>3. CASE RemoveRoute(p)
  BY <1>1, <1>3 DEF RemoveRoute, Attempt, RuntimeCall, Call, Command, Effect, store, outside
<1>4. CASE DropPrefixedTables(p)
  BY <1>1, <1>4 DEF DropPrefixedTables, Attempt, RuntimeCall, Call, Command, Effect, store, outside
<1>5. CASE Stop(p)
  BY <1>1, <1>5 DEF Stop, StopContainer, Attempt, RuntimeCall, Call, Command, Effect, store, outside
<1>6. CASE UntrackPort(p) \/ ReturnPort(p)
  <2>1. inst[p].port \in Port
    BY <1>0, <1>6 DEF UntrackPort, ReturnPort, At, LocalsOK, HasInst, Record
  <2> QED
    BY <1>6, <2>1 DEF UntrackPort, ReturnPort, Attempt, RuntimeCall, Call, Command, Effect, store, outside
<1>7. CASE RemoveFromStateSet(p)
  <2>1. read[p].state \in State
    BY <1>0, <1>7 DEF RemoveFromStateSet, At, LocalsOK, HasRead, Record
  <2> QED
    BY <1>1, <1>7, <2>1 DEF RemoveFromStateSet, Call, Command, Effect, store, outside
<1>8. CASE DeleteRecord(p)
  BY <1>1, <1>8 DEF DeleteRecord, Del, Call, Command, Effect, store, outside
<1> QED
  BY <1>2, <1>3, <1>4, <1>5, <1>6, <1>7, <1>8 DEF Release

LEMMA ProvisionEffect ==
  ASSUME IndType, NEW p \in Proc, ProvisionInstance(p)
  PROVE  Command /\ Effect
<1>0. StoreTypeOK /\ ProcTypeOK /\ LocalsOK
  BY DEF IndType, TypeOK
<1>1. CASE AllocatePort(p)
  BY <1>0, <1>1 DEF AllocatePort, Call, Query, Command, Effect, StoreTypeOK, store, outside
<1>2. CASE WaitForReady(p)
  BY <1>2 DEF WaitForReady, Command, Effect, store, outside
<1>3. CASE \/ TrackPort(p) \/ RestoreFromCheckpoint(p) \/ Start(p)
           \/ UndoUntrackPort(p) \/ UndoReturnPort(p)
  <2>1. inst[p].port \in Port
    BY <1>0, <1>3
    DEF TrackPort, RestoreFromCheckpoint, Start, UndoUntrackPort, UndoReturnPort, At, LocalsOK,
        HasInst, ProvisionLabel, Record
  <2>2. CASE RestoreFromCheckpoint(p) \/ Start(p)
    <3>1. UNCHANGED store
      BY <2>2 DEF RestoreFromCheckpoint, Start, StartContainer, Boot, store
    <3>2. UNCHANGED outside \/ \E i \in Id : Boot(i, inst[p].port)
      BY <2>2 DEF RestoreFromCheckpoint, Start, StartContainer, outside
    <3> QED
      BY <2>1, <3>1, <3>2 DEF Command, Effect
  <2>3. CASE TrackPort(p) \/ UndoUntrackPort(p) \/ UndoReturnPort(p)
    BY <2>1, <2>3
    DEF TrackPort, UndoUntrackPort, UndoReturnPort, Call, Command, Effect, store, outside
  <2> QED
    BY <1>3, <2>2, <2>3
<1>4. CASE AddRecord(p) \/ AddToStateSet(p) \/ PushReady(p) \/ UndoStop(p)
  <2>1. job[p] \in Id /\ inst[p] \in Record /\ inst[p].state \in State
    BY <1>0, <1>4
    DEF AddRecord, AddToStateSet, PushReady, UndoStop, At, LocalsOK, HasJob, HasInst,
        ProvisionLabel, Record
  <2>2. [inst[p] EXCEPT !.state = "ready"] \in Record \cup {None}
    BY <2>1 DEF Record, State
  <2>3. CASE AddRecord(p)
    BY <2>1, <2>2, <2>3 DEF AddRecord, Call, Command, Effect, store, outside
  <2>4. CASE AddToStateSet(p) \/ PushReady(p)
    BY <2>1, <2>4 DEF AddToStateSet, PushReady, Call, Command, Effect, store, outside
  <2>5. CASE UndoStop(p)
    BY <2>1, <2>5 DEF UndoStop, StopContainer, Attempt, RuntimeCall, Call, Command, Effect, store, outside
  <2> QED
    BY <1>4, <2>3, <2>4, <2>5
<1> QED
  BY <1>1, <1>2, <1>3, <1>4 DEF ProvisionInstance

LEMMA OtherEffect ==
  ASSUME \/ \E d \in Deleter : Delete(d)
         \/ \E w \in Worker : ProvisionOne(w)
         \/ Trigger \/ Tick \/ ReadReady \/ ReadAssigned \/ ListAssigned \/ FetchAssigned \/ Sweep
         \/ \E i \in Id : Elapse(i)
         \/ \E p \in Proc : Cancel(p)
         \/ Restart
  PROVE  Command /\ Effect
  BY DEF Delete, ProvisionOne, Trigger, Tick, Wake, ReadReady, ReadAssigned, ListAssigned,
         FetchAssigned, Sweep, Elapse, Cancel, Restart, Query, Command, Effect, store, outside

-----------------------------------------------------------------------------
(* The replenisher's own variables and what the clients know.              *)

LEMMA RequestRest ==
  ASSUME IndType,
         \/ \E a \in Acquirer : Acquire(a)
         \/ \E d \in Deleter : Delete(d)
         \/ \E p \in Proc : Release(p)
  PROVE  LoopTypeOK' /\ ClientTypeOK'
<1>0. LoopTypeOK /\ ClientTypeOK /\ LocalsOK /\ Acquirer \subseteq Proc
  BY DEF IndType, TypeOK, Proc
<1>1. ASSUME NEW a \in Acquirer, Acquire(a)
      PROVE  LoopTypeOK' /\ ClientTypeOK'
  <2>1. UNCHANGED loop /\ (UNCHANGED replenishCh \/ replenishCh' = TRUE)
    BY <1>1
    DEF Acquire, AcquireFromPool, GetForTTL, SetTTL, AddRoute, Signal, SaveUserIP, SaveUserIPIndex
  <2>2. UNCHANGED client \/ (Respond(a) /\ (SaveUserIP(a) \/ SaveUserIPIndex(a)))
    BY <1>1
    DEF Acquire, AcquireFromPool, GetForTTL, SetTTL, AddRoute, Signal, SaveUserIP,
        SaveUserIPIndex, Call
  <2>3. SaveUserIP(a) \/ SaveUserIPIndex(a) => job[a] \in Id
    BY <1>0 DEF SaveUserIP, SaveUserIPIndex, At, LocalsOK, HasJob, AcquireLabel
  <2> QED
    BY <1>0, <2>1, <2>2, <2>3 DEF LoopTypeOK, ClientTypeOK, Respond, client, loop, sweep
<1>2. CASE \E d \in Deleter : Delete(d)
  BY <1>0, <1>2 DEF Delete, LoopTypeOK, ClientTypeOK, loop, sweep, client
<1>3. CASE \E p \in Proc : Release(p)
  BY <1>0, <1>3 DEF Release, LoopTypeOK, ClientTypeOK, loop, sweep, client
<1> QED
  BY <1>1, <1>2, <1>3

LEMMA ProvisionRest ==
  ASSUME IndType,
         \/ \E w \in Worker : ProvisionOne(w)
         \/ \E p \in Proc : ProvisionInstance(p)
  PROVE  LoopTypeOK' /\ ClientTypeOK'
<1>0. LoopTypeOK /\ ClientTypeOK
  BY DEF IndType, TypeOK
<1>1. CASE \E w \in Worker : ProvisionOne(w)
  BY <1>0, <1>1 DEF ProvisionOne, Resume, LoopTypeOK, ClientTypeOK, loop, sweep, client
<1>2. ASSUME NEW p \in Proc, ProvisionInstance(p)
      PROVE  LoopTypeOK' /\ ClientTypeOK'
  <2>1. UNCHANGED replenishCh
    BY <1>2
    DEF ProvisionInstance, AllocatePort, TrackPort, RestoreFromCheckpoint, Start, StartContainer,
        WaitForReady, AddRecord, AddToStateSet, PushReady, UndoStop, UndoUntrackPort,
        UndoReturnPort
  <2>2. UNCHANGED loop \/ (UNCHANGED <<mode, sweep>> /\ seenReady' = 0)
    BY <1>2
    DEF ProvisionInstance, AllocatePort, TrackPort, RestoreFromCheckpoint, Start, StartContainer,
        WaitForReady, AddRecord, AddToStateSet, PushReady, UndoStop, UndoUntrackPort,
        UndoReturnPort, Call, Query, Resume, Provisioned, ProvisionFailed, Replenished
  <2>3. UNCHANGED client \/ (\E i \in Id, n \in Port \cup {None} : handed' = handed \ {i} /\ elapsed' = elapsed \ {i})
    BY <1>2
    DEF ProvisionInstance, AllocatePort, TrackPort, RestoreFromCheckpoint, Start, StartContainer,
        Boot, WaitForReady, AddRecord, AddToStateSet, PushReady, UndoStop, UndoUntrackPort,
        UndoReturnPort
  <2> QED
    BY <1>0, <2>1, <2>2, <2>3 DEF LoopTypeOK, ClientTypeOK, loop, sweep, client
<1> QED
  BY <1>1, <1>2

LEMMA LoopRest ==
  ASSUME IndType,
         Trigger \/ Tick \/ ReadReady \/ ReadAssigned \/ ListAssigned \/ FetchAssigned \/ Sweep
  PROVE  LoopTypeOK' /\ ClientTypeOK'
<1>0. LoopTypeOK /\ ClientTypeOK /\ StoreTypeOK
  BY DEF IndType, TypeOK
<1>1. CASE Trigger \/ Tick
  BY <1>0, <1>1 DEF Trigger, Tick, Wake, LoopTypeOK, ClientTypeOK, sweep, client
<1>2. CASE ReadReady \/ ReadAssigned
  <2>1. Len(poolReady) \in Nat
    BY <1>0 DEF StoreTypeOK
  <2> QED
    BY <1>0, <1>2, <2>1
    DEF ReadReady, ReadAssigned, Query, Replenished, Resume, LoopTypeOK, ClientTypeOK, loop,
        sweep, client
<1>3. CASE ListAssigned \/ FetchAssigned \/ Sweep
  <2>1. stateSet["assigned"] \subseteq Id
    BY <1>0 DEF StoreTypeOK, State
  <2>2. listed' \subseteq Id /\ expired' \subseteq Id
    BY <1>0, <1>3, <2>1 DEF ListAssigned, FetchAssigned, Sweep, Query, Rest, LoopTypeOK
  <2> QED
    BY <1>0, <1>3, <2>2 DEF ListAssigned, FetchAssigned, Sweep, LoopTypeOK, ClientTypeOK, client
<1> QED
  BY <1>1, <1>2, <1>3

LEMMA EnvironmentRest ==
  ASSUME IndType, (\E i \in Id : Elapse(i)) \/ (\E p \in Proc : Cancel(p)) \/ Restart
  PROVE  LoopTypeOK' /\ ClientTypeOK'
<1>0. LoopTypeOK /\ ClientTypeOK
  BY DEF IndType, TypeOK
<1>1. CASE \E i \in Id : Elapse(i)
  BY <1>0, <1>1 DEF Elapse, LoopTypeOK, ClientTypeOK, loop, sweep
<1>2. CASE \E p \in Proc : Cancel(p)
  BY <1>0, <1>2 DEF Cancel, LoopTypeOK, ClientTypeOK, loop, sweep, client
<1>3. CASE Restart
  BY <1>0, <1>3 DEF Restart, LoopTypeOK, ClientTypeOK, client
<1> QED
  BY <1>1, <1>2, <1>3

-----------------------------------------------------------------------------
(* Type correctness.                                                       *)

\* Next with Release and ProvisionInstance gathered over the processes that run them.
LEMMA NextCases ==
  ASSUME Next
  PROVE  \/ \E a \in Acquirer : Acquire(a)
         \/ \E d \in Deleter : Delete(d)
         \/ \E p \in Proc : Release(p)
         \/ \E w \in Worker : ProvisionOne(w)
         \/ \E p \in Proc : ProvisionInstance(p)
         \/ Trigger \/ Tick \/ ReadReady \/ ReadAssigned \/ ListAssigned \/ FetchAssigned \/ Sweep
         \/ (\E i \in Id : Elapse(i)) \/ (\E p \in Proc : Cancel(p)) \/ Restart
  BY DEF Next, Replenisher, Proc

LEMMA TypeStep == IndType /\ [Next]_vars => IndType'
<1> SUFFICES ASSUME IndType, [Next]_vars PROVE IndType'
  OBVIOUS
<1>0. StoreTypeOK /\ OutsideTypeOK /\ Acquirer \subseteq Proc
  BY DEF IndType, TypeOK, Proc
<1>1. CASE UNCHANGED vars
  BY <1>1
  DEF IndType, TypeOK, StoreTypeOK, OutsideTypeOK, ProcTypeOK, LoopTypeOK, ClientTypeOK, LocalsOK,
      vars, store, outside, locals, loop, sweep, client
<1>2. CASE Next
  <2>1. Command /\ Effect
    BY <1>0, <1>2, NextCases, AcquireEffect, ReleaseEffect, ProvisionEffect, OtherEffect
  <2>2. ProcTypeOK' /\ LocalsOK'
    BY <1>0, <1>2, NextCases, AcquireProc, DeleteProc, ReleaseProc, ProvisionOneProc,
       ProvisionProc, LoopProc, EnvironmentProc
  <2>3. LoopTypeOK' /\ ClientTypeOK'
    BY <1>2, NextCases, RequestRest, ProvisionRest, LoopRest, EnvironmentRest
  <2> QED
    BY <1>0, <2>1, <2>2, <2>3, CommandType, EffectType DEF IndType, TypeOK
<1> QED
  BY <1>1, <1>2

LEMMA IndTypeHolds == Spec => []IndType
BY TypeInit, TypeStep, PTL DEF Spec

\* Every variable keeps its type in every behaviour: TypeOK, which the run failures checks.
\* The records and ports that the processes work on (job, inst, read) exist where the
\* code dereferences them.
THEOREM TypeCorrect == Spec => []TypeOK
<1>1. IndType => TypeOK
  BY DEF IndType
<1> QED
  BY <1>1, IndTypeHolds, PTL

=============================================================================
