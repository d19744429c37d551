-------------------------- MODULE AssignmentProofs --------------------------
(***************************************************************************)
(* No instance is ever assigned twice, for any number of requests, any     *)
(* failures and any restarts.                                              *)
(***************************************************************************)
EXTENDS WarmPoolProofs

\* Where a process alone has a claim on the instance it works on: a request that has
\* popped it and still serves it, a provisioning process that has yet to push it.
ClaimLabel == AcquireLabel \cup {"health", "addSet", "addIndex", "push"}
Claim(p) == pc[p] \in ClaimLabel

\* NoDoubleAssignment is not inductive: it says nothing of the instances on their way
\* into the list, so a push could bring in a second copy.
ClaimInv ==
  /\ \A j, k \in DOMAIN poolReady : poolReady[j] = poolReady[k] => j = k
  /\ Elements(poolReady) \cap handed = {}
  /\ \A p \in Proc : Claim(p) => job[p] \notin Elements(poolReady) \cup handed
  /\ \A p, q \in Proc : Claim(p) /\ Claim(q) /\ job[p] = job[q] => p = q

-----------------------------------------------------------------------------
(* What the list commands do to the elements of the list.                  *)

Distinct(q) == \A j, k \in DOMAIN q : q[j] = q[k] => j = k

LEMMA AppendElements ==
  ASSUME NEW q \in Seq(Id), NEW i \in Id
  PROVE  /\ Elements(Append(q, i)) = Elements(q) \cup {i}
         /\ Distinct(q) /\ i \notin Elements(q) => Distinct(Append(q, i))
<1> DEFINE r == Append(q, i)
<1>1. /\ DOMAIN q = 1..Len(q) /\ Len(q) \in Nat
      /\ DOMAIN r = 1..(Len(q) + 1)
      /\ \A k \in 1..Len(q) : r[k] = q[k]
      /\ r[Len(q) + 1] = i
  OBVIOUS
<1> HIDE DEF r
<1>2. Elements(r) = Elements(q) \cup {i}
  BY <1>1 DEF Elements
<1>3. ASSUME Distinct(q), i \notin Elements(q) PROVE Distinct(r)
  <2>1. \A k \in 1..Len(q) : r[k] # i
    BY <1>1, <1>3 DEF Elements
  <2> QED
    BY <1>1, <1>3, <2>1 DEF Distinct
<1> QED
  BY <1>2, <1>3 DEF r

LEMMA TailElements ==
  ASSUME NEW q \in Seq(Id), q # <<>>
  PROVE  /\ Head(q) \in Elements(q) /\ Tail(q) \in Seq(Id)
         /\ Elements(Tail(q)) \subseteq Elements(q)
         /\ Distinct(q) => Distinct(Tail(q)) /\ Head(q) \notin Elements(Tail(q))
<1> DEFINE t == Tail(q)
<1>1. /\ DOMAIN q = 1..Len(q) /\ Len(q) \in Nat /\ Len(q) >= 1
      /\ t \in Seq(Id) /\ Len(t) = Len(q) - 1
      /\ DOMAIN t = 1..(Len(q) - 1)
      /\ \A k \in 1..(Len(q) - 1) : t[k] = q[k + 1]
      /\ Head(q) = q[1]
  OBVIOUS
<1> HIDE DEF t
<1>2. Head(q) \in Elements(q) /\ Elements(t) \subseteq Elements(q)
  BY <1>1 DEF Elements
<1>3. ASSUME Distinct(q) PROVE Distinct(t) /\ Head(q) \notin Elements(t)
  <2>1. \A k \in 1..(Len(q) - 1) : k + 1 \in 1..Len(q) /\ k + 1 # 1
    BY <1>1
  <2>2. Distinct(t)
    <3> SUFFICES ASSUME NEW j \in 1..(Len(q) - 1), NEW k \in 1..(Len(q) - 1), t[j] = t[k]
                 PROVE  j = k
      BY <1>1 DEF Distinct
    <3>1. j + 1 \in DOMAIN q /\ k + 1 \in DOMAIN q
      BY <1>1, <2>1
    <3>2. q[j + 1] = q[k + 1]
      BY <1>1
    <3>3. j + 1 = k + 1
      BY <3>1, <3>2, <1>3 DEF Distinct
    <3> QED
      BY <3>3
  <2>3. ASSUME NEW k \in 1..(Len(q) - 1) PROVE t[k] # Head(q)
    <3>1. k + 1 \in DOMAIN q /\ 1 \in DOMAIN q /\ k + 1 # 1
      BY <1>1, <2>1
    <3>2. q[k + 1] # q[1]
      BY <3>1, <1>3 DEF Distinct
    <3> QED
      BY <3>2, <1>1
  <2>4. Head(q) \notin Elements(t)
    BY <1>1, <2>3 DEF Elements
  <2> QED
    BY <2>2, <2>4
<1> QED
  BY <1>1, <1>2, <1>3 DEF t

-----------------------------------------------------------------------------
(* Steps that leave the list alone and hand nothing to a client.           *)

LEMMA Quiet ==
  ASSUME ClaimInv, poolReady' = poolReady, handed' \subseteq handed,
         \A p \in Proc : Claim(p)' => Claim(p) /\ job'[p] = job[p]
  PROVE  ClaimInv'
  BY DEF ClaimInv

\* One process moves on to l; it may not gain a claim by that.
LEMMA QuietStep ==
  ASSUME ProcTypeOK, ClaimInv, poolReady' = poolReady, handed' \subseteq handed,
         NEW p \in Proc, NEW l, Goto(p, l), \A q \in Proc \ {p} : job'[q] = job[q],
         l \in ClaimLabel => Claim(p) /\ job'[p] = job[p]
  PROVE  ClaimInv'
<1>1. pc'[p] = l /\ \A q \in Proc \ {p} : pc'[q] = pc[q]
  BY DEF ProcTypeOK, Goto
<1>2. \A q \in Proc : Claim(q)' => Claim(q) /\ job'[q] = job[q]
  BY <1>1 DEF Claim
<1> QED
  BY <1>2, Quiet

\* The labels without a claim.
LEMMA NoClaim ==
  ({"idle", "alloc", "track", "restore", "start", "undoStop", "undoUntrack", "undoReturn"}
     \cup ReleaseLabel \cup LoopLabel) \cap ClaimLabel = {}
  BY DEF ClaimLabel, AcquireLabel, ReleaseLabel, LoopLabel

LEMMA ReleaseClaim ==
  ASSUME IndType, ClaimInv, NEW p \in Proc, Release(p)
  PROVE  ClaimInv'
<1>1. ProcTypeOK /\ Loop \in Proc
  BY DEF IndType, TypeOK, Proc
<1>2. poolReady' = poolReady /\ handed' = handed
  BY DEF Release, GetForRelease, RemoveRoute, DropPrefixedTables, Stop, StopContainer, UntrackPort,
         ReturnPort, GetForDelete, RemoveFromStateSet, DeleteRecord, Attempt, RuntimeCall, Call, Query,
         SUntrackPort, SReturnPort, SRemState, Del, Set, store, client
<1>3. CASE Released(p)
  BY <1>1, <1>2, <1>3, NoClaim, QuietStep DEF Released, End, Drop, LoopLabel, ProcTypeOK
<1>4. CASE \E l \in ReleaseLabel : Goto(p, l) /\ UNCHANGED job
  BY <1>1, <1>2, <1>4, NoClaim, QuietStep
<1>5. Released(p) \/ \E l \in ReleaseLabel : Goto(p, l) /\ UNCHANGED job
  BY DEF Release, GetForRelease, RemoveRoute, DropPrefixedTables, Stop, UntrackPort, ReturnPort,
         GetForDelete, RemoveFromStateSet, DeleteRecord, Attempt, RuntimeCall, Call, Query, Send, locals,
         ReleaseLabel
<1> QED
  BY <1>3, <1>4, <1>5

LEMMA DeleteClaim ==
  ASSUME IndType, ClaimInv, NEW d \in Deleter, Delete(d)
  PROVE  ClaimInv'
<1>1. ProcTypeOK /\ d \in Proc
  BY DEF IndType, TypeOK, Proc
<1>2. poolReady' = poolReady /\ handed' = handed /\ Goto(d, "rGet")
  BY DEF Delete, store, client
<1>3. \A q \in Proc \ {d} : job'[q] = job[q]
  BY <1>1 DEF Delete, ProcTypeOK
<1>4. "rGet" \notin ClaimLabel
  BY NoClaim DEF ReleaseLabel
<1> QED
  BY <1>1, <1>2, <1>3, <1>4, QuietStep

LEMMA LoopClaim ==
  ASSUME IndType, ClaimInv,
         Trigger \/ Tick \/ ReadReady \/ ReadAssigned \/ ListAssigned \/ FetchAssigned \/ Sweep
  PROVE  ClaimInv'
<1>1. ProcTypeOK /\ Loop \in Proc
  BY DEF IndType, TypeOK, Proc
<1>2. poolReady' = poolReady /\ handed' = handed
  BY DEF Trigger, Tick, Wake, ReadReady, ReadAssigned, ListAssigned, FetchAssigned, Sweep, Query,
         store, client
<1>3. \E l \in LoopLabel \cup {"alloc", "rGet"} : Goto(Loop, l)
  BY DEF Trigger, Tick, Wake, ReadReady, ReadAssigned, ListAssigned, FetchAssigned, Sweep, Query,
         Rest, Replenished, Resume, Send, LoopLabel
<1>4. \A q \in Proc \ {Loop} : job'[q] = job[q]
  BY <1>1
  DEF Trigger, Tick, Wake, ReadReady, ReadAssigned, ListAssigned, FetchAssigned, Sweep, Query,
      Rest, Replenished, Resume, Send, Drop, locals, ProcTypeOK
<1>5. (LoopLabel \cup {"alloc", "rGet"}) \cap ClaimLabel = {}
  BY NoClaim DEF ReleaseLabel
<1> QED
  BY <1>1, <1>2, <1>3, <1>4, <1>5, QuietStep

LEMMA EnvironmentClaim ==
  ASSUME ClaimInv, (\E i \in Id : Elapse(i)) \/ (\E p \in Proc : Cancel(p)) \/ Restart
  PROVE  ClaimInv'
<1>1. poolReady' = poolReady /\ handed' = handed
  BY DEF Elapse, Cancel, Restart, InitializePorts, store, client
<1>2. CASE (\E i \in Id : Elapse(i)) \/ (\E p \in Proc : Cancel(p))
  <2>1. UNCHANGED <<pc, job>>
    BY <1>2 DEF Elapse, Cancel, locals
  <2> QED
    BY <1>1, <2>1, Quiet DEF Claim
<1>3. CASE Restart
  <2>1. \A p \in Proc : pc'[p] \in {"llen", "idle"}
    BY <1>3 DEF Restart
  <2>2. {"llen", "idle"} \cap ClaimLabel = {}
    BY NoClaim DEF LoopLabel
  <2> QED
    BY <1>1, <2>1, <2>2, Quiet DEF Claim
<1> QED
  BY <1>2, <1>3

-----------------------------------------------------------------------------
(* The pop: the claim passes from the list to the request.                 *)

LEMMA PopClaim ==
  ASSUME IndType, ClaimInv, NEW a \in Acquirer, AcquireFromPool(a)
  PROVE  ClaimInv'
<1> DEFINE i == Head(poolReady)
<1>0. ProcTypeOK /\ poolReady \in Seq(Id) /\ a \in Proc
  BY DEF IndType, TypeOK, StoreTypeOK, Proc
<1>1. UNCHANGED handed
  BY DEF AcquireFromPool, client
<1>2. Distinct(poolReady)
  BY DEF ClaimInv, Distinct
<1>3. CASE PopNothing /\ UNCHANGED <<pc, locals>>
  BY <1>1, <1>3, Quiet DEF PopNothing, Claim, store, locals
<1>4. CASE PopGhost /\ UNCHANGED <<pc, locals>>
  <2>1. i \in Id /\ Tail(poolReady) \in Seq(Id) /\ poolReady' = Append(Tail(poolReady), i)
    BY <1>0, <1>4 DEF PopGhost
  <2>2. /\ i \in Elements(poolReady) \ Elements(Tail(poolReady)) /\ Distinct(Tail(poolReady))
        /\ Elements(Tail(poolReady)) \subseteq Elements(poolReady)
    BY <1>0, <1>2, <1>4, TailElements DEF PopGhost
  <2>3. Elements(poolReady') \subseteq Elements(poolReady) /\ Distinct(poolReady')
    <3> DEFINE t == Tail(poolReady)
    <3>1. t \in Seq(Id) /\ i \in Id /\ i \notin Elements(t) /\ Distinct(t)
      BY <2>1, <2>2
    <3> HIDE DEF t, i
    <3>2. Elements(Append(t, i)) = Elements(t) \cup {i} /\ Distinct(Append(t, i))
      BY <3>1, AppendElements
    <3> QED
      BY <2>1, <2>2, <3>2 DEF t, i
  <2>4. UNCHANGED <<pc, job>>
    BY <1>4 DEF locals
  <2>5. \A p \in Proc : Claim(p)' => Claim(p) /\ job'[p] = job[p]
    BY <2>4 DEF Claim
  <2> QED
    BY <1>1, <2>3, <2>5 DEF ClaimInv, Distinct
<1>5. CASE PopInstance
  <2>1. /\ poolReady # <<>> /\ poolReady' = Tail(poolReady)
        /\ Elements(poolReady') \subseteq Elements(poolReady) /\ Distinct(poolReady')
        /\ i \in Elements(poolReady) /\ i \notin Elements(poolReady')
    BY <1>0, <1>2, <1>5, TailElements DEF PopInstance
  <2>2. CASE UNCHANGED <<pc, locals>>
    BY <1>1, <2>1, <2>2 DEF ClaimInv, Distinct, Claim, locals
  <2>3. CASE Goto(a, "ttlGet") /\ job' = [job EXCEPT ![a] = i]
    <3>1. job'[a] = i /\ \A p \in Proc \ {a} : pc'[p] = pc[p] /\ job'[p] = job[p]
      BY <1>0, <2>3 DEF Goto, ProcTypeOK
    <3>2. \A p \in Proc \ {a} : Claim(p)' => Claim(p) /\ job'[p] # i
      BY <2>1, <3>1 DEF ClaimInv, Claim
    <3>3. i \notin Elements(poolReady') \cup handed'
      BY <1>1, <2>1 DEF ClaimInv
    <3>4. \A p \in Proc : Claim(p)' => job'[p] \notin Elements(poolReady') \cup handed'
      BY <1>1, <2>1, <3>1, <3>2, <3>3 DEF ClaimInv
    <3>5. \A p, q \in Proc : Claim(p)' /\ Claim(q)' /\ job'[p] = job'[q] => p = q
      BY <3>1, <3>2 DEF ClaimInv
    <3> QED
      BY <1>1, <2>1, <3>4, <3>5 DEF ClaimInv, Distinct
  <2> QED
    BY <1>5, <2>2, <2>3, <1>0 DEF AcquireFromPool, PopInstance, PopNothing, PopGhost
<1> QED
  BY <1>3, <1>4, <1>5 DEF AcquireFromPool

\* The response: the claim passes from the request to the client.
LEMMA RespondClaim ==
  ASSUME ProcTypeOK, ClaimInv, NEW a \in Proc, Claim(a), poolReady' = poolReady, Respond(a)
  PROVE  ClaimInv'
<1>1. /\ pc'[a] = "idle"
      /\ \A p \in Proc \ {a} : pc'[p] = pc[p] /\ job'[p] = job[p]
  BY DEF Respond, End, Drop, Goto, ProcTypeOK
<1>2. \A p \in Proc : Claim(p)' => p # a /\ Claim(p) /\ job'[p] = job[p]
  BY <1>1, NoClaim DEF Claim
<1>3. handed' \subseteq handed \cup {job[a]}
  BY DEF Respond
<1> QED
  BY <1>2, <1>3 DEF ClaimInv

LEMMA AcquireClaim ==
  ASSUME IndType, ClaimInv, NEW a \in Acquirer, Acquire(a)
  PROVE  ClaimInv'
<1>0. ProcTypeOK /\ a \in Proc
  BY DEF IndType, TypeOK, Proc
<1>1. CASE AcquireFromPool(a)
  BY <1>1, PopClaim
<1>2. CASE GetForTTL(a) \/ SetTTL(a) \/ AddRoute(a) \/ Signal(a) \/ SaveUserIP(a) \/ SaveUserIPIndex(a)
  <2>1. Claim(a) /\ poolReady' = poolReady
    BY <1>2
    DEF GetForTTL, SetTTL, AddRoute, Signal, SaveUserIP, SaveUserIPIndex, At, Claim, ClaimLabel,
        AcquireLabel, Call, Query, Set, SAddState, store
  <2>2. CASE Respond(a)
    BY <1>0, <2>1, <2>2, RespondClaim
  <2>3. CASE UNCHANGED <<client, job>> /\ \E l \in Label : Goto(a, l)
    BY <1>0, <2>1, <2>3, QuietStep DEF client
  <2>4. Respond(a) \/ (UNCHANGED <<client, job>> /\ \E l \in Label : Goto(a, l))
    BY <1>2
    DEF GetForTTL, SetTTL, AddRoute, Signal, SaveUserIP, SaveUserIPIndex, Call, Query, Send,
        locals, Label, AcquireLabel, ReleaseLabel
  <2> QED
    BY <2>2, <2>3, <2>4
<1> QED
  BY <1>1, <1>2 DEF Acquire

-----------------------------------------------------------------------------
(* Provisioning: the claim begins with a fresh instance and passes to the  *)
(* list with the push.                                                     *)

LEMMA EndClaim ==
  ASSUME ProcTypeOK, ClaimInv, NEW p \in Proc, poolReady' = poolReady, handed' = handed,
         ProvisionFailed(p) \/ Provisioned(p)
  PROVE  ClaimInv'
<1>1. PICK l \in {"idle", "llen", "list", "select"} : Goto(p, l)
  BY DEF ProvisionFailed, Provisioned, Replenished, End
<1>2. l \notin ClaimLabel
  BY NoClaim DEF LoopLabel
<1>3. \A q \in Proc \ {p} : job'[q] = job[q]
  BY DEF ProvisionFailed, Provisioned, Replenished, End, Drop, ProcTypeOK
<1> QED
  BY <1>1, <1>2, <1>3, QuietStep

LEMMA StartClaim ==
  ASSUME IndType, ClaimInv, NEW p \in Proc, NEW l \in {"start", "undoUntrack"}, StartContainer(p, l)
  PROVE  ClaimInv'
<1>0. ProcTypeOK
  BY DEF IndType, TypeOK
<1>1. poolReady' = poolReady
  BY DEF StartContainer, Boot, store
<1>2. CASE Send(p, l)
  <2>1. handed' \subseteq handed
    BY DEF StartContainer, Boot, client
  <2> QED
    BY <1>0, <1>1, <1>2, <2>1, NoClaim, QuietStep DEF Send, locals
<1>3. ASSUME NEW i \in Id, Boot(i, inst[p].port), job' = [job EXCEPT ![p] = i], Goto(p, "health")
      PROVE  ClaimInv'
  <2>1. job'[p] = i /\ \A q \in Proc \ {p} : pc'[q] = pc[q] /\ job'[q] = job[q]
    BY <1>0, <1>3 DEF Goto, ProcTypeOK
  <2>2. handed' = handed \ {i} /\ i \notin Elements(poolReady) /\ \A q \in Proc : job[q] # i
    BY <1>3 DEF Boot, Fresh
  <2>3. \A q \in Proc \ {p} : Claim(q)' => Claim(q)
    BY <2>1 DEF Claim
  <2>4. \A q \in Proc : Claim(q)' => job'[q] \notin Elements(poolReady') \cup handed'
    BY <1>1, <2>1, <2>2, <2>3 DEF ClaimInv
  <2>5. \A q, r \in Proc : Claim(q)' /\ Claim(r)' /\ job'[q] = job'[r] => q = r
    BY <2>1, <2>2, <2>3 DEF ClaimInv
  <2> QED
    BY <1>1, <2>2, <2>4, <2>5 DEF ClaimInv
<1> QED
  BY <1>2, <1>3 DEF StartContainer

LEMMA PushClaim ==
  ASSUME IndType, ClaimInv, NEW p \in Proc, PushReady(p)
  PROVE  ClaimInv'
<1>0. ProcTypeOK /\ poolReady \in Seq(Id) /\ job[p] \in Id
  BY DEF IndType, TypeOK, StoreTypeOK, LocalsOK, PushReady, At, HasJob
<1>1. Claim(p) /\ handed' = handed
  BY DEF PushReady, At, Claim, ClaimLabel, client
<1>2. PICK l \in {"idle", "llen", "undoStop"} : Goto(p, l)
  BY DEF PushReady, Call, Provisioned, Resume, Send, End
<1>3. \A q \in Proc : Claim(q)' => q # p /\ Claim(q) /\ job'[q] = job[q]
  <2>1. l \notin ClaimLabel
    BY NoClaim DEF LoopLabel
  <2>2. \A q \in Proc \ {p} : job'[q] = job[q]
    BY <1>0 DEF PushReady, Call, Provisioned, Resume, Send, End, Drop, locals, ProcTypeOK
  <2> QED
    BY <1>0, <1>2, <2>1, <2>2 DEF Goto, Claim, ProcTypeOK
<1>4. CASE poolReady' = poolReady
  BY <1>1, <1>3, <1>4, Quiet
<1>5. CASE poolReady' = Append(poolReady, job[p])
  <2>1. Elements(poolReady') = Elements(poolReady) \cup {job[p]}
    BY <1>0, <1>5, AppendElements
  <2>2. Distinct(poolReady')
    BY <1>0, <1>1, <1>5, AppendElements DEF ClaimInv, Distinct
  <2> QED
    BY <1>1, <1>3, <2>1, <2>2 DEF ClaimInv, Distinct
<1> QED
  BY <1>4, <1>5 DEF PushReady, Call, RPush, store

LEMMA ProvisionClaim ==
  ASSUME IndType, ClaimInv, NEW p \in Proc, ProvisionInstance(p)
  PROVE  ClaimInv'
<1>0. ProcTypeOK
  BY DEF IndType, TypeOK
<1>1. CASE RestoreFromCheckpoint(p) \/ Start(p)
  BY <1>1, StartClaim DEF RestoreFromCheckpoint, Start
<1>2. CASE PushReady(p)
  BY <1>2, PushClaim
<1>3. CASE \/ AllocatePort(p) \/ TrackPort(p) \/ UndoStop(p)
           \/ UndoUntrackPort(p) \/ UndoReturnPort(p)
  <2>1. poolReady' = poolReady /\ handed' = handed
    BY <1>3
    DEF AllocatePort, TrackPort, UndoStop, UndoUntrackPort, UndoReturnPort, StopContainer, SPopPort,
        STrackPort, SUntrackPort, SReturnPort, Attempt, RuntimeCall, Call, Query, store, client
  <2>2. CASE \E l \in {"track", "restore", "start", "undoUntrack", "undoReturn"} :
               Goto(p, l) /\ UNCHANGED job
    BY <1>0, <2>1, <2>2, NoClaim, QuietStep
  <2>3. CASE ProvisionFailed(p)
    BY <1>0, <2>1, <2>3, EndClaim
  <2> QED
    BY <1>3, <2>2, <2>3
    DEF AllocatePort, TrackPort, UndoStop, UndoUntrackPort, UndoReturnPort, Attempt, RuntimeCall, Call, Query,
        Resume, Send, locals
<1>4. CASE WaitForReady(p) \/ AddRecord(p) \/ AddToStateSet(p)
  <2>1. poolReady' = poolReady /\ handed' = handed /\ job' = job
    BY <1>4
    DEF WaitForReady, AddRecord, AddToStateSet, Set, SAddState, Call, Resume, Send, locals,
        store, client
  <2>2. Claim(p)
    BY <1>4 DEF WaitForReady, AddRecord, AddToStateSet, At, Claim, ClaimLabel
  <2>3. \E l \in Label : Goto(p, l)
    BY <1>4
    DEF WaitForReady, AddRecord, AddToStateSet, Call, Resume, Send, Label, ProvisionLabel
  <2> QED
    BY <1>0, <2>1, <2>2, <2>3, QuietStep
<1> QED
  BY <1>1, <1>2, <1>3, <1>4 DEF ProvisionInstance

LEMMA ProvisionOneClaim ==
  ASSUME IndType, ClaimInv, NEW w \in Worker, ProvisionOne(w)
  PROVE  ClaimInv'
<1>1. ProcTypeOK /\ w \in Proc
  BY DEF IndType, TypeOK, Proc
<1>2. poolReady' = poolReady /\ handed' = handed /\ job' = job /\ Goto(w, "alloc")
  BY DEF ProvisionOne, Resume, Send, locals, store, client
<1> QED
  BY <1>1, <1>2, NoClaim, QuietStep

-----------------------------------------------------------------------------
LEMMA ClaimInit == Init => ClaimInv
<1> SUFFICES ASSUME Init PROVE ClaimInv
  OBVIOUS
<1>1. \A p \in Proc : ~Claim(p)
  BY NoClaim DEF Init, Claim, LoopLabel
<1>2. poolReady = <<>> /\ handed = {}
  BY DEF Init, StoreInit
<1> QED
  BY <1>1, <1>2 DEF ClaimInv, Elements

LEMMA ClaimStep == IndType /\ ClaimInv /\ [Next]_vars => ClaimInv'
<1> SUFFICES ASSUME IndType, ClaimInv, [Next]_vars PROVE ClaimInv'
  OBVIOUS
<1>1. CASE UNCHANGED vars
  BY <1>1, Quiet DEF vars, store, locals, client, Claim
<1>2. CASE Next
  BY <1>2, NextCases, AcquireClaim, DeleteClaim, ReleaseClaim, ProvisionOneClaim, ProvisionClaim,
     LoopClaim, EnvironmentClaim
<1> QED
  BY <1>1, <1>2

\* No instance is in the ready list twice, in the list and with a request or a client, or
\* with two requests: the atomic pop of acquireFromPoolScript and the single push of
\* provisionInstance give every instance one holder at a time, whatever command fails and
\* wherever a process dies.
THEOREM NoDoubleAssignmentHolds == Spec => []NoDoubleAssignment
<1>1. ClaimInv => NoDoubleAssignment
  <2>1. \A a \in Acquirer : a \in Proc /\ (Serving(a) => Claim(a))
    BY DEF Proc, Serving, Claim, ClaimLabel
  <2> QED
    BY <2>1 DEF ClaimInv, NoDoubleAssignment
<1> QED
  BY <1>1, ClaimInit, ClaimStep, IndTypeHolds, PTL DEF Spec

=============================================================================
