---------------------------- MODULE TtlExtension ----------------------------
(***************************************************************************)
(* The life time of one assigned instance: clients extend it (extendDemo,  *)
(* ExtendInstanceTTLAtomic), while the clean-up and DELETE requests may    *)
(* remove it.  The extension is a script, which is one step of Valkey, and *)
(* then a GET and a SET that keep the second expiry field in line.         *)
(*                                                                         *)
(* A record keeps its two expiry fields.  Release is cut down to the com-  *)
(* mands on the record, the state set and the container; WarmPool has the  *)
(* rest.                                                                   *)
(***************************************************************************)
EXTENDS Naturals

CONSTANTS
  Extender,     \* requests POST /{id}/extend
  Deleter,      \* requests DELETE /{id}
  Loop,         \* the replenisher goroutine, here only cleanupExpired
  None,         \* no record
  DefaultTTL,   \* the expiry SetInstanceTTL gave the instance at time 0
  MaxTTL,
  Extension,    \* the extensions a client may ask for
  MaxClock      \* BOUND: the last second

Remover == Deleter \cup {Loop}
Proc == Extender \cup Remover

ASSUME TtlAssumption ==
  /\ DefaultTTL \in Nat \ {0} /\ MaxTTL \in Nat /\ DefaultTTL <= MaxTTL
  /\ Extension \subseteq Nat \ {0}
  /\ MaxClock \in Nat
ASSUME ActorAssumption ==
  Extender \cap Deleter = {} /\ Loop \notin Extender \cup Deleter /\ None \notin [unix: Nat, text: Nat]

VARIABLES
  clock,     \* time.Now().Unix()
  record,    \* instance:{id}: expires_at_unix and expires_at, 0 where omitted; or None
  listed,    \* the id is in state:assigned
  alive,     \* the container runs
  pc,        \* the command each process sends next
  request,   \* what each extension works with
  promise    \* kept for a property: the expiry the clients may rely on

vars == <<clock, record, listed, alive, pc, request, promise>>

ExtendLabel == {"script", "syncGet", "syncSet"}
RemoveLabel == {"fetch", "rGet", "stop", "dGet", "dSRem", "dDel"}
Stored == [unix: Nat, text: Nat]

\* The time an extension started with, what it asks for, and the expiry it was granted.
Request == [now: Nat, asked: Nat, granted: Nat]
NoRequest == [now |-> 0, asked |-> 0, granted |-> 0]

TtlTypeOK ==
  /\ clock \in Nat
  /\ record \in Stored \cup {None}
  /\ listed \in BOOLEAN /\ alive \in BOOLEAN
  /\ pc \in [Proc -> {"idle"} \cup ExtendLabel \cup RemoveLabel]
  /\ request \in [Extender -> Request]
  /\ promise \in Nat

\* Acquired with an expiry; or without one, after a SetInstanceTTL that failed.
Init ==
  /\ clock = 0
  /\ record \in {[unix |-> DefaultTTL, text |-> DefaultTTL], [unix |-> 0, text |-> 0]}
  /\ listed = TRUE /\ alive = TRUE
  /\ pc = [p \in Proc |-> "idle"]
  /\ request = [e \in Extender |-> NoRequest]
  /\ promise = record.unix

Tick ==
  /\ clock < MaxClock
  /\ clock' = clock + 1
  /\ UNCHANGED <<record, listed, alive, pc, request, promise>>

At(p, l) == pc[p] = l
Goto(p, l) == pc' = [pc EXCEPT ![p] = l]

\* p is done; a request is forgotten with it.
End(p) ==
  /\ Goto(p, "idle")
  /\ request' = IF p \in Extender THEN [request EXCEPT ![p] = NoRequest] ELSE request

-----------------------------------------------------------------------------
(* Extending.                                                              *)

\* The time is read before the script is sent.
Ask(e) ==
  /\ At(e, "idle") /\ Goto(e, "script")
  /\ \E x \in Extension :
       request' = [request EXCEPT ![e] = [NoRequest EXCEPT !.now = clock, !.asked = x]]
  /\ UNCHANGED <<clock, record, listed, alive, promise>>

\* What is left of the expiry at time t, never negative.
Remaining(t) == IF record.unix > t THEN record.unix - t ELSE 0

\* Mutant of Allowed: the limit is compared with the time that is left already.
AllowedByRemaining(e) ==
  record # None /\ record.unix # 0 /\ Remaining(request[e].now) <= MaxTTL

Allowed(e) ==
  record # None /\ record.unix # 0 /\ Remaining(request[e].now) + request[e].asked <= MaxTTL

\* Mutant of Extend: the extension is added to the time instead of the expiry.
ExtendFromNow(e) ==
  /\ At(e, "script") /\ Allowed(e)
  /\ LET new == request[e].now + request[e].asked IN
     /\ record' = [record EXCEPT !.unix = new]
     /\ request' = [request EXCEPT ![e] = [NoRequest EXCEPT !.granted = new]]
     /\ promise' = IF clock <= promise /\ promise < new THEN new ELSE promise
  /\ Goto(e, "syncGet")
  /\ UNCHANGED <<clock, listed, alive>>

\* The script grants the extension ...
Extend(e) ==
  /\ At(e, "script") /\ Allowed(e)
  /\ LET new == record.unix + request[e].asked IN
     /\ record' = [record EXCEPT !.unix = new]
     /\ request' = [request EXCEPT ![e] = [NoRequest EXCEPT !.granted = new]]
     /\ promise' = IF clock <= promise /\ promise < new THEN new ELSE promise
  /\ Goto(e, "syncGet")
  /\ UNCHANGED <<clock, listed, alive>>

\* ... or its answer is lost ...
ExtendUnanswered(e) ==
  /\ At(e, "script") /\ Allowed(e)
  /\ record' = [record EXCEPT !.unix = @ + request[e].asked]
  /\ End(e)
  /\ UNCHANGED <<clock, listed, alive, promise>>

\* ... or it refuses: no record, no expiry, or beyond the limit.
Refuse(e) ==
  /\ At(e, "script") /\ ~Allowed(e)
  /\ End(e)
  /\ UNCHANGED <<clock, record, listed, alive, promise>>

\* syncExpiresAtField reads the record, and gives up without one.
SyncGet(e) ==
  /\ At(e, "syncGet")
  /\ IF record = None THEN End(e) ELSE Goto(e, "syncSet") /\ UNCHANGED request
  /\ UNCHANGED <<clock, record, listed, alive, promise>>

\* The whole record is written, with both fields as e was granted them.
SyncSet(e) ==
  /\ At(e, "syncSet") /\ End(e)
  /\ record' = [unix |-> request[e].granted, text |-> request[e].granted]
  /\ UNCHANGED <<clock, listed, alive, promise>>

ExtendDemo(e) ==
  Ask(e) \/ Extend(e) \/ ExtendUnanswered(e) \/ Refuse(e) \/ SyncGet(e) \/ SyncSet(e)

-----------------------------------------------------------------------------
(* Removing.                                                               *)

\* A DELETE that found the record goes on; the clients rely on nothing any more.
Delete(d) ==
  /\ At(d, "idle") /\ record # None
  /\ Goto(d, "rGet")
  /\ promise' = 0
  /\ UNCHANGED <<clock, record, listed, alive, request>>

\* ListExpired finds the id in the assigned set ...
List ==
  /\ At(Loop, "idle") /\ listed
  /\ Goto(Loop, "fetch")
  /\ UNCHANGED <<clock, record, listed, alive, request, promise>>

IsExpired == record.unix > 0 /\ clock > record.unix

\* ... and gets the record; cleanupExpired releases what is expired.
Fetch ==
  /\ At(Loop, "fetch")
  /\ Goto(Loop, IF record # None /\ IsExpired THEN "rGet" ELSE "idle")
  /\ UNCHANGED <<clock, record, listed, alive, request, promise>>

\* GetInstance of Release, and later that of DeleteInstance.
Get(p) ==
  /\ \/ At(p, "rGet") /\ Goto(p, IF record = None THEN "idle" ELSE "stop")
     \/ At(p, "dGet") /\ Goto(p, IF record = None THEN "idle" ELSE "dSRem")
  /\ UNCHANGED <<clock, record, listed, alive, request, promise>>

Stop(p) ==
  /\ At(p, "stop") /\ Goto(p, "dGet")
  /\ alive' = FALSE
  /\ UNCHANGED <<clock, record, listed, request, promise>>

RemoveFromStateSet(p) ==
  /\ At(p, "dSRem") /\ Goto(p, "dDel")
  /\ listed' = FALSE
  /\ UNCHANGED <<clock, record, alive, request, promise>>

DeleteRecord(p) ==
  /\ At(p, "dDel") /\ Goto(p, "idle")
  /\ record' = None
  /\ UNCHANGED <<clock, listed, alive, request, promise>>

Remove(p) == Get(p) \/ Stop(p) \/ RemoveFromStateSet(p) \/ DeleteRecord(p)

\* A command fails, or the context has ended, and the method returns; only when the
\* container is not stopped does Release go on.
Abandon(p) ==
  /\ pc[p] \notin {"idle", "stop"}
  /\ End(p)
  /\ UNCHANGED <<clock, record, listed, alive, promise>>

StopFailed(p) ==
  /\ At(p, "stop") /\ Goto(p, "dGet")
  /\ UNCHANGED <<clock, record, listed, alive, request, promise>>

Next ==
  \/ Tick
  \/ \E e \in Extender : ExtendDemo(e)
  \/ \E d \in Deleter : Delete(d)
  \/ List \/ Fetch
  \/ \E p \in Remover : Remove(p) \/ StopFailed(p)
  \/ \E p \in Proc : Abandon(p)

Spec == Init /\ [][Next]_vars

-----------------------------------------------------------------------------
\* The expiry is never further away than MaxTTL, although several extensions may run,
\* each with a time it read before, and each writes the record twice
\* (extendInstanceTTLAtomicScript, syncExpiresAtField).
LimitKept == record # None => record.unix <= clock + MaxTTL

\* The expiry clients are shown (expires_at) is never later than the one the clean-up
\* goes by (expires_at_unix), whichever sync fails or overtakes another.
ShownNeverLater == record # None => record.text <= record.unix

\* An extension that was granted before the expiry is honoured: without a DELETE, the
\* container runs until the granted expiry (ExtendInstanceTTLAtomic, cleanupExpired).
ExtensionHonoured == clock <= promise => alive

=============================================================================
