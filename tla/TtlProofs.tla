------------------------------ MODULE TtlProofs ------------------------------
(***************************************************************************)
(* The limit on the expiry and the expiry shown to clients, for any number *)
(* of overlapping extensions, clean-ups and DELETE requests.               *)
(***************************************************************************)
EXTENDS TtlExtension, TLAPS

\* LimitKept and ShownNeverLater are not inductive: what an extension was granted is
\* written again by its sync, so it must be within the limit too, and the time it started
\* with must have been the time.
RequestsOK ==
  \A e \in Extender :
    /\ request[e].now <= clock
    /\ request[e].granted <= clock + MaxTTL

TtlInv == TtlTypeOK /\ RequestsOK /\ LimitKept /\ ShownNeverLater

LEMMA TtlInit == Init => TtlInv
<1> SUFFICES ASSUME Init PROVE TtlInv
  OBVIOUS
<1> USE TtlAssumption DEF TtlAssumption
<1>1. TtlTypeOK
  BY DEF Init, TtlTypeOK, Stored, Request, NoRequest
<1>2. RequestsOK
  <2> SUFFICES ASSUME NEW e \in Extender
               PROVE  request[e].now <= clock /\ request[e].granted <= clock + MaxTTL
    BY DEF RequestsOK
  <2>1. request[e] = NoRequest /\ clock = 0
    BY DEF Init
  <2>2. NoRequest.now = 0 /\ NoRequest.granted = 0
    BY DEF NoRequest
  <2>3. 0 <= 0 /\ 0 <= 0 + MaxTTL
    OBVIOUS
  <2> QED
    BY <2>1, <2>2, <2>3, Zenon
<1>3. LimitKept /\ ShownNeverLater
  <2>1. CASE record = [unix |-> DefaultTTL, text |-> DefaultTTL]
    BY <2>1 DEF Init, LimitKept, ShownNeverLater
  <2>2. CASE record = [unix |-> 0, text |-> 0]
    BY <2>2 DEF Init, LimitKept, ShownNeverLater
  <2> QED
    BY <2>1, <2>2 DEF Init
<1> QED
  BY <1>1, <1>2, <1>3 DEF TtlInv

\* The steps that leave the record and the requests alone, or end a request.
LEMMA QuietStep ==
  ASSUME TtlInv, UNCHANGED <<clock, record>>,
         NEW p \in Proc, NEW l \in {"idle"} \cup ExtendLabel \cup RemoveLabel, Goto(p, l),
         UNCHANGED request \/ End(p),
         listed' \in BOOLEAN, alive' \in BOOLEAN, promise' \in Nat
  PROVE  TtlInv'
<1> USE TtlAssumption DEF TtlAssumption
<1>1. request' \in [Extender -> Request] /\ RequestsOK'
  <2>1. CASE UNCHANGED request
    BY <2>1 DEF TtlInv, TtlTypeOK, RequestsOK
  <2>2. CASE End(p)
    BY <2>2 DEF TtlInv, TtlTypeOK, RequestsOK, End, NoRequest, Request
  <2> QED
    BY <2>1, <2>2
<1>2. pc' \in [Proc -> {"idle"} \cup ExtendLabel \cup RemoveLabel]
  BY DEF TtlInv, TtlTypeOK, Goto
<1>3. TtlTypeOK'
  BY <1>1, <1>2 DEF TtlInv, TtlTypeOK
<1>4. LimitKept' /\ ShownNeverLater'
  BY DEF TtlInv, LimitKept, ShownNeverLater
<1> QED
  BY <1>1, <1>3, <1>4 DEF TtlInv

\* An extension of the record that Allowed lets through.
LEMMA Granted ==
  ASSUME TtlInv, NEW e \in Extender, Allowed(e), NEW new, new = record.unix + request[e].asked
  PROVE  /\ record \in Stored /\ new \in Nat
         /\ record.unix <= new /\ new <= clock + MaxTTL
         /\ [record EXCEPT !.unix = new] \in Stored
         /\ [record EXCEPT !.unix = new].unix = new
         /\ [record EXCEPT !.unix = new].text = record.text
<1> USE TtlAssumption DEF TtlAssumption
<1>1. record \in Stored /\ request[e] \in Request
  BY DEF Allowed, TtlInv, TtlTypeOK
<1>2. clock \in Nat /\ MaxTTL \in Nat /\ record.unix \in Nat
      /\ request[e].asked \in Nat /\ request[e].now \in Nat /\ request[e].now <= clock
  BY <1>1 DEF TtlInv, TtlTypeOK, RequestsOK, Stored, Request
<1>3. Remaining(request[e].now) + request[e].asked <= MaxTTL
  BY DEF Allowed
<1>4. new <= clock + MaxTTL
  <2>1. CASE record.unix > request[e].now
    BY <1>2, <1>3, <2>1 DEF Remaining
  <2>2. CASE ~(record.unix > request[e].now)
    BY <1>2, <1>3, <2>2 DEF Remaining
  <2> QED
    BY <2>1, <2>2
<1>5. new \in Nat /\ record.unix <= new
  BY <1>2
<1> QED
  BY <1>1, <1>4, <1>5 DEF Stored

LEMMA ExtendInv == ASSUME TtlInv, NEW e \in Extender, ExtendDemo(e) PROVE TtlInv'
<1> USE TtlAssumption DEF TtlAssumption
<1> e \in Proc
  BY DEF Proc
<1>0. TtlTypeOK /\ RequestsOK /\ LimitKept /\ ShownNeverLater
  BY DEF TtlInv
<1>1. CASE Ask(e)
  <2>1. PICK x \in Extension :
          request' = [request EXCEPT ![e] = [NoRequest EXCEPT !.now = clock, !.asked = x]]
    BY <1>1 DEF Ask
  <2>2. x \in Nat /\ clock \in Nat
    BY <1>0 DEF TtlTypeOK
  <2>3. [NoRequest EXCEPT !.now = clock, !.asked = x] \in Request
    BY <2>2 DEF NoRequest, Request
  <2>4. request' \in [Extender -> Request] /\ RequestsOK'
    BY <1>0, <1>1, <2>1, <2>2, <2>3 DEF TtlTypeOK, RequestsOK, NoRequest, Ask
  <2>5. TtlTypeOK'
    BY <1>0, <1>1, <2>4 DEF TtlTypeOK, Ask, Goto, ExtendLabel
  <2> QED
    BY <1>0, <1>1, <2>4, <2>5 DEF TtlInv, Ask, LimitKept, ShownNeverLater
<1>2. CASE Extend(e)
  <2> DEFINE new == record.unix + request[e].asked
  <2>1. /\ record' = [record EXCEPT !.unix = new]
        /\ request' = [request EXCEPT ![e] = [NoRequest EXCEPT !.granted = new]]
        /\ promise' = IF clock <= promise /\ promise < new THEN new ELSE promise
        /\ Goto(e, "syncGet") /\ UNCHANGED <<clock, listed, alive>>
        /\ Allowed(e)
    BY <1>2 DEF Extend
  <2>2. /\ record \in Stored /\ new \in Nat
        /\ record.unix <= new /\ new <= clock + MaxTTL
        /\ [record EXCEPT !.unix = new] \in Stored
        /\ [record EXCEPT !.unix = new].unix = new
        /\ [record EXCEPT !.unix = new].text = record.text
    BY <2>1, Granted
  <2> HIDE DEF new
  <2>3. [NoRequest EXCEPT !.granted = new] \in Request
    BY <2>2 DEF NoRequest, Request
  <2>4. request' \in [Extender -> Request] /\ RequestsOK'
    BY <1>0, <2>1, <2>2, <2>3 DEF TtlTypeOK, RequestsOK, NoRequest
  <2>5. pc' \in [Proc -> {"idle"} \cup ExtendLabel \cup RemoveLabel]
    BY <1>0, <2>1 DEF TtlTypeOK, Goto, ExtendLabel
  <2>6. TtlTypeOK'
    BY <1>0, <2>1, <2>2, <2>4, <2>5 DEF TtlTypeOK
  <2>7. LimitKept'
    BY <2>1, <2>2 DEF LimitKept
  <2>8. record \in Stored => record.text <= record.unix /\ record.text \in Nat /\ record.unix \in Nat
    BY <1>0, ActorAssumption DEF ShownNeverLater, Stored
  <2>9. ShownNeverLater'
    BY <2>1, <2>2, <2>8 DEF ShownNeverLater
  <2> QED
    BY <2>4, <2>6, <2>7, <2>9 DEF TtlInv
<1>3. CASE ExtendUnanswered(e)
  <2> DEFINE new == record.unix + request[e].asked
  <2>1. /\ record' = [record EXCEPT !.unix = new]
        /\ End(e) /\ UNCHANGED <<clock, listed, alive, promise>>
        /\ Allowed(e)
    BY <1>3 DEF ExtendUnanswered
  <2>2. /\ record \in Stored /\ new \in Nat
        /\ record.unix <= new /\ new <= clock + MaxTTL
        /\ [record EXCEPT !.unix = new] \in Stored
        /\ [record EXCEPT !.unix = new].unix = new
        /\ [record EXCEPT !.unix = new].text = record.text
    BY <2>1, Granted
  <2> HIDE DEF new
  <2>3. request' \in [Extender -> Request] /\ RequestsOK'
    BY <1>0, <2>1 DEF TtlTypeOK, RequestsOK, End, NoRequest, Request
  <2>4. pc' \in [Proc -> {"idle"} \cup ExtendLabel \cup RemoveLabel]
    BY <1>0, <2>1 DEF TtlTypeOK, End, Goto
  <2>5. TtlTypeOK'
    BY <1>0, <2>1, <2>2, <2>3, <2>4 DEF TtlTypeOK
  <2>6. LimitKept'
    BY <2>1, <2>2 DEF LimitKept
  <2>7. record \in Stored => record.text <= record.unix /\ record.text \in Nat /\ record.unix \in Nat
    BY <1>0, ActorAssumption DEF ShownNeverLater, Stored
  <2>8. ShownNeverLater'
    BY <2>1, <2>2, <2>7 DEF ShownNeverLater
  <2> QED
    BY <2>3, <2>5, <2>6, <2>8 DEF TtlInv
<1>4. CASE Refuse(e)
  BY <1>0, <1>4, QuietStep DEF Refuse, End, TtlInv, TtlTypeOK
<1>5. CASE SyncGet(e)
  BY <1>0, <1>5, QuietStep DEF SyncGet, End, TtlInv, TtlTypeOK, ExtendLabel
<1>6. CASE SyncSet(e)
  <2> DEFINE g == request[e].granted
  <2>1. /\ record' = [unix |-> g, text |-> g]
        /\ End(e) /\ UNCHANGED <<clock, listed, alive, promise>>
    BY <1>6 DEF SyncSet
  <2>2. g \in Nat /\ g <= clock + MaxTTL
    BY <1>0 DEF TtlTypeOK, RequestsOK, Request
  <2> HIDE DEF g
  <2>3. request' \in [Extender -> Request] /\ RequestsOK'
    BY <1>0, <2>1 DEF TtlTypeOK, RequestsOK, End, NoRequest, Request
  <2>4. pc' \in [Proc -> {"idle"} \cup ExtendLabel \cup RemoveLabel]
    BY <1>0, <2>1 DEF TtlTypeOK, End, Goto
  <2>5. TtlTypeOK'
    BY <1>0, <2>1, <2>2, <2>3, <2>4 DEF TtlTypeOK, Stored
  <2>6. LimitKept' /\ ShownNeverLater'
    BY <2>1, <2>2 DEF LimitKept, ShownNeverLater
  <2> QED
    BY <2>3, <2>5, <2>6 DEF TtlInv
<1> QED
  BY <1>1, <1>2, <1>3, <1>4, <1>5, <1>6 DEF ExtendDemo

LEMMA RemoveInv ==
  ASSUME TtlInv, NEW p \in Remover, Remove(p) \/ StopFailed(p)
  PROVE  TtlInv'
<1> p \in Proc
  BY DEF Proc
<1>0. TtlTypeOK
  BY DEF TtlInv
<1>1. CASE Get(p)
  BY <1>0, <1>1, QuietStep DEF Get, TtlTypeOK, RemoveLabel
<1>2. CASE Stop(p) \/ StopFailed(p)
  BY <1>0, <1>2, QuietStep DEF Stop, StopFailed, TtlTypeOK, RemoveLabel
<1>3. CASE RemoveFromStateSet(p)
  BY <1>0, <1>3, QuietStep DEF RemoveFromStateSet, TtlTypeOK, RemoveLabel
<1>4. CASE DeleteRecord(p)
  BY <1>0, <1>4
  DEF DeleteRecord, Goto, TtlInv, TtlTypeOK, RequestsOK, LimitKept, ShownNeverLater
<1> QED
  BY <1>1, <1>2, <1>3, <1>4 DEF Remove

LEMMA TtlStep == TtlInv /\ [Next]_vars => TtlInv'
<1> SUFFICES ASSUME TtlInv, [Next]_vars PROVE TtlInv'
  OBVIOUS
<1> USE TtlAssumption DEF TtlAssumption
<1>0. TtlTypeOK
  BY DEF TtlInv
<1>1. CASE Tick
  <2>1. clock \in Nat /\ clock' = clock + 1 /\ UNCHANGED <<record, listed, alive, pc, request, promise>>
    BY <1>0, <1>1 DEF Tick, TtlTypeOK
  <2>2. TtlTypeOK' /\ ShownNeverLater'
    BY <1>0, <2>1 DEF TtlInv, TtlTypeOK, ShownNeverLater
  <2>3. RequestsOK'
    BY <1>0, <2>1 DEF TtlInv, TtlTypeOK, RequestsOK, Request
  <2>4. LimitKept'
    BY <1>0, <2>1 DEF TtlInv, TtlTypeOK, LimitKept, Stored
  <2> QED
    BY <2>2, <2>3, <2>4 DEF TtlInv
<1>2. ASSUME NEW e \in Extender, ExtendDemo(e) PROVE TtlInv'
  BY <1>2, ExtendInv
<1>3. ASSUME NEW d \in Deleter, Delete(d) PROVE TtlInv'
  BY <1>0, <1>3, QuietStep DEF Delete, TtlTypeOK, RemoveLabel, Proc, Remover
<1>4. CASE List \/ Fetch
  BY <1>0, <1>4, QuietStep DEF List, Fetch, TtlTypeOK, RemoveLabel, Proc, Remover
<1>5. ASSUME NEW p \in Remover, Remove(p) \/ StopFailed(p) PROVE TtlInv'
  BY <1>5, RemoveInv
<1>6. ASSUME NEW p \in Proc, Abandon(p) PROVE TtlInv'
  BY <1>0, <1>6, QuietStep DEF Abandon, End, TtlTypeOK
<1>7. CASE UNCHANGED vars
  BY <1>7 DEF vars, TtlInv, TtlTypeOK, RequestsOK, LimitKept, ShownNeverLater
<1> QED
  BY <1>1, <1>2, <1>3, <1>4, <1>5, <1>6, <1>7 DEF Next

LEMMA TtlInvHolds == Spec => []TtlInv
<1>1. Init => TtlInv
  BY TtlInit
<1>2. TtlInv /\ [Next]_vars => TtlInv'
  BY TtlStep
<1> QED
  BY <1>1, <1>2, PTL DEF Spec

\* extendInstanceTTLAtomicScript and syncExpiresAtField together never take an expiry
\* beyond the limit, however many extensions overlap and whatever fails.
THEOREM LimitHolds == Spec => []LimitKept
<1>1. TtlInv => LimitKept
  BY DEF TtlInv
<1> QED
  BY <1>1, TtlInvHolds, PTL

\* No order of the scripts and syncs leaves expires_at later than expires_at_unix.
THEOREM ShownNeverLaterHolds == Spec => []ShownNeverLater
<1>1. TtlInv => ShownNeverLater
  BY DEF TtlInv
<1> QED
  BY <1>1, TtlInvHolds, PTL

=============================================================================
