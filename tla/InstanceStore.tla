--------------------------- MODULE InstanceStore ---------------------------
(***************************************************************************)
(* The Valkey side of internal/store/valkey.go.  Every operator below is   *)
(* one command, or one Lua script, and so one indivisible step of the      *)
(* server.  The Go methods that issue several commands are split into      *)
(* several steps of the processes in WarmPool, because other clients' com- *)
(* mands may come in between.                                              *)
(*                                                                         *)
(* A record keeps what the pool logic reads: the state, the host port and  *)
(* whether an expiry time was ever set.  The other fields of               *)
(* domain.Instance never influence a decision.                             *)
(***************************************************************************)
EXTENDS Naturals, Sequences, FiniteSets

CONSTANTS
  Id,     \* instance identifiers; hostname, container id and DB prefix go with them
  Port,   \* the configured host port range
  None    \* absence: of a record, of an identifier, of a binding

VARIABLES
  record,           \* instance:{id}      -> the stored record, or None
  poolReady,        \* pool:ready         -> list of ids, oldest first
  stateSet,         \* state:{state}      -> set of ids
  portsAvailable,   \* ports:available    -> set of ports
  portsInUse        \* ports:in_use       -> set of ports

store == <<record, poolReady, stateSet, portsAvailable, portsInUse>>

State == {"warming", "ready", "assigned"}

Record == [state: State, port: Port, expires: BOOLEAN]

ASSUME NoneAssumption == None \notin Id \cup Port \cup Record

Elements(q) == {q[k] : k \in DOMAIN q}

StoreTypeOK ==
  /\ record \in [Id -> Record \cup {None}]
  /\ poolReady \in Seq(Id)
  /\ stateSet \in [State -> SUBSET Id]
  /\ portsAvailable \subseteq Port
  /\ portsInUse \subseteq Port

\* A fresh database after InitializePorts: every port of the range is available.
StoreInit ==
  /\ record = [i \in Id |-> None]
  /\ poolReady = <<>>
  /\ stateSet = [s \in State |-> {}]
  /\ portsAvailable = Port
  /\ portsInUse = {}

-----------------------------------------------------------------------------
(* Commands on one record and on the state sets.                           *)

Set(i, r) ==
  /\ record' = [record EXCEPT ![i] = r]
  /\ UNCHANGED <<poolReady, stateSet, portsAvailable, portsInUse>>

Del(i) == Set(i, None)

SAddState(s, i) ==
  /\ stateSet' = [stateSet EXCEPT ![s] = @ \cup {i}]
  /\ UNCHANGED <<record, poolReady, portsAvailable, portsInUse>>

SRemState(s, i) ==
  /\ stateSet' = [stateSet EXCEPT ![s] = @ \ {i}]
  /\ UNCHANGED <<record, poolReady, portsAvailable, portsInUse>>

\* Mutant of RPush: the id enters at the head of the list.
LPush(i) ==
  /\ poolReady' = <<i>> \o poolReady
  /\ UNCHANGED <<record, stateSet, portsAvailable, portsInUse>>

RPush(i) ==
  /\ poolReady' = Append(poolReady, i)
  /\ UNCHANGED <<record, stateSet, portsAvailable, portsInUse>>

-----------------------------------------------------------------------------
(* acquireFromPoolScript.                                                  *)

\* The list is empty: the script answers nil and changes nothing.
PopNothing == poolReady = <<>> /\ UNCHANGED store

\* The head has no record: the script puts the id back at the tail and answers nil.
PopGhost ==
  /\ poolReady # <<>>
  /\ record[Head(poolReady)] = None
  /\ poolReady' = Append(Tail(poolReady), Head(poolReady))
  /\ UNCHANGED <<record, stateSet, portsAvailable, portsInUse>>

\* Mutant of Assigned: a state outside the life cycle.
AssignedAsExpired(r) == [r EXCEPT !.state = "expired"]

Assigned(r) == [r EXCEPT !.state = "assigned"]

\* Mutant of PopInstance: LINDEX in place of LPOP.
PeekInstance ==
  LET i == Head(poolReady) IN
  /\ poolReady # <<>>
  /\ record[i] # None
  /\ record' = [record EXCEPT ![i] = Assigned(@)]
  /\ stateSet' = [s \in State |->
                    IF s = "assigned" THEN stateSet[s] \cup {i} ELSE stateSet[s] \ {i}]
  /\ UNCHANGED <<poolReady, portsAvailable, portsInUse>>

\* Mutant of PopInstance: the SREM of the old state is forgotten.
PopInstanceNoSRem ==
  LET i == Head(poolReady) IN
  /\ poolReady # <<>>
  /\ record[i] # None
  /\ poolReady' = Tail(poolReady)
  /\ record' = [record EXCEPT ![i] = Assigned(@)]
  /\ stateSet' = [stateSet EXCEPT !["assigned"] = @ \cup {i}]
  /\ UNCHANGED <<portsAvailable, portsInUse>>

\* The head has a record: it leaves the list and its record and its state set
\* membership change to assigned, all in one step.
PopInstance ==
  LET i == Head(poolReady) IN
  /\ poolReady # <<>>
  /\ record[i] # None
  /\ poolReady' = Tail(poolReady)
  /\ record' = [record EXCEPT ![i] = Assigned(@)]
  /\ stateSet' = [s \in State |->
                    IF s = "assigned" THEN stateSet[s] \cup {i}
                    ELSE IF s = record[i].state THEN stateSet[s] \ {i}
                    ELSE stateSet[s]]
  /\ UNCHANGED <<portsAvailable, portsInUse>>

-----------------------------------------------------------------------------
(* The two port sets: AllocatePort is SPop then STrack, ReleasePort is     *)
(* SUntrack then SReturn.                                                  *)

\* Mutant of SPopPort: SRANDMEMBER in place of SPOP.
SRandMemberPort(n) == n \in portsAvailable /\ UNCHANGED store

SPopPort(n) ==
  /\ n \in portsAvailable
  /\ portsAvailable' = portsAvailable \ {n}
  /\ UNCHANGED <<record, poolReady, stateSet, portsInUse>>

STrackPort(n) ==
  /\ portsInUse' = portsInUse \cup {n}
  /\ UNCHANGED <<record, poolReady, stateSet, portsAvailable>>

SUntrackPort(n) ==
  /\ portsInUse' = portsInUse \ {n}
  /\ UNCHANGED <<record, poolReady, stateSet, portsAvailable>>

\* Mutant of SReturnPort: the port never comes back.
SReturnPortForgotten(n) == n \in Port /\ UNCHANGED store

SReturnPort(n) ==
  /\ portsAvailable' = portsAvailable \cup {n}
  /\ UNCHANGED <<record, poolReady, stateSet, portsInUse>>

=============================================================================
