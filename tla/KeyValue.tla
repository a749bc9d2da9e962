------------------------------- MODULE KeyValue -------------------------------
(* What ChunkBackend (core/src/store/mod.rs:33) promises the store: a map from  *)
(* keys to values, on which every call takes effect at one instant between its  *)
(* invocation and its return, or fails. A power loss may bring back an earlier  *)
(* value of a key, or its absence, and nothing else.                            *)
EXTENDS FiniteSets

CONSTANTS Threads, Keys, Values, None,
          Present   \* the answer of exists for a key that is there

VARIABLES
  map,   \* [Keys -> Values \cup {None}]
  past,  \* [Keys -> what a power loss may bring back]
  req    \* [Threads -> the call in progress, or the last one and its result]

NoRequest == [op |-> "none", key |-> None, value |-> None,
              phase |-> "answered", result |-> "none"]

KVInit == /\ map = [k \in Keys |-> None]
          /\ past = [k \in Keys |-> {}]
          /\ req = [t \in Threads |-> NoRequest]

Invoke(t) ==
  /\ req[t].phase = "answered"
  /\ \E op \in {"put", "get", "delete", "exists"}, k \in Keys, v \in Values \cup {None} :
       req' = [req EXCEPT ![t] = [op |-> op, key |-> k, value |-> v,
                                  phase |-> "called", result |-> "none"]]
  /\ UNCHANGED <<map, past>>

Answer(t, res, v) ==
  /\ req[t].phase = "called"
  /\ req' = [req EXCEPT ![t].phase = "answered", ![t].result = res, ![t].value = v]

\* The map changes at key k, and the disk may not know yet.
Set(k, v) == /\ map' = [map EXCEPT ![k] = v]
             /\ past' = [past EXCEPT ![k] = @ \cup {map[k]}]

PutDone(t)    == req[t].op = "put" /\ Set(req[t].key, req[t].value) /\ Answer(t, "ok", None)
DeleteDone(t) == req[t].op = "delete" /\ Set(req[t].key, None) /\ Answer(t, "ok", None)
NothingToDelete(t) ==
  /\ req[t].op = "delete" /\ map[req[t].key] = None
  /\ Answer(t, "ok", None)
  /\ UNCHANGED <<map, past>>
GetDone(t) ==
  /\ req[t].op = "get" /\ Answer(t, "ok", map[req[t].key])
  /\ UNCHANGED <<map, past>>

ExistsDone(t) ==
  /\ req[t].op = "exists"
  /\ Answer(t, "ok", IF map[req[t].key] = None THEN None ELSE Present)
  /\ UNCHANGED <<map, past>>

\* A call that returns an error has done nothing.
Failed(t) == Answer(t, "err", None) /\ UNCHANGED <<map, past>>

\* The process dies: its calls are forgotten.
KilledAll(dead) ==
  /\ req' = [t \in Threads |-> IF t \in dead THEN NoRequest ELSE req[t]]
  /\ UNCHANGED <<map, past>>

Lost == /\ map' \in [Keys -> Values \cup {None}]
        /\ \A k \in Keys : map'[k] \in past[k] \cup {map[k]}
        /\ past' = [k \in Keys |-> {}]
        /\ req' = [t \in Threads |-> NoRequest]

KVNext ==
  \/ \E t \in Threads : \/ Invoke(t) \/ PutDone(t) \/ DeleteDone(t)
                        \/ NothingToDelete(t) \/ GetDone(t) \/ ExistsDone(t)
                        \/ Failed(t)
  \/ \E dead \in SUBSET Threads : KilledAll(dead)
  \/ Lost

KVStep == [KVNext]_<<map, past, req>>

KVSpec == KVInit /\ [][KVStep]_<<map, past, req>>
===============================================================================
