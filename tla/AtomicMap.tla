------------------------------ MODULE AtomicMap ------------------------------
(***************************************************************************)
(* What a concurrent map promises: every lookup, update and removal, and   *)
(* the copy of the whole map, happens at one moment.                       *)
(***************************************************************************)
CONSTANTS Threads, Keys, Values, NoValue

VARIABLES
  map,      \* the value of each key, or NoValue
  answer    \* what each thread was told last: a value or a whole map

mapVars == <<map, answer>>

MapInit ==
  /\ map = [k \in Keys |-> NoValue]
  /\ answer = [t \in Threads |-> NoValue]

Get(t, k)    == answer' = [answer EXCEPT ![t] = map[k]] /\ UNCHANGED map
Put(k, v)    == map' = [map EXCEPT ![k] = v] /\ UNCHANGED answer
Delete(k)    == map' = [map EXCEPT ![k] = NoValue] /\ UNCHANGED answer
Snapshot(t)  == answer' = [answer EXCEPT ![t] = map] /\ UNCHANGED map

MapNext ==
  \/ \E t \in Threads : Snapshot(t) \/ \E k \in Keys : Get(t, k)
  \/ \E k \in Keys : Delete(k) \/ \E v \in Values : Put(k, v)

MapSpec == MapInit /\ [][MapNext]_mapVars
=============================================================================
