----------------------------- MODULE OrderedMap -----------------------------
(***************************************************************************)
(* What a Styio dict promises, whichever backend holds it: a finite map    *)
(* whose keys keep the order in which they were first set.  A lookup       *)
(* answers with the value set last, or that there is none.                 *)
(***************************************************************************)
EXTENDS Sequences

CONSTANTS Keys, Values, Missing

VARIABLES order,    \* the keys, first set first
          value,    \* Keys -> Values \cup {Missing}
          answer    \* what the last lookup returned

mapVars == <<order, value, answer>>

MapInit ==
  /\ order = <<>>
  /\ value = [k \in Keys |-> Missing]
  /\ answer = Missing

\* A new dict takes the place of the old one.
Renew ==
  /\ order' = <<>>
  /\ value' = [k \in Keys |-> Missing]
  /\ UNCHANGED answer

Assign(k, v) ==
  /\ order' = IF value[k] = Missing THEN Append(order, k) ELSE order
  /\ value' = [value EXCEPT ![k] = v]
  /\ UNCHANGED answer

Inquire(k) ==
  /\ answer' = value[k]
  /\ UNCHANGED <<order, value>>

MapNext ==
  \/ Renew
  \/ \E k \in Keys : Inquire(k) \/ \E v \in Values : Assign(k, v)

MapSpec == MapInit /\ [][MapNext]_mapVars
=============================================================================
