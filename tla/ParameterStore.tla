---------------------------- MODULE ParameterStore ----------------------------
(***************************************************************************)
(* What the parameter accessors of wpc.h promise: the node is a store of    *)
(* values.  A getter that returns APP_RES_OK gives the value of the         *)
(* parameter and any other result leaves the caller's variable alone; a     *)
(* setter that returns APP_RES_OK has stored the value it was given, and an  *)
(* error has stored nothing, unless it is the internal error of a lost      *)
(* answer, which leaves that open.  Only legal values are ever stored.      *)
(***************************************************************************)
EXTENDS Integers, Sequences, SequencesExt

CONSTANTS
  Params,
  ListSize,  \* [parameters with a list for a value -> its length]: stored
             \* padded with zeros, and a getter gives as much of it as the
             \* caller has room for
  Items,     \* parameters that can be absent, and can be listed
  Keys,      \* parameters that are never given, only whether they are set
  Removing,  \* values that remove a parameter instead of setting it
  Legal      \* [Params -> sets of values]: what may be stored

VARIABLES
  value,
  answer     \* what the last call returned

Absent == <<>>
Padded(v, n) == [i \in 1..n |-> IF i <= Len(v) THEN v[i] ELSE 0]
Stored(p, v) == IF v \in Removing THEN Absent
                ELSE IF p \in DOMAIN ListSize THEN Padded(v, ListSize[p]) ELSE v
Room(p, room) == IF p \in DOMAIN ListSize /\ room < ListSize[p] THEN room ELSE Len(value[p])

(* The getter of the reserved channels clears the buffer before it asks.    *)
Cleared(p) == IF p = "reserved_channels" THEN Padded(<<>>, answer'.arg) ELSE Absent

Init == answer = [op |-> "none"] /\ value \in [Params -> Seq(Int)]

(* arg is the room for a getter, the value for a setter.                    *)
Get(p) ==
  /\ answer'.op = "get" /\ p \notin Keys
  /\ answer'.out \in IF answer'.res = "OK"
                      THEN {SubSeq(value[p], 1, Room(p, answer'.arg))} ELSE {Absent, Cleared(p)}
  /\ answer'.res = "OK" => value[p] # Absent
  /\ UNCHANGED value

(* A key that is said to be set is set.  Not the converse: see IsKeySet.    *)
AskIsSet(p) ==
  /\ answer'.op = "is_set" /\ p \in Keys
  /\ answer'.out = <<1>> => answer'.res = "OK" /\ value[p] # Absent
  /\ UNCHANGED value

Set(p) ==
  /\ answer'.op = "set"
  /\ LET v == answer'.arg
         Stores == v \in Legal[p] /\ value' = [value EXCEPT ![p] = Stored(p, v)]
     IN  CASE answer'.res = "OK"             -> Stores
           [] answer'.res = "INTERNAL_ERROR" -> UNCHANGED value \/ Stores
           [] OTHER                          -> UNCHANGED value

(* The list has every item that is stored, when it is given.                *)
List ==
  /\ answer'.op = "list"
  /\ answer'.res = "OK" => ToSet(answer'.out) = {p \in Items : value[p] # Absent}
  /\ UNCHANGED value

(* A factory reset, or a node that boots with another firmware or measures  *)
(* something else.                                                         *)
Reset ==
  /\ answer'.op \in {"reset", "boot"} /\ value' \in [Params -> Seq(Int)]
  /\ answer'.op = "reset" /\ answer'.res \notin {"OK", "INTERNAL_ERROR"} => UNCHANGED value
Other == answer'.op \in {"none", "begin"} /\ UNCHANGED value

Next ==
  \/ Other \/ List \/ Reset
  \/ \E p \in {answer'.param} : Get(p) \/ AskIsSet(p) \/ Set(p)

Spec == Init /\ [][Next]_<<value, answer>>
===============================================================================
