------------------------------ MODULE NodeAccess ------------------------------
(***************************************************************************)
(* The parameter accessors and services of the host API (wpc.c over msap.c, *)
(* csap.c and attribute.c) against one node.                               *)
(*                                                                         *)
(* A request is one step, because sending_mutex is held around it; a call   *)
(* of several requests is several steps, and calls of several threads       *)
(* interleave between them.  What the node holds is octets, as on the line: *)
(* OctetBase is 256 scaled down, so that 32 bit values have four digits.    *)
(* The node is external: it executes a request or refuses it with a code,   *)
(* and the request or its confirm can be lost.                             *)
(***************************************************************************)
EXTENDS Integers, Sequences, FiniteSets, SequencesExt, TLC

CONSTANTS
  Threads,
  OctetBase,
  Refusals,       \* result codes of a node that refuses a request
  Values,         \* [parameter -> values the callers set]
  Rooms,          \* sizes of the callers' buffers
  Odd,            \* read-only parameters that this node holds one octet longer
  MAXIMUM_APP_CONFIG_SIZE, MAXIMUM_CDC_ITEM_PAYLOAD_SIZE,
  MAXIMUM_NUMBER_OF_MULTICAST_GROUPS, RESERVED_CHANNELS_MAX_NUM_BYTES,
  MaxChanged      \* cells of the node that differ from their first value, the
                  \* size of the application configuration not counted

ASSUME BaseAssumption == OctetBase \in Nat \ {0} /\ OctetBase % 2 = 0

-------------------------------------------------------------------------------
(* The parameters: service access point, attribute id, size on the line,     *)
(* and how the octets are given to the caller.                             *)
Csap(id, size, codec) == [sap |-> "csap", id |-> id, size |-> size, codec |-> codec]
Msap(id, size, codec) == [sap |-> "msap", id |-> id, size |-> size, codec |-> codec]

NetworkParams ==
  [role |-> Csap(4, 1, "int"), node_address |-> Csap(1, 4, "int"),
   network_address |-> Csap(2, 3, "int"), network_channel |-> Csap(3, 1, "int")]
InformationParams ==
  [mtu |-> Csap(5, 1, "int"), pdu_buffer_size |-> Csap(6, 1, "int"),
   scratchpad_sequence |-> Csap(7, 1, "int"), mesh_API_version |-> Csap(8, 2, "int")]
KeyParams ==
  [cipher_key |-> Csap(13, 16, "raw"), authentication_key |-> Csap(14, 16, "raw")]
ChannelLimits == [channel_limits |-> Csap(15, 2, "raw")]
HardwareParams ==
  [app_config_data_size |-> Csap(16, 1, "int"), hw_magic |-> Csap(17, 2, "int"),
   stack_profile |-> Csap(18, 2, "int"), channel_map |-> Csap(21, 4, "int")]
ReservedChannels ==
  [reserved_channels |-> Csap(25, RESERVED_CHANNELS_MAX_NUM_BYTES, "raw")]
KeyPairs == [network_key_pair |-> Csap(26, 33, "raw"), management_key_pair |-> Csap(27, 33, "raw")]
AppConfig == [app_config_data |-> [sap |-> "app_config", id |-> 0, codec |-> "config",
                                   size |-> 2 + MAXIMUM_APP_CONFIG_SIZE]]
SinkCost == [sink_cost |-> [sap |-> "cost", id |-> 0, size |-> 1, codec |-> "int"]]
StatusParams ==
  [stack_status |-> Msap(1, 1, "int"), PDU_buffer_usage |-> Msap(2, 1, "int"),
   PDU_buffer_capacity |-> Msap(3, 1, "int"), remaining_energy |-> Msap(5, 1, "int"),
   autostart |-> Msap(6, 1, "int"), route_count |-> Msap(7, 1, "int")]
TimeParams ==
  [system_time |-> Msap(8, 4, "seconds"), access_cycle_range |-> Msap(9, 4, "pair"),
   access_cycle_limits |-> Msap(10, 4, "pair"), current_access_cycle |-> Msap(11, 2, "int"),
   scratchpad_block_max |-> Msap(12, 1, "int")]
MulticastGroups ==
  [multicast_groups |-> Msap(13, 4 * MAXIMUM_NUMBER_OF_MULTICAST_GROUPS, "groups")]
ScratchpadSize == [scratchpad_size |-> Msap(14, 4, "int")]
Structures ==
  [local_scratchpad_status |-> [sap |-> "pad", id |-> 0, size |-> 3, codec |-> "raw"],
   target_scratchpad |-> [sap |-> "target", id |-> 0, size |-> 4, codec |-> "raw"],
   neighbors |-> [sap |-> "nbors", id |-> 0, size |-> 2, codec |-> "raw"]]
ItemParams ==
  [item1 |-> [sap |-> "item", id |-> 1, size |-> 0, codec |-> "raw"],
   item2 |-> [sap |-> "item", id |-> 2, size |-> 0, codec |-> "raw"]]

Table ==
  NetworkParams @@ InformationParams @@ KeyParams @@ ChannelLimits @@ HardwareParams
  @@ ReservedChannels @@ KeyPairs @@ AppConfig @@ SinkCost @@ StatusParams @@ TimeParams
  @@ MulticastGroups @@ ScratchpadSize @@ Structures @@ ItemParams
Params == DOMAIN Table
Keys == DOMAIN KeyParams \cup DOMAIN KeyPairs
Items == DOMAIN ItemParams
Lists == {"reserved_channels", "multicast_groups", "app_config_data"}
Attributes == {p \in Params : Table[p].sap \in {"csap", "msap"}}
ReadOnly == DOMAIN InformationParams \cup DOMAIN ChannelLimits \cup DOMAIN ScratchpadSize
  \cup (DOMAIN TimeParams \ {"access_cycle_range"})
  \cup (DOMAIN StatusParams \ {"remaining_energy", "autostart"})
  \cup (DOMAIN HardwareParams \ {"channel_map"}) \cup {"local_scratchpad_status", "neighbors"}

Cell(p) == <<Table[p].sap, Table[p].id>>
Cells == {Cell(p) : p \in Params}

VARIABLES
  memory,   \* [Cells -> octets the node holds, Absent if not set]
  call,     \* [Threads -> call of two requests between them, or Idle]
  answer    \* what the last call returned

vars == <<memory, call, answer>>

Absent == <<>>
Idle == [op |-> "idle"]
None == [op |-> "none"]
Answer(op, p, arg, res, out) ==
  [op |-> op, param |-> p, arg |-> arg, res |-> res, out |-> out]

-------------------------------------------------------------------------------
(* Conversions                                                             *)

encode_be(v, n) == [i \in 1..n |-> (v \div OctetBase ^ (n - i)) % OctetBase]
encode_le(v, n) == [i \in 1..n |-> (v \div OctetBase ^ (i - 1)) % OctetBase]
decode_le(s) == FoldRight(LAMBDA o, v : o + OctetBase * v, s, 0)
internal_time_to_s(t) == t \div (OctetBase \div 2)

Padded(v, n) == [i \in 1..n |-> IF i <= Len(v) THEN v[i] ELSE 0]

(* A group address 0x80xxxxxx goes without its highest octet.               *)
Top == OctetBase ^ 3
IsMulticast(addr) == addr \div Top = OctetBase \div 2
ToGroup(addr) == IF addr = 0 THEN 0 ELSE addr % Top
FromGroup(g) == IF g = 0 \/ g \div Top >= OctetBase \div 2 THEN g
                ELSE g + Top * (OctetBase \div 2)

Encode(p, v) ==
  LET e == Table[p]
  IN  CASE e.codec = "int"    -> encode_le(v[1], e.size)
        [] e.codec = "pair"   -> encode_le(v[1], 2) \o encode_le(v[2], 2)
        [] e.codec = "groups" ->
             LET g == Padded(v, MAXIMUM_NUMBER_OF_MULTICAST_GROUPS)
             IN  FlattenSeq([i \in DOMAIN g |-> encode_le(ToGroup(g[i]), 4)])
        [] e.codec = "config" -> Padded(v, e.size)
        [] OTHER              -> v

Decode(p, s) ==
  LET e == Table[p]
  IN  CASE s = Absent          -> Absent
        [] e.codec = "int"     -> <<decode_le(s)>>
        [] e.codec = "seconds" -> <<internal_time_to_s(decode_le(s))>>
        [] e.codec = "pair"    -> <<decode_le(SubSeq(s, 1, 2)), decode_le(SubSeq(s, 3, 4))>>
        [] e.codec = "groups"  -> [i \in 1..(Len(s) \div 4) |->
                                     FromGroup(decode_le(SubSeq(s, 4 * i - 3, 4 * i)))]
        [] OTHER               -> s

-------------------------------------------------------------------------------
(* Result codes: the application code for a code of the node, which is      *)
(* INTERNAL_ERROR for a negative one or one the table does not have.       *)
convert_error_code(lut, code) ==
  IF code \in 0..(Len(lut) - 1) THEN lut[code + 1] ELSE "INTERNAL_ERROR"

ATT_READ == <<"OK", "INTERNAL_ERROR", "STACK_NOT_STOPPED", "INTERNAL_ERROR",
              "ATTRIBUTE_NOT_SET", "ACCESS_DENIED", "ACCESS_DENIED">>
ATT_WRITE == <<"OK", "INTERNAL_ERROR", "STACK_NOT_STOPPED", "INTERNAL_ERROR",
               "INVALID_VALUE", "INTERNAL_ERROR", "ACCESS_DENIED">>
FACT_RESET == <<"OK", "STACK_NOT_STOPPED", "INTERNAL_ERROR", "ACCESS_DENIED">>
APP_CONFIG_READ == <<"OK", "NO_CONFIG", "ACCESS_DENIED">>
APP_CONFIG_WRITE == <<"OK", "NODE_NOT_A_SINK", "INVALID_DIAG_INTERVAL",
                      "INVALID_SEQ", "ACCESS_DENIED">>
SINK_COST == <<"OK", "NODE_NOT_A_SINK", "ACCESS_DENIED">>
TARGET_SCRATCHPAD == <<"OK", "NODE_NOT_A_SINK", "INVALID_VALUE", "ACCESS_DENIED">>
CDC_ITEM_SET == <<"OK", "NODE_NOT_A_SINK", "INVALID_VALUE", "OUT_OF_MEMORY",
                  "DATA_ERROR", "OPERATION_NOT_SUPPORTED">>
CDC_ITEM_GET == <<"OK", "INVALID_VALUE", "OPERATION_NOT_SUPPORTED">>
CDC_GET_ITEM_LIST == <<"OK", "OPERATION_NOT_SUPPORTED">>
OnlyOK == <<"OK">>

WPC_INT_GEN_ERROR == -1
WPC_INT_TIMEOUT_ERROR == -2
WPC_INT_WRONG_PARAM_ERROR == -4
WPC_INT_WRONG_BUFFER_SIZE == -6

(* What can become of a request: executed and confirmed, refused, or lost   *)
(* before or after it was executed.                                        *)
Outcomes ==
  {[done |-> TRUE, code |-> 0]} \cup {[done |-> FALSE, code |-> c] : c \in Refusals}
  \cup {[done |-> d, code |-> WPC_INT_TIMEOUT_ERROR] : d \in BOOLEAN}

(* Getters: attribute_read_request takes only a value of the length asked   *)
(* for.  A parameter that is not set is refused by the node with `unset'.   *)
ReadCode(p, o, unset) ==
  IF o.code # 0 THEN o.code
  ELSE IF memory[Cell(p)] = Absent THEN unset ELSE 0
AttributeReadCode(p, o, size) ==
  LET c == ReadCode(p, o, 4)
  IN  IF c = 0 /\ Len(memory[Cell(p)]) # size THEN WPC_INT_GEN_ERROR ELSE c

Returns(op, p, arg, res, out) ==
  /\ answer' = Answer(op, p, arg, res, out)
  /\ UNCHANGED <<memory, call>>
Gives(p, room, res, v) == Returns("get", p, room, res, IF res = "OK" THEN v ELSE Absent)
Value(p) == Decode(p, memory[Cell(p)])

GetAttribute(p) ==
  /\ p \in Attributes \ (Lists \cup Keys)
  /\ \E o \in Outcomes :
       LET code == AttributeReadCode(p, o, Table[p].size)
       IN  Gives(p, Table[p].size, convert_error_code(ATT_READ, code), Value(p))
GetReservedChannels(size) ==
  LET p == "reserved_channels"
  IN  IF size > RESERVED_CHANNELS_MAX_NUM_BYTES
      THEN Returns("get", p, size, "INVALID_VALUE", Absent)
      ELSE \E o \in Outcomes :
             LET code == AttributeReadCode(p, o, size)
             IN  CASE code = 0 -> Gives(p, size, "OK", Value(p))
                   [] code = 4 -> Returns("get", p, size, "INVALID_VALUE", Padded(<<>>, size))
                   [] OTHER    -> Returns("get", p, size, convert_error_code(ATT_READ, code),
                                          Padded(<<>>, size))

GetMulticastGroups(num) ==
  LET p == "multicast_groups"
      n == Min({num, MAXIMUM_NUMBER_OF_MULTICAST_GROUPS})
  IN  \E o \in Outcomes :
        Gives(p, num, convert_error_code(ATT_READ, AttributeReadCode(p, o, Table[p].size)),
              SubSeq(Value(p), 1, n))

(* The keys cannot be read: the code of the refusal tells whether one is    *)
(* set.  Any other refusal counts as "not set".                            *)
IsKeySet(p) ==
  /\ p \in DOMAIN KeyParams
  /\ \E o \in Outcomes :
       LET code == IF o.code # 0 THEN o.code
                   ELSE IF memory[Cell(p)] = Absent THEN 4 ELSE 5
       IN  IF code < 0 THEN Returns("is_set", p, 0, "INTERNAL_ERROR", Absent)
           ELSE Returns("is_set", p, 0, "OK", <<IF code = 5 THEN 1 ELSE 0>>)

GetSinkCost ==
  \E o \in Outcomes :
    Gives("sink_cost", 1, convert_error_code(SINK_COST, ReadCode("sink_cost", o, 1)),
          Value("sink_cost"))

(* Of the next three any error is an internal one.                          *)
Reads(p) ==
  \E o \in Outcomes :
    Gives(p, 0, convert_error_code(OnlyOK, ReadCode(p, o, 1)), Value(p))
GetLocalScratchpadStatus == Reads("local_scratchpad_status")
ReadTargetScratchpad == Reads("target_scratchpad")
GetNeighbors == Reads("neighbors")

GetItem(p, capacity) ==
  \E o \in Outcomes :
    LET c == ReadCode(p, o, 1)
        code == IF c = 0 /\ Len(memory[Cell(p)]) > capacity THEN WPC_INT_WRONG_BUFFER_SIZE ELSE c
    IN  Gives(p, capacity, convert_error_code(CDC_ITEM_GET, code), Value(p))

(* The octets of the list are compared with a capacity in endpoints.        *)
GetItemList(capacity) ==
  LET items == {p \in Items : memory[Cell(p)] # Absent}
  IN  \E o \in Outcomes :
        LET res == convert_error_code(CDC_GET_ITEM_LIST, o.code)
        IN  IF res = "OK" /\ 2 * Cardinality(items) > capacity
            THEN Returns("list", "items", capacity, "INTERNAL_ERROR", Absent)
            ELSE Returns("list", "items", capacity, res,
                         IF res = "OK" THEN SetToSeq(items) ELSE Absent)

-------------------------------------------------------------------------------
(* Setters                                                                 *)

(* What the node keeps: a key of all ones is the "disable" key of           *)
(* WPC_remove_..., and channels not given are not reserved.                *)
Kept(p, s) ==
  CASE p \in DOMAIN KeyParams /\ \A i \in DOMAIN s : s[i] = OctetBase - 1 -> Absent
    [] p = "reserved_channels" -> Padded(s, RESERVED_CHANNELS_MAX_NUM_BYTES)
    [] OTHER -> s

Factory ==
  LET Unset == {"role", "node_address", "network_address", "app_config_data"} \cup Keys \cup Items
      First(p) == IF p \in Unset THEN Absent
                  ELSE [i \in 1..(Table[p].size + IF p \in Odd THEN 1 ELSE 0) |->
                          IF p \in Lists THEN 0
                          ELSE IF p = "app_config_data_size" THEN MAXIMUM_APP_CONFIG_SIZE - 1
                          ELSE (Table[p].id + i) % OctetBase]
  IN  [c \in Cells |-> First(CHOOSE p \in Params : Cell(p) = c)]

Holds(m) ==
  /\ Cardinality({c \in Cells \ {Cell("app_config_data_size")} : m[c] # Factory[c]}) <= MaxChanged
  /\ memory' = m
Sets(p, v, o, res) ==
  /\ IF o.done THEN Holds([memory EXCEPT ![Cell(p)] = Kept(p, Encode(p, v))])
     ELSE UNCHANGED memory
  /\ answer' = Answer("set", p, v, res, Absent)
Writes(p, v, lut) ==
  /\ \E o \in Outcomes : Sets(p, v, o, convert_error_code(lut, o.code))
  /\ UNCHANGED call
Refuses(p, v, res) == Returns("set", p, v, res, Absent)

NetworkAddressUnchecked(v) == TRUE
NetworkAddressFits(v) == v[1] \div OctetBase ^ 3 = 0
SetAttribute(p, v) ==
  /\ p \in Attributes \ (ReadOnly \cup Lists \cup DOMAIN KeyPairs)
  /\ IF p = "network_address" /\ ~NetworkAddressFits(v)
     THEN Refuses(p, v, "INVALID_VALUE") ELSE Writes(p, v, ATT_WRITE)

SetReservedChannels(v) ==
  LET p == "reserved_channels"
  IN  IF Len(v) > RESERVED_CHANNELS_MAX_NUM_BYTES
      THEN Refuses(p, v, "INVALID_VALUE") ELSE Writes(p, v, ATT_WRITE)

SetMulticastGroups(v) ==
  LET p == "multicast_groups"
  IN  IF \/ Len(v) > MAXIMUM_NUMBER_OF_MULTICAST_GROUPS
         \/ \E i \in DOMAIN v : v[i] # 0 /\ ~IsMulticast(v[i])
      THEN Refuses(p, v, "INVALID_VALUE") ELSE Writes(p, v, ATT_WRITE)

(* The caller may pass NULL for a key pair.                                 *)
SetKeyPair(p, v) ==
  /\ p \in DOMAIN KeyPairs
  /\ IF v = Absent THEN Refuses(p, v, "INTERNAL_ERROR") ELSE Writes(p, v, ATT_WRITE)

SetSinkCost(v) == Writes("sink_cost", v, SINK_COST)
WriteTargetScratchpad(v) == Writes("target_scratchpad", v, TARGET_SCRATCHPAD)

SetItem(p, v) ==
  /\ p \in Items
  /\ IF Len(v) > MAXIMUM_CDC_ITEM_PAYLOAD_SIZE
     THEN Refuses(p, v, convert_error_code(CDC_ITEM_SET, WPC_INT_WRONG_PARAM_ERROR))
     ELSE Writes(p, v, CDC_ITEM_SET)

FactoryReset ==
  \E o \in Outcomes :
    /\ memory' = IF o.done THEN Factory ELSE memory
    /\ answer' = Answer("reset", "all", 0, convert_error_code(FACT_RESET, o.code), Absent)
    /\ UNCHANGED call

-------------------------------------------------------------------------------
(* The application configuration: the largest size is read first.           *)
AsksSize(t, op, arg, Fits(_), Fails(_)) ==
  /\ call[t] = Idle
  /\ \E o \in Outcomes :
       LET code == AttributeReadCode("app_config_data_size", o, 1)
           res == convert_error_code(ATT_READ, code)
       IN  IF res # "OK" THEN Fails(res)
           ELSE IF ~Fits(Value("app_config_data_size")[1]) THEN Fails("INVALID_VALUE")
           ELSE /\ call' = [call EXCEPT ![t] = [op |-> op, arg |-> arg]]
                /\ answer' = Answer("begin", "app_config_data", 0, "", Absent)
                /\ UNCHANGED memory
Ends(t) == call' = [call EXCEPT ![t] = Idle]

(* The room of a getter counts the two words in front of the data.          *)
BeginGetAppConfig(t, size) ==
  LET Fits(max) == size >= max
      Fails(res) == Returns("get", "app_config_data", size + 2, res, Absent)
  IN  AsksSize(t, "get", size, Fits, Fails)
FinishGetAppConfig(t) ==
  /\ call[t].op = "get" /\ Ends(t) /\ UNCHANGED memory
  /\ \E o \in Outcomes :
       LET p == "app_config_data"
           res == convert_error_code(APP_CONFIG_READ, ReadCode(p, o, 1))
           n == 2 + Min({call[t].arg, MAXIMUM_APP_CONFIG_SIZE})
       IN  answer' = Answer("get", p, call[t].arg + 2, res,
                            IF res = "OK" THEN SubSeq(Value(p), 1, n) ELSE Absent)

BeginSetAppConfig(t, v) ==
  LET Fits(max) == Len(v) - 2 <= max
      Fails(res) == Returns("set", "app_config_data", v, res, Absent)
  IN  AsksSize(t, "set", v, Fits, Fails)
FinishSetAppConfig(t) ==
  /\ call[t].op = "set" /\ Ends(t)
  /\ \E o \in Outcomes :
       Sets("app_config_data", call[t].arg, o, convert_error_code(APP_CONFIG_WRITE, o.code))

(* The node: a measured value, or one its firmware decides, changes.        *)
NodeChanges(p) ==
  /\ p \in ReadOnly /\ memory[Cell(p)] = Factory[Cell(p)]
  /\ Holds([memory EXCEPT ![Cell(p)] = [i \in DOMAIN @ |-> (@[i] + 1) % OctetBase]])
  /\ answer' = Answer("boot", p, 0, "", Absent)
  /\ UNCHANGED call

-------------------------------------------------------------------------------
Init ==
  /\ memory = Factory
  /\ call = [t \in Threads |-> Idle]
  /\ answer = None

(* The caller looks at what was returned before anything else happens:      *)
(* answer is history, no state of the program.                             *)
Returned == answer # None /\ answer' = None /\ UNCHANGED <<memory, call>>

Calls ==
  \/ \E p \in Params : GetAttribute(p) \/ IsKeySet(p) \/ NodeChanges(p)
  \/ \E n \in Rooms : GetReservedChannels(n) \/ GetMulticastGroups(n) \/ GetItemList(n)
  \/ \E p \in Items, n \in Rooms : GetItem(p, n)
  \/ GetSinkCost \/ GetLocalScratchpadStatus \/ ReadTargetScratchpad \/ GetNeighbors
  \/ \E p \in DOMAIN Values : \E v \in Values[p] : SetAttribute(p, v) \/ SetKeyPair(p, v) \/ SetItem(p, v)
  \/ \E v \in Values["reserved_channels"] : SetReservedChannels(v)
  \/ \E v \in Values["multicast_groups"] : SetMulticastGroups(v)
  \/ \E v \in Values["sink_cost"] : SetSinkCost(v)
  \/ \E v \in Values["target_scratchpad"] : WriteTargetScratchpad(v)
  \/ FactoryReset
  \/ \E t \in Threads, n \in Rooms : BeginGetAppConfig(t, n)
  \/ \E t \in Threads : \E v \in Values["app_config_data"] : BeginSetAppConfig(t, v)
  \/ \E t \in Threads : FinishGetAppConfig(t) \/ FinishSetAppConfig(t)
Next == Returned \/ (answer = None /\ Calls)

Spec == Init /\ [][Next]_vars

-------------------------------------------------------------------------------
(* The values the comments of wpc.h allow.                                  *)
Documented(p, v) ==
  CASE p = "network_address"   -> v[1] < OctetBase ^ 3
    [] p = "multicast_groups"  ->
         /\ Len(v) <= MAXIMUM_NUMBER_OF_MULTICAST_GROUPS
         /\ \A i \in DOMAIN v : v[i] = 0 \/ v[i] - Top * (OctetBase \div 2) \in 1..(Top - 1)
    [] p = "reserved_channels" -> Len(v) <= RESERVED_CHANNELS_MAX_NUM_BYTES
    [] p = "app_config_data"   -> Len(v) <= 2 + MAXIMUM_APP_CONFIG_SIZE
    [] p \in Items             -> Len(v) <= MAXIMUM_CDC_ITEM_PAYLOAD_SIZE
    [] p \in DOMAIN KeyPairs   -> v # Absent
    [] OTHER                   -> TRUE

(* The accessors implement the store that wpc.h describes: whatever threads *)
(* call them and whatever requests are refused or lost, a getter that       *)
(* succeeds gives what a setter that succeeded put there, octet order,      *)
(* padding and address conversion included, and an error has no effect.    *)
Store == INSTANCE ParameterStore WITH
  ListSize <- [p \in Lists |-> IF p = "multicast_groups"
                               THEN MAXIMUM_NUMBER_OF_MULTICAST_GROUPS ELSE Table[p].size],
  Removing <- {Absent, [i \in 1..16 |-> OctetBase - 1]},
  value <- [p \in Params |-> Decode(p, memory[Cell(p)])],
  Legal <- [p \in Params |-> IF p \in DOMAIN Values
                             THEN {v \in Values[p] : Documented(p, v)} ELSE {}]
ImplementsStore == Store!Spec
===============================================================================
