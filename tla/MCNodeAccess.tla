----------------------------- MODULE MCNodeAccess -----------------------------
EXTENDS NodeAccess
(* Octets have 16 values: 4096 is the first network address too long, and   *)
(* 32768 the bit of a multicast address.                                   *)
Keys16 == {[i \in 1..16 |-> 1], [i \in 1..16 |-> 15]}
MCValues ==
  [role |-> {<<1>>}, node_address |-> {<<17>>, <<4097>>},
   network_address |-> {<<18>>, <<4096 + 18>>}, network_channel |-> {<<2>>},
   cipher_key |-> Keys16, authentication_key |-> Keys16,
   network_key_pair |-> {<<>>, [i \in 1..33 |-> 3]}, management_key_pair |-> {<<>>, [i \in 1..33 |-> 4]},
   channel_map |-> {<<291>>}, reserved_channels |-> {<<5>>, <<5, 6>>, <<5, 6, 7>>},
   sink_cost |-> {<<4>>}, remaining_energy |-> {<<7>>}, autostart |-> {<<0>>},
   access_cycle_range |-> {<<33, 50>>}, target_scratchpad |-> {<<1, 2, 3, 4>>},
   multicast_groups |-> {<<32768 + 19>>, <<0, 32768 + 20>>, <<19>>, <<32768 + 1, 0, 32768 + 2>>},
   item1 |-> {<<>>, <<8>>, <<8, 9>>, <<8, 9, 10>>}, item2 |-> {<<>>, <<11>>},
   app_config_data |-> {<<1, 30>>, <<1, 30, 6, 7>>, <<2, 31, 6, 7, 8>>}]
===============================================================================
