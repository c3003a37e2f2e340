------------------------------- MODULE MCSlip -------------------------------
EXTENDS Slip
(* Requests whose octets all need escaping where that is possible: the      *)
(* first is a primitive and the third the length, and neither can be END or *)
(* ESC.  The last of them needs it for both octets of its CRC, too.        *)
MCRequests ==
  {<<4, 219, 0>>} \cup {<<14, 192, 2, a, b>> : a \in {0, 192}, b \in {219, 220}}
  \cup {<<247, 219, 4, 192, 219, 192, 192>>}
MCNodeFrames ==
  << [body |-> <<132, 192, 1, 1>>, dummy |-> FALSE],
     [body |-> <<133, 219, 1, 1>>, dummy |-> TRUE],
     [body |-> <<3, 219, 192, 220>>, dummy |-> FALSE] >>
MCNoise == {<<0>>, <<192>>, <<0, 192>>, <<192, 0>>}
MCDamage == {0, 192, 219, 255}
===============================================================================
