--------------------------------- MODULE Slip ---------------------------------
(***************************************************************************)
(* Frames on the serial line: wpc/slip.c over platform/linux/serial.c.      *)
(*                                                                         *)
(* Octets are numbers and the CRC is the real one, because what the        *)
(* properties tell apart is which octets need escaping, the two of the CRC  *)
(* included, and which damaged frames pass for sound ones.  The host sends  *)
(* a request, or receives one frame (Slip_get_buffer), never both at once:  *)
(* sending_mutex is held around both.  The node is external: it sends its   *)
(* frames in order, each between two END octets.                           *)
(***************************************************************************)
EXTENDS Integers, Sequences, FiniteSets, SequencesExt, Bitwise

CONSTANTS
  Requests,      \* the frames the host may send
  NodeFrames,    \* what the node sends, in order: records [body, dummy]
  IndexSpan,     \* values of the 8 bit indexes of the encoder and the decoder
  FrameSize,     \* MAX_FRAME_SIZE, the room given to Slip_get_buffer
  SerialBuffer,  \* size of the static buffer of get_single_char
  Damage,        \* octets that can take the place of those of the line
  Noise,         \* what the node may emit between frames when it switches
  MaxRun,        \* consecutive octets the line can lose or change
  MaxFaults

ASSUME SizesAssumption ==
  {IndexSpan, FrameSize, SerialBuffer} \subseteq Nat \ {0}

VARIABLES
  open,      \* fd >= 0
  line,      \* octets of the node that no read has taken yet
  buffered,  \* octets in the static buffer of get_single_char
  rx,        \* locals of Slip_get_buffer: active, start_of_frame_detected, octets
  wrote,     \* the last request handed to Slip_send_buffer and what was written
  next,      \* number of the next frame of the node
  intact,    \* frames that reached the line whole
  got,       \* numbers of the frames received, or Unknown or ForgedDummy
  forged,    \* frames whose last two octets the line has turned into 0xFFFF
  faults

vars == <<open, line, buffered, rx, wrote, next, intact, got, forged, faults>>

END == 192
ESC == 219
END_SUBS == 220
ESC_SUBS == 221
WPC_INT_WRONG_BUFFER_SIZE == -6

MaxSizeWithoutCrc(len) == 2 * len + 4
MAX_SIZE_ENCODED_BUFFER(len) == 2 * len + 2 + 4

-------------------------------------------------------------------------------
(* The CRC (CCITT, table driven in the code)                               *)

crc_ccitt_lut ==
  LET Shift(c, k) == IF c < 32768 THEN 2 * c ELSE ((2 * c) % 65536) ^^ 4129
  IN  [i \in 0..255 |-> FoldLeft(Shift, 256 * i, [k \in 1..8 |-> k])]

CrcFromBuffer(s) ==
  LET Step(crc, o) == crc_ccitt_lut[o ^^ (crc \div 256)] ^^ ((256 * crc) % 65536)
  IN  FoldLeft(Step, 65535, s)

-------------------------------------------------------------------------------
(* Escaping.  Both loops write through an 8 bit index, so octet IndexSpan   *)
(* of the result falls on octet 0; the result is as long as the index says. *)

Wrapped(t) ==
  LET n == Len(t)
  IN  [i \in 1..(n % IndexSpan) |-> t[i + IndexSpan * ((n - i) \div IndexSpan)]]

EscapesOnlyEnd(o) == IF o = END THEN <<ESC, END_SUBS>> ELSE <<o>>
Escaped(o) == CASE o = END -> <<ESC, END_SUBS>>
                [] o = ESC -> <<ESC, ESC_SUBS>>
                [] OTHER   -> <<o>>

(* What slip_encode_buffer returns and writes for the octets s in a buffer  *)
(* of `room' octets.                                                       *)
SlipEncodeBuffer(s, room) ==
  LET t == FlattenSeq([i \in DOMAIN s |-> Escaped(s[i])])
  IN  IF Len(t) > room /\ IndexSpan > room
      THEN [size |-> WPC_INT_WRONG_BUFFER_SIZE, octets |-> <<>>]
      ELSE [size |-> Len(t) % IndexSpan, octets |-> Wrapped(t)]

(* Slip_encode compares what slip_encode_buffer returns with -1, which it   *)
(* never is: a frame that does not fit goes on with a negative size, and    *)
(* what is then written is Corrupt.                                        *)
Corrupt == <<>>
SlipEncode(s, room) ==
  LET crc   == CrcFromBuffer(s)
      frame == SlipEncodeBuffer(s, room)
      low   == SlipEncodeBuffer(<<crc % 256>>, room - frame.size)
      high  == SlipEncodeBuffer(<<crc \div 256>>, room - frame.size - low.size)
  IN  IF WPC_INT_WRONG_BUFFER_SIZE \in {frame.size, low.size, high.size}
      THEN Corrupt
      ELSE frame.octets \o low.octets \o high.octets

(* Slip_send_buffer: three END octets before and one after, in a local      *)
(* buffer.  The last END is stored without a test of the bound.            *)
SlipSendBuffer(s) ==
  LET size == MAX_SIZE_ENCODED_BUFFER(Len(s))
      e    == SlipEncode(s, size - 3)
  IN  IF e = Corrupt \/ Len(e) + 4 > size
      THEN Corrupt
      ELSE <<END, END, END>> \o e \o <<END>>

(* slip_decode_buffer: an ESC at the very end makes it look at whatever the *)
(* local buffer holds behind the frame, hence two possible results.        *)
SlipDecodeBuffer(s) ==
  LET Put(d, o) == [out |-> Append(d.out, o), esc |-> FALSE]
      Step(d, o) == IF d.esc THEN Put(d, IF o = END_SUBS THEN END ELSE ESC)
                    ELSE IF o = ESC THEN [d EXCEPT !.esc = TRUE]
                    ELSE Put(d, o)
      d == FoldLeft(Step, [out |-> <<>>, esc |-> FALSE], s)
  IN  {Wrapped(t) : t \in IF d.esc THEN {Append(d.out, o) : o \in {END, ESC}}
                                   ELSE {d.out}}
-------------------------------------------------------------------------------
(* What the node puts on the line for a frame; a dummy confirm says by its  *)
(* CRC that the host's request was garbled.                                *)
NodeOctets(f) ==
  LET crc == IF f.dummy THEN 65535 ELSE CrcFromBuffer(f.body)
      Stuff(s) == FlattenSeq([i \in DOMAIN s |-> Escaped(s[i])])
  IN  <<END>> \o Stuff(f.body \o <<crc % 256, crc \div 256>>) \o <<END>>

FrameOf == [i \in DOMAIN NodeFrames |-> NodeOctets(NodeFrames[i])]
OctetsOf == [r \in Requests |-> SlipSendBuffer(r)]

(* What Slip_decode makes of the decoded octets d: the number of a frame of  *)
(* the node, Unknown for one never sent, or an error (WrongCrc).  A CRC     *)
(* field of 0xFFFF that does not match is a dummy confirm, whatever the     *)
(* other octets say: the next one the node sent, or one it never sent       *)
(* (ForgedDummy).  A frame longer than the caller's room is not copied, and *)
(* returned all the same (Unknown).  Fewer than two octets would make the   *)
(* length of the CRC computation negative.                                 *)
Unknown == 0
WrongCrc == -1
ForgedDummy == -2
Numbered(S, none) == IF S = {} THEN none ELSE Min(S)
Numbers == SelectSeq(got, LAMBDA n : n > 0)
LastGot == IF Numbers = <<>> THEN 0 ELSE Last(Numbers)
FrameWith(body) ==
  Numbered({i \in DOMAIN NodeFrames : /\ Len(body) <= FrameSize
                                      /\ NodeFrames[i] = [body |-> body, dummy |-> FALSE]},
           Unknown)
Dummy == Numbered({i \in (LastGot + 1)..(next - 1) : NodeFrames[i].dummy}, ForgedDummy)
DecodeUnchecked(d) == IF Len(d) < 2 THEN Unknown ELSE FrameWith(SubSeq(d, 1, Len(d) - 2))
SlipDecode(d) ==
  LET body == SubSeq(d, 1, Len(d) - 2)
      crc  == d[Len(d) - 1] + 256 * d[Len(d)]
  IN  IF Len(d) < 2 THEN Unknown
      ELSE IF crc = CrcFromBuffer(body) THEN FrameWith(body)
      ELSE IF crc = 65535 THEN Dummy
      ELSE WrongCrc

-------------------------------------------------------------------------------
Idle == [active |-> FALSE, started |-> FALSE, octets |-> <<>>]
Nothing == [request |-> <<>>, octets |-> <<>>]

Init ==
  /\ open = TRUE
  /\ line = <<>> /\ buffered = <<>>
  /\ rx = Idle
  /\ wrote = Nothing
  /\ next = 1
  /\ intact = {} /\ got = <<>>
  /\ forged = 0
  /\ faults = 0

(* Slip_send_buffer and Serial_write, which reopens a closed link first.    *)
(* All written: the caller goes on to Slip_get_buffer.                     *)
SendRequest(r) ==
  /\ ~rx.active
  /\ open' = TRUE
  /\ rx' = [Idle EXCEPT !.active = TRUE]
  /\ wrote' = [request |-> r, octets |-> OctetsOf[r]]
  /\ UNCHANGED <<line, buffered, next, intact, got, forged, faults>>

(* write fails: the link is closed, and what the driver had received is     *)
(* gone; the octets already in the static buffer stay there.  The request   *)
(* ends with an error.                                                     *)
WriteFails ==
  /\ ~rx.active /\ open
  /\ faults < MaxFaults
  /\ open' = FALSE
  /\ line' = <<>>
  /\ intact' = {i \in intact : \E k \in DOMAIN got : got[k] = i}
  /\ faults' = faults + 1
  /\ wrote' = Nothing
  /\ UNCHANGED <<buffered, rx, next, got, forged>>

(* The next octet of get_single_char: from the static buffer, refilled by   *)
(* one read of at most SerialBuffer octets when it is empty.               *)
Available == rx.active /\ open /\ buffered \o line # <<>>
Octet == IF buffered # <<>> THEN Head(buffered) ELSE Head(line)
GetSingleChar ==
  /\ IF buffered # <<>>
     THEN buffered' = Tail(buffered) /\ UNCHANGED line
     ELSE \E n \in 1..Min({Len(line), SerialBuffer}) :
            /\ buffered' = SubSeq(line, 2, n)
            /\ line' = SubSeq(line, n + 1, Len(line))
  /\ wrote' = Nothing
  /\ UNCHANGED <<open, next, intact, forged, faults>>

BetweenFrames ==
  /\ Available /\ Octet # END /\ ~rx.started
  /\ GetSingleChar
  /\ UNCHANGED <<rx, got>>

(* The first END, and any END after fewer than four octets, starts a frame. *)
StartsFrame == ~rx.started \/ Len(rx.octets) < 4
ShortFrameEnds ==
  /\ Available /\ Octet = END /\ StartsFrame
  /\ GetSingleChar
  /\ rx' = IF rx.started THEN Idle ELSE [rx EXCEPT !.started = TRUE]
  /\ UNCHANGED got
StartOfFrame ==
  /\ Available /\ Octet = END /\ StartsFrame
  /\ GetSingleChar
  /\ rx' = [rx EXCEPT !.started = TRUE, !.octets = <<>>]
  /\ UNCHANGED got

(* The bound is tested after the octet is stored: one too many is an error. *)
RxCapacity == MAX_SIZE_ENCODED_BUFFER(FrameSize)
InsideUnbounded ==
  /\ Available /\ Octet # END /\ rx.started
  /\ GetSingleChar
  /\ rx' = [rx EXCEPT !.octets = Append(@, Octet)]
  /\ UNCHANGED got
Inside ==
  /\ Available /\ Octet # END /\ rx.started
  /\ GetSingleChar
  /\ rx' = IF Len(rx.octets) + 1 > RxCapacity THEN Idle
           ELSE [rx EXCEPT !.octets = Append(@, Octet)]
  /\ UNCHANGED got

EndOfFrame ==
  /\ Available /\ Octet = END /\ ~StartsFrame
  /\ GetSingleChar
  /\ rx' = Idle
  /\ \E d \in SlipDecodeBuffer(rx.octets) :
       LET i == SlipDecode(d)
       IN  got' = IF i = WrongCrc THEN got ELSE Append(got, i)

(* No octet for timeout_ms: what was received of a frame is given up.  With *)
(* octets still to come, the line was late, which counts as a fault.       *)
TimesOut ==
  /\ rx.active /\ open /\ buffered = <<>>
  /\ line # <<>> => faults < MaxFaults
  /\ faults' = IF line = <<>> THEN faults ELSE faults + 1
  /\ rx' = Idle
  /\ wrote' = Nothing
  /\ UNCHANGED <<open, line, buffered, next, intact, got, forged>>

-------------------------------------------------------------------------------
(* The node and the line                                                   *)

NodeSends ==
  /\ open /\ next <= Len(NodeFrames)
  /\ line' = line \o FrameOf[next]
  /\ next' = next + 1
  /\ intact' = intact \cup {next}
  /\ UNCHANGED <<open, buffered, rx, wrote, got, forged, faults>>

(* A fault on the way of the next frame: a run of octets lost or changed;   *)
(* or octets that belong to no frame in front of it.                       *)
Damaged(s) ==
  LET runs == {p \in (1..Len(s)) \X (1..Len(s)) : p[2] - p[1] \in 0..(MaxRun - 1)}
  IN  {SubSeq(s, 1, p[1] - 1) \o SubSeq(s, p[2] + 1, Len(s)) : p \in runs}
      \cup {[i \in DOMAIN s |-> IF i \in p[1]..p[2] THEN o ELSE s[i]] :
              p \in runs, o \in Damage}

(* The last octets of a damaged frame, whose END may be gone, say that this *)
(* is a dummy confirm.                                                     *)
EndsInDummyCrc(s) == IsSuffix(<<255, 255>>, s) \/ IsSuffix(<<255, 255, END>>, s)

LineFault ==
  /\ open /\ next <= Len(NodeFrames) /\ faults < MaxFaults
  /\ \/ \E s \in Damaged(FrameOf[next]) \ {FrameOf[next]} :
          /\ line' = line \o s
          /\ forged' = IF EndsInDummyCrc(s) /\ ~NodeFrames[next].dummy
                       THEN forged + 1 ELSE forged
          /\ UNCHANGED intact
     \/ \E s \in Noise :
          /\ line' = line \o s \o FrameOf[next]
          /\ intact' = intact \cup {next}
          /\ UNCHANGED forged
  /\ next' = next + 1
  /\ faults' = faults + 1
  /\ UNCHANGED <<open, buffered, rx, wrote, got>>

Next ==
  \/ \E r \in Requests : SendRequest(r)
  \/ WriteFails
  \/ BetweenFrames \/ StartOfFrame \/ Inside \/ EndOfFrame
  \/ TimesOut
  \/ NodeSends \/ LineFault

Spec == Init /\ [][Next]_vars

-------------------------------------------------------------------------------
(* Every variable keeps its type; a receiving call never holds more octets  *)
(* than its buffer, and none when it is over (Slip_get_buffer).            *)
TypeOK ==
  /\ open \in BOOLEAN
  /\ \A s \in {line, buffered, rx.octets} : \A i \in DOMAIN s : s[i] \in 0..255
  /\ Len(buffered) < SerialBuffer
  /\ rx.active \in BOOLEAN /\ rx.started \in BOOLEAN
  /\ Len(rx.octets) <= RxCapacity
  /\ ~rx.active => rx = Idle
  /\ next \in 1..(Len(NodeFrames) + 1)
  /\ intact \subseteq 1..(next - 1)
  /\ forged \in 0..faults /\ faults \in 0..MaxFaults

(* What is written for a request (Slip_send_buffer, Slip_encode) reads back *)
(* as that request: the octets between the END octets hold no END, and      *)
(* unescape to the request and its CRC, so nothing was lost to the size of  *)
(* the buffer or to the 8 bit index.                                       *)
RequestsAreReadable ==
  wrote.request # <<>> =>
    LET s == wrote.octets
        crc == CrcFromBuffer(wrote.request)
    IN  /\ Len(s) > 4
        /\ SubSeq(s, 1, 3) = <<END, END, END>> /\ Last(s) = END
        /\ \A i \in 4..(Len(s) - 1) : s[i] # END
        /\ SlipDecodeBuffer(SubSeq(s, 4, Len(s) - 1)) =
             {wrote.request \o <<crc % 256, crc \div 256>>}

(* Slip_get_buffer returns only frames the node sent, in the order it sent  *)
(* them and none twice, whatever the line did to them and whatever an       *)
(* earlier call or a closing of the link left behind.  One exception: a     *)
(* frame whose CRC field the line turned into 0xFFFF is returned as a dummy *)
(* confirm, and there are no more of these than such frames.                *)
OnlySentFrames ==
  /\ \A k \in DOMAIN got : got[k] # Unknown
  /\ \A k \in 1..(Len(Numbers) - 1) : Numbers[k] < Numbers[k + 1]
  /\ Len(got) - Len(Numbers) <= forged

(* What WPC_Int_send_request_timeout says of a dummy confirm, "CRC error is *)
(* in the request, so not handled on the other side": the node has sent it. *)
(* False of a frame whose CRC field the line turned into 0xFFFF.            *)
DummyIsSent == \A k \in DOMAIN got : got[k] # ForgedDummy

(* Synchronisation is not lost (the Bugfix of Slip_get_buffer): when the    *)
(* line has been read to its end, each fault of the line, late octets and   *)
(* closings included, has cost at most one of the frames that arrived whole *)
(* and were not discarded with the link.                                   *)
FaultCostsOneFrame ==
  line = <<>> /\ buffered = <<>> /\ ~rx.active =>
    Cardinality(intact \ Range(got)) <= faults
===============================================================================
