----------------------------- MODULE FrameCodec -----------------------------
(***************************************************************************)
(* The bytes of a frame: nocturnation/protocol/frame.py, constants.py and  *)
(* receive.py, and what app.py's interrupt handler does to the bytes of a  *)
(* frame it relays.                                                        *)
(*                                                                         *)
(* A frame is a record of its header and of the fields of its type.  Bytes *)
(* are the real ones.  A field wider than two bytes is kept as its bytes,  *)
(* and a text as the bytes it is encoded in.                               *)
(***************************************************************************)
EXTENDS Integers, Sequences

CONSTANTS
  MAX_HEADER_LEN,  \* TEXT_DISPLAY_MAX_HEADER_LEN, 64 in the code
  MAX_BODY_LEN,    \* TEXT_DISPLAY_MAX_BODY_LEN, 128 in the code
  Utf8             \* the byte strings that are UTF-8

ASSUME FrameAssumption ==
  /\ MAX_HEADER_LEN \in 0 .. 64 /\ MAX_BODY_LEN \in 0 .. 128
  /\ <<>> \in Utf8

MAGIC == 78              \* MAGIC_0 and MAGIC_1, "N"
PROTOCOL_VERSION == 4
HEADER_SIZE == 9
HOP_COUNT_OFFSET == 6    \* counted from 0
MAX_FRAME_SIZE == 250
MAX_HOP_COUNT == 3

Byte == 0 .. 255
Word == {v \in Nat : v < 65536}
Bytes(n) == [1 .. n -> Byte]                  \* what has more than two bytes
Text(max) == {b \in Seq(Byte) : Len(b) <= max}

HEARTBEAT == 0
LIGHT_PULSE == 3
LIGHT_WASH == 6
LIGHT_WASH_END == 7
LIGHT_WASH_PULSE == 8
TEXT_DISPLAY == 9
BITMAP_HEADER == 10
CLEAR_SCREEN == 12
UID_ANNOUNCE == 14
CONFIG_WRITE == 15
CONFIG_ACK == 16

FixedTypes ==
  {HEARTBEAT, LIGHT_PULSE, LIGHT_WASH, LIGHT_WASH_END, LIGHT_WASH_PULSE, BITMAP_HEADER,
   CLEAR_SCREEN}

PAYLOAD_LENGTHS ==
  [type \in FixedTypes |->
     CASE type = HEARTBEAT -> 9
       [] type \in {LIGHT_PULSE, LIGHT_WASH_PULSE} -> 13
       [] type = LIGHT_WASH -> 20
       [] type = LIGHT_WASH_END -> 7
       [] type = BITMAP_HEADER -> 38
       [] type = CLEAR_SCREEN -> 4]

-----------------------------------------------------------------------------
(***************************************************************************)
(* What a frame says, by type.                                             *)
(***************************************************************************)
LightPulse ==
  [target_class : Byte, target_group : Word, r : Byte, g : Byte, b : Byte,
   attack : Byte, sustain : Byte, release : Byte, chance : Byte,
   led_mode : Byte, led_modifier1 : Byte, led_modifier2 : Byte]

LightWash ==
  [target_class : Byte, target_group : Word, r1 : Byte, g1 : Byte, b1 : Byte,
   r2 : Byte, g2 : Byte, b2 : Byte, wash_attack : Byte, wash_release : Byte,
   intensity : Byte, cycle_ms : Word, ttl_seconds : Word, pulse_response : Byte,
   led_mode : Byte, led_modifier1 : Byte, led_modifier2 : Byte]

LightWashEnd ==
  [target_class : Byte, target_group : Word, release_time : Byte,
   led_mode : Byte, led_modifier1 : Byte, led_modifier2 : Byte]

Heartbeat == [tick : Bytes(4), days_since_2026 : Word, centiseconds_today : Bytes(3)]

ClearScreen == [clear_target_group : Word, clear_text : {0, 1}, clear_bitmap : {0, 1}]

TextDisplay ==
  [text_target_group : Word, text_r : Byte, text_g : Byte, text_b : Byte, ttl_ms : Word,
   header : Text(MAX_HEADER_LEN), body : Text(MAX_BODY_LEN)]

-----------------------------------------------------------------------------
(***************************************************************************)
(* The encoders.  Writing a number drops what does not fit, and each of    *)
(* the texts is preceded by its length.                                    *)
(***************************************************************************)
Low(v) == v % 256
High(v) == (v \div 256) % 256

Counted(b) == <<Low(Len(b))>> \o b

PulsePayload(f) ==
  <<Low(f.target_class), Low(f.target_group), High(f.target_group),
    Low(f.r), Low(f.g), Low(f.b),
    Low(f.attack), Low(f.sustain), Low(f.release), Low(f.chance),
    Low(f.led_mode), Low(f.led_modifier1), Low(f.led_modifier2)>>

WashPayload(f) ==
  <<Low(f.target_class), Low(f.target_group), High(f.target_group),
    Low(f.r1), Low(f.g1), Low(f.b1), Low(f.r2), Low(f.g2), Low(f.b2),
    Low(f.wash_attack), Low(f.wash_release), Low(f.intensity),
    Low(f.cycle_ms), High(f.cycle_ms), Low(f.ttl_seconds), High(f.ttl_seconds),
    Low(f.pulse_response), Low(f.led_mode), Low(f.led_modifier1), Low(f.led_modifier2)>>

WashEndPayload(f) ==
  <<Low(f.target_class), Low(f.target_group), High(f.target_group), Low(f.release_time),
    Low(f.led_mode), Low(f.led_modifier1), Low(f.led_modifier2)>>

HeartbeatPayload(f) ==
  f.tick \o <<Low(f.days_since_2026), High(f.days_since_2026)>> \o f.centiseconds_today

ClearPayload(f) ==
  <<Low(f.clear_target_group), High(f.clear_target_group), f.clear_text, f.clear_bitmap>>

TextPayload(f) ==
  <<Low(f.text_target_group), High(f.text_target_group), Low(f.text_r), Low(f.text_g),
    Low(f.text_b), Low(f.ttl_ms), High(f.ttl_ms)>> \o Counted(f.header) \o Counted(f.body)

Payload(type, f) ==
  CASE type = HEARTBEAT      -> HeartbeatPayload(f)
    [] type \in {LIGHT_PULSE, LIGHT_WASH_PULSE} -> PulsePayload(f)
    [] type = LIGHT_WASH     -> WashPayload(f)
    [] type = LIGHT_WASH_END -> WashEndPayload(f)
    [] type = CLEAR_SCREEN   -> ClearPayload(f)
    [] type = TEXT_DISPLAY   -> TextPayload(f)

Header(source_id, sequence_number, hop_count, type, payload_len) ==
  <<MAGIC, MAGIC, PROTOCOL_VERSION, Low(source_id), High(source_id),
    Low(sequence_number), Low(hop_count), Low(type), Low(payload_len)>>

Framed(source_id, sequence_number, type, payload) ==
  Header(source_id, sequence_number, 0, type, Len(payload)) \o payload

-----------------------------------------------------------------------------
(***************************************************************************)
(* The parser's places are counted from 0.                                 *)
(***************************************************************************)
At(p, n) == p[n + 1]
WordAt(p, n) == At(p, n) + 256 * At(p, n + 1)
Slice(p, n, m) == SubSeq(p, n + 1, m)

PulseFields(p) ==
  [target_class |-> At(p, 0), target_group |-> WordAt(p, 1),
   r |-> At(p, 3), g |-> At(p, 4), b |-> At(p, 5),
   attack |-> At(p, 6), sustain |-> At(p, 7), release |-> At(p, 8), chance |-> At(p, 9),
   led_mode |-> At(p, 10), led_modifier1 |-> At(p, 11), led_modifier2 |-> At(p, 12)]

WashFields(p) ==
  [target_class |-> At(p, 0), target_group |-> WordAt(p, 1),
   r1 |-> At(p, 3), g1 |-> At(p, 4), b1 |-> At(p, 5),
   r2 |-> At(p, 6), g2 |-> At(p, 7), b2 |-> At(p, 8),
   wash_attack |-> At(p, 9), wash_release |-> At(p, 10), intensity |-> At(p, 11),
   cycle_ms |-> WordAt(p, 12), ttl_seconds |-> WordAt(p, 14), pulse_response |-> At(p, 16),
   led_mode |-> At(p, 17), led_modifier1 |-> At(p, 18), led_modifier2 |-> At(p, 19)]

WashEndFields(p) ==
  [target_class |-> At(p, 0), target_group |-> WordAt(p, 1), release_time |-> At(p, 3),
   led_mode |-> At(p, 4), led_modifier1 |-> At(p, 5), led_modifier2 |-> At(p, 6)]

HeartbeatFields(p) ==
  [tick |-> Slice(p, 0, 4), days_since_2026 |-> WordAt(p, 4),
   centiseconds_today |-> Slice(p, 6, 9)]

Truth(v) == IF v = 0 THEN 0 ELSE 1

ClearFields(p) ==
  [clear_target_group |-> WordAt(p, 0), clear_text |-> Truth(At(p, 2)),
   clear_bitmap |-> Truth(At(p, 3))]

TEXT_DISPLAY_FIXED_PREFIX == 7

HeaderEnd(p) == TEXT_DISPLAY_FIXED_PREFIX + 1 + At(p, TEXT_DISPLAY_FIXED_PREFIX)

(***************************************************************************)
(* A variant to test the properties with: a text may be followed by bytes  *)
(* that nothing counts.                                                    *)
(***************************************************************************)
SoundTextAndMore(p) ==
  /\ Len(p) >= TEXT_DISPLAY_FIXED_PREFIX + 2
  /\ At(p, TEXT_DISPLAY_FIXED_PREFIX) <= MAX_HEADER_LEN
  /\ Len(p) >= HeaderEnd(p) + 1
  /\ At(p, HeaderEnd(p)) <= MAX_BODY_LEN
  /\ Len(p) >= HeaderEnd(p) + 1 + At(p, HeaderEnd(p))

(***************************************************************************)
(* A text's payload is sound when its two lengths are within their caps    *)
(* and account for every byte.                                             *)
(***************************************************************************)
SoundText(p) ==
  /\ Len(p) >= TEXT_DISPLAY_FIXED_PREFIX + 2
  /\ At(p, TEXT_DISPLAY_FIXED_PREFIX) <= MAX_HEADER_LEN
  /\ Len(p) >= HeaderEnd(p) + 1
  /\ At(p, HeaderEnd(p)) <= MAX_BODY_LEN
  /\ Len(p) = HeaderEnd(p) + 1 + At(p, HeaderEnd(p))

(***************************************************************************)
(* What is no UTF-8 is read as the empty text.                             *)
(***************************************************************************)
Decoded(b) == IF b \in Utf8 THEN b ELSE <<>>

HeaderBytes(p) == Slice(p, TEXT_DISPLAY_FIXED_PREFIX + 1, HeaderEnd(p))
BodyBytes(p) == Slice(p, HeaderEnd(p) + 1, Len(p))

TextFields(p) ==
  [text_target_group |-> WordAt(p, 0), text_r |-> At(p, 2), text_g |-> At(p, 3),
   text_b |-> At(p, 4), ttl_ms |-> WordAt(p, 5),
   header |-> Decoded(HeaderBytes(p)), body |-> Decoded(BodyBytes(p))]

(***************************************************************************)
(* A type parse_frame() does not know passes with its payload unread.      *)
(***************************************************************************)
Fields(type, p) ==
  CASE type = HEARTBEAT      -> HeartbeatFields(p)
    [] type \in {LIGHT_PULSE, LIGHT_WASH_PULSE} -> PulseFields(p)
    [] type = LIGHT_WASH     -> WashFields(p)
    [] type = LIGHT_WASH_END -> WashEndFields(p)
    [] type = CLEAR_SCREEN   -> ClearFields(p)
    [] type = TEXT_DISPLAY   -> TextFields(p)
    [] OTHER                 -> [payload |-> p]

Heading(buf) ==
  [protocol_version |-> At(buf, 2), source_id |-> WordAt(buf, 3),
   sequence_number |-> At(buf, 5), hop_count |-> At(buf, 6),
   message_type |-> At(buf, 7), payload_len |-> At(buf, 8)]

PayloadOf(buf) == Slice(buf, HEADER_SIZE, Len(buf))

(***************************************************************************)
(* parse_frame(): what is not sound is dropped.                            *)
(***************************************************************************)
Sound(buf) ==
  /\ Len(buf) \in HEADER_SIZE .. MAX_FRAME_SIZE
  /\ At(buf, 0) = MAGIC /\ At(buf, 1) = MAGIC
  /\ LET h == Heading(buf)
     IN  /\ h.protocol_version = PROTOCOL_VERSION
         /\ Len(buf) = HEADER_SIZE + h.payload_len
         /\ h.message_type \in FixedTypes => h.payload_len = PAYLOAD_LENGTHS[h.message_type]
         /\ h.message_type = TEXT_DISPLAY => SoundText(PayloadOf(buf))

(***************************************************************************)
(* parse_admittable().                                                     *)
(***************************************************************************)
Admittable(buf) == Sound(buf) /\ Heading(buf).hop_count <= MAX_HOP_COUNT

-----------------------------------------------------------------------------
(***************************************************************************)
(* A variant to test the properties with: the offset hop_count had in the  *)
(* header of an older version.                                             *)
(***************************************************************************)
RelayedAtOldOffset(buf) == [buf EXCEPT ![HOP_COUNT_OFFSET] = @ + 1]

(***************************************************************************)
(* The interrupt handler relays bytes, not frames: what is long enough to  *)
(* have a hop count that, with one more, is the hop it was elected for.    *)
(***************************************************************************)
Relayable(buf, output_hop) ==
  /\ Len(buf) >= HEADER_SIZE
  /\ At(buf, HOP_COUNT_OFFSET) + 1 = output_hop
  /\ output_hop <= MAX_HOP_COUNT

Relayed(buf) == [buf EXCEPT ![HOP_COUNT_OFFSET + 1] = @ + 1]

=============================================================================
