------------------------------- MODULE Frames -------------------------------
(***************************************************************************)
(* One frame on its way: a Director encodes it, and renders the same       *)
(* itself; repeaters send it on; a part of it may be cut off, something    *)
(* added, or a byte changed; and every badge that hears it parses it.      *)
(***************************************************************************)
EXTENDS ConfigCodec

CONSTANTS
  Origins,   \* source ids and sequence numbers
  Bags,      \* the bags that are sent, by their entries
  Values,    \* for each type, what its frames say
  Wrong      \* what a byte may be changed to

Types == (FixedTypes \ {BITMAP_HEADER}) \cup {TEXT_DISPLAY} \cup ConfigTypes

(***************************************************************************)
(* What a frame of a type can say.                                         *)
(***************************************************************************)
Sayable(t) ==
  CASE t = HEARTBEAT      -> Heartbeat
    [] t \in {LIGHT_PULSE, LIGHT_WASH_PULSE} -> LightPulse
    [] t = LIGHT_WASH     -> LightWash
    [] t = LIGHT_WASH_END -> LightWashEnd
    [] t = CLEAR_SCREEN   -> ClearScreen
    [] t = TEXT_DISPLAY   -> TextDisplay
    [] t = UID_ANNOUNCE   -> UidAnnounce
    [] t = CONFIG_WRITE   -> {f \in ConfigWrite : f.bag_tlv \in {<<>>} \cup {Bag(e) : e \in Bags}}
    [] t = CONFIG_ACK     -> ConfigAck

ASSUME FramesAssumption ==
  /\ Origins \subseteq [source_id : Word, sequence_number : Byte]
  /\ \A e \in Bags : e \in Seq(BagEntry) /\ Len(e) <= 255
  /\ \A t \in Types : Values[t] \subseteq Sayable(t)
  /\ Wrong \subseteq Byte

VARIABLES
  type, values,   \* the frame as the Director renders it
  origin,
  air,            \* the bytes of one copy
  relays,         \* how often that was sent on undamaged
  damage          \* what happened to it

vars == <<type, values, origin, air, relays, damage>>

Encoded(t, f) ==
  IF t \in ConfigTypes THEN ConfigPayload(t, f) ELSE Payload(t, f)

-----------------------------------------------------------------------------
(***************************************************************************)
(* A frame is dispatched: make_*_frame() keeps the values, encode_*()      *)
(* writes them.                                                            *)
(***************************************************************************)
Init ==
  /\ type \in Types
  /\ values \in Values[type]
  /\ origin \in Origins
  /\ air = Framed(origin.source_id, origin.sequence_number, type, Encoded(type, values))
  /\ relays = 0 /\ damage = "none"

Relay(output_hop) ==
  /\ Relayable(air, output_hop)
  /\ air' = Relayed(air)
  /\ relays' = IF damage = "none" THEN relays + 1 ELSE relays
  /\ UNCHANGED <<type, values, origin, damage>>

Damaged(kind) ==
  /\ damage = "none" /\ damage' = kind
  /\ UNCHANGED <<type, values, origin, relays>>

Cut == \E n \in 0 .. Len(air) - 1 : air' = SubSeq(air, 1, n) /\ Damaged("cut")

Pad == \E b \in Wrong : air' = Append(air, b) /\ Damaged("padded")

Change ==
  \E i \in DOMAIN air, b \in Wrong :
    b # air[i] /\ air' = [air EXCEPT ![i] = b] /\ Damaged("changed")

Next == (\E hop \in 1 .. MAX_HOP_COUNT : Relay(hop)) \/ Cut \/ Pad \/ Change

Spec == Init /\ [][Next]_vars

-----------------------------------------------------------------------------
(***************************************************************************)
(* The bag of a configuration write is read as it was written, and one     *)
(* that ends within an entry is not taken for a whole one.                 *)
(***************************************************************************)
BagIsRead(b) ==
  b # <<>> =>
    /\ SoundBag(b) /\ Bag(Entries(b)) = b
    /\ \A n \in 1 .. Len(b) - 1 : ~SoundBag(SubSeq(b, 1, n))

(***************************************************************************)
(* What a copy says, however often it was relayed: the frame its Director  *)
(* renders, with every one of its fields, and how far out it is.  Only a   *)
(* text that is no UTF-8 is not shown.                                     *)
(***************************************************************************)
AsRead(t, p) == IF t \in ConfigTypes THEN ConfigFields(t, p) ELSE Fields(t, p)

AsShown(t, f) ==
  IF t = TEXT_DISPLAY
  THEN [f EXCEPT !.header = Decoded(f.header), !.body = Decoded(f.body)]
  ELSE f

ArrivesAsSent ==
  damage = "none" =>
    LET h == Heading(air)
        p == PayloadOf(air)
    IN  /\ Admittable(air)
        /\ h.message_type = type /\ h.source_id = origin.source_id
        /\ h.sequence_number = origin.sequence_number /\ h.hop_count = relays
        /\ type \in ConfigTypes => SoundConfig(type, p)
        /\ AsRead(type, p) = AsShown(type, values)
        /\ type = CONFIG_WRITE => BagIsRead(WriteFields(p).bag_tlv)

(***************************************************************************)
(* A frame of which a part is missing, or with something added, is         *)
(* dropped; and one that was changed and is not dropped is the encoding of *)
(* what it was read as: no byte goes unread, and no length disagrees with  *)
(* what it counts.                                                         *)
(***************************************************************************)
Reencoded(h, p) ==
  Header(h.source_id, h.sequence_number, h.hop_count, h.message_type, h.payload_len) \o
  IF h.message_type \in Types
  THEN Encoded(h.message_type, AsRead(h.message_type, p))
  ELSE Fields(h.message_type, p).payload

Lossy(t, p) ==
  \/ t = CLEAR_SCREEN /\ ~({At(p, 2), At(p, 3)} \subseteq {0, 1})
  \/ t = TEXT_DISPLAY /\ ~({HeaderBytes(p), BodyBytes(p)} \subseteq Utf8)

DamageIsSeen ==
  /\ damage \in {"cut", "padded"} => ~Admittable(air)
  /\ damage = "changed" /\ Admittable(air) =>
       LET h == Heading(air)
           p == PayloadOf(air)
       IN  \/ h.message_type \in ConfigTypes /\ ~SoundConfig(h.message_type, p)
           \/ Lossy(h.message_type, p)
           \/ air = Reencoded(h, p)

=============================================================================
