---------------------------- MODULE ConfigCodec -----------------------------
(***************************************************************************)
(* The payloads of the configuration frames                                *)
(* (nocturnation/protocol/config_frames.py) and the property bag that one  *)
(* of them and the BLE service carry (property_bag_tlv.py).                *)
(***************************************************************************)
EXTENDS FrameCodec

SECRET_LEN == 16
HMAC_LEN == 8
MAX_NAME_LEN == 20
CONFIG_WRITE_MAX_BAG_LEN == 220

UidAnnounce ==
  [uid : Bytes(4), secret : Bytes(SECRET_LEN), role : Byte, host : Byte,
   friendly_name : Text(MAX_NAME_LEN)]

ConfigWrite ==
  [target_uid : Bytes(4), numonce : Bytes(8), bag_tlv : Text(CONFIG_WRITE_MAX_BAG_LEN),
   hmac : Bytes(HMAC_LEN)]

ConfigAck ==
  [responder_uid : Bytes(4), responder_numonce : Bytes(8), status : Byte, applied_keys : Byte]

(***************************************************************************)
(* The encoders; a write leaves its code to the caller.                    *)
(***************************************************************************)
UidPayload(f) ==
  f.uid \o f.secret \o <<Low(f.role), Low(f.host)>> \o Counted(f.friendly_name)

WritePayload(f) == f.target_uid \o f.numonce \o Counted(f.bag_tlv) \o f.hmac

AckPayload(f) ==
  f.responder_uid \o f.responder_numonce \o <<Low(f.status), Low(f.applied_keys)>>

(***************************************************************************)
(* The decoders: what each accepts, and what it makes of it.  A part of    *)
(* its own length follows its fields, after a byte that says how long.     *)
(***************************************************************************)
NameAt == 22    \* name_len
BagAt == 12     \* bag_len

SoundUid(p) ==
  /\ Len(p) \in NameAt + 1 .. NameAt + 1 + MAX_NAME_LEN
  /\ At(p, NameAt) <= MAX_NAME_LEN
  /\ NameAt + 1 + At(p, NameAt) = Len(p)

BagEnd(p) == BagAt + 1 + At(p, BagAt)

SoundWrite(p) ==
  /\ Len(p) \in BagAt + 1 + HMAC_LEN .. BagAt + 1 + CONFIG_WRITE_MAX_BAG_LEN + HMAC_LEN
  /\ At(p, BagAt) <= CONFIG_WRITE_MAX_BAG_LEN
  /\ BagEnd(p) + HMAC_LEN = Len(p)

SoundAck(p) == Len(p) = 14

UidFields(p) ==
  [uid |-> Slice(p, 0, 4), secret |-> Slice(p, 4, 4 + SECRET_LEN), role |-> At(p, 20),
   host |-> At(p, 21), friendly_name |-> Slice(p, NameAt + 1, Len(p))]

WriteFields(p) ==
  [target_uid |-> Slice(p, 0, 4), numonce |-> Slice(p, 4, BagAt),
   bag_tlv |-> Slice(p, BagAt + 1, BagEnd(p)), hmac |-> Slice(p, BagEnd(p), Len(p))]

AckFields(p) ==
  [responder_uid |-> Slice(p, 0, 4), responder_numonce |-> Slice(p, 4, 12),
   status |-> At(p, 12), applied_keys |-> At(p, 13)]

(***************************************************************************)
(* The frames that are configuration's, by type.                           *)
(***************************************************************************)
ConfigTypes == {UID_ANNOUNCE, CONFIG_WRITE, CONFIG_ACK}

ConfigPayload(type, f) ==
  CASE type = UID_ANNOUNCE -> UidPayload(f)
    [] type = CONFIG_WRITE -> WritePayload(f)
    [] type = CONFIG_ACK   -> AckPayload(f)

SoundConfig(type, p) ==
  CASE type = UID_ANNOUNCE -> SoundUid(p)
    [] type = CONFIG_WRITE -> SoundWrite(p)
    [] type = CONFIG_ACK   -> SoundAck(p)

ConfigFields(type, p) ==
  CASE type = UID_ANNOUNCE -> UidFields(p)
    [] type = CONFIG_WRITE -> WriteFields(p)
    [] type = CONFIG_ACK   -> AckFields(p)

-----------------------------------------------------------------------------
(***************************************************************************)
(* A property bag: a count, and as many entries of key, type and value.  A *)
(* key is ASCII, and must have characters.                                 *)
(***************************************************************************)
Key == {k \in Seq(0 .. 127) : Len(k) \in 1 .. 255}

BagEntry == [key : Key, type : Byte, value : Text(255)]

EntryBytes(e) == Counted(e.key) \o <<e.type>> \o Counted(e.value)

Bag(entries) ==
  LET first[n \in 0 .. Len(entries)] ==
        IF n = 0 THEN <<Len(entries)>> ELSE first[n - 1] \o EntryBytes(entries[n])
  IN  first[Len(entries)]

(***************************************************************************)
(* The entry after the first off bytes: where its parts end, and whether   *)
(* they are there.                                                         *)
(***************************************************************************)
KeyEnd(b, off) == off + 1 + At(b, off)

ValueEnd(b, off) == KeyEnd(b, off) + 2 + At(b, KeyEnd(b, off) + 1)

SoundEntry(b, off) ==
  /\ off < Len(b) /\ At(b, off) # 0
  /\ KeyEnd(b, off) + 2 <= Len(b)
  /\ ValueEnd(b, off) <= Len(b)

Entry(b, off) ==
  [key   |-> Slice(b, off + 1, KeyEnd(b, off)),
   type  |-> At(b, KeyEnd(b, off)),
   value |-> Slice(b, KeyEnd(b, off) + 2, ValueEnd(b, off))]

(***************************************************************************)
(* decode() hands out the entries up to the first that is not sound, and   *)
(* does not look at what follows the last.                                 *)
(***************************************************************************)
Malformed == -1

EntryStarts(b) ==
  LET at[i \in 1 .. b[1] + 1] ==
        IF i = 1 THEN 1
        ELSE IF at[i - 1] # Malformed /\ SoundEntry(b, at[i - 1])
             THEN ValueEnd(b, at[i - 1])
             ELSE Malformed
  IN  at

SoundBag(b) == b = <<>> \/ EntryStarts(b)[b[1] + 1] # Malformed

Entries(b) ==
  IF b = <<>> THEN <<>>
  ELSE LET at == EntryStarts(b)
       IN  [i \in {j \in 1 .. b[1] : at[j + 1] # Malformed} |-> Entry(b, at[i])]

=============================================================================
