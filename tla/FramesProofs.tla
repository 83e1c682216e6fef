---------------------------- MODULE FramesProofs ----------------------------
(***************************************************************************)
(* Every frame the codec can say is read back as it was said, and what     *)
(* damage leaves of a frame is dropped, or loses no byte in the reading:   *)
(* for every field value, every text, every bag of settings, every hop and *)
(* every byte that a relay, a cut, a padding or a change leaves.  The      *)
(* argument goes from the inside out: the two bytes of a number, the parts *)
(* of a byte string, the payload of each type in both directions, the      *)
(* header, the frame on the air and what may happen to it, and the bag of  *)
(* settings entry by entry.  Bag and EntryStarts are recursive functions:  *)
(* that their tables exist, and that what holds of each entry holds of     *)
(* all, is shown on least counterexamples, for the induction theorems of   *)
(* the library cannot be instantiated by the provers installed.            *)
(***************************************************************************)
EXTENDS Frames, SequenceTheorems, FiniteSetTheorems, WellFoundedInduction, TLAPS

(***************************************************************************)
(* A byte is an integer from 0 to 255.                                     *)
(***************************************************************************)
LEMMA ByteRange ==
  ASSUME NEW v
  PROVE  v \in Byte <=> v \in Int /\ 0 <= v /\ v <= 255
  BY DEF Byte

(***************************************************************************)
(* Remainder and quotient by 256, in the one form the solver needs them.   *)
(***************************************************************************)
LEMMA Division ==
  ASSUME NEW v \in Int, NEW a \in Int, NEW b \in Int, 0 <= a, a <= 255, v = a + 256 * b
  PROVE  v % 256 = a /\ v \div 256 = b
  OBVIOUS

(***************************************************************************)
(* A byte is its own low byte: & 0xFF leaves it alone.                     *)
(***************************************************************************)
LEMMA ByteIsKept ==
  ASSUME NEW v \in Byte
  PROVE  Low(v) = v
  BY ByteRange DEF Low

(***************************************************************************)
(* The two bytes a 16-bit number is written as make up that number.        *)
(***************************************************************************)
LEMMA WordIsKept ==
  ASSUME NEW v \in Word
  PROVE  /\ Low(v) \in Byte /\ High(v) \in Byte
         /\ Low(v) + 256 * High(v) = v
<1>1. v \in Int /\ 0 <= v /\ v <= 65535
  BY DEF Word
<1>2. PICK q \in Int, r \in Int : q = v \div 256 /\ r = v % 256
  BY <1>1
<1>3. v = 256 * q + r /\ 0 <= r /\ r <= 255
  BY <1>1, <1>2
<1>4. 0 <= q /\ q <= 255
  BY <1>1, <1>3
<1>5. q % 256 = q
  BY <1>4
<1> QED BY <1>2, <1>3, <1>4, <1>5, ByteRange DEF Low, High

(***************************************************************************)
(* The number two bytes are read as is written as these bytes again.       *)
(***************************************************************************)
LEMMA BytesMakeWord ==
  ASSUME NEW a \in Byte, NEW b \in Byte
  PROVE  /\ a + 256 * b \in Word
         /\ Low(a + 256 * b) = a /\ High(a + 256 * b) = b
<1>1. a \in Int /\ 0 <= a /\ a <= 255 /\ b \in Int /\ 0 <= b /\ b <= 255
  BY ByteRange
<1>2. PICK v \in Int : v = a + 256 * b
  BY <1>1
<1>3. v % 256 = a /\ v \div 256 = b
  BY <1>1, <1>2, Division
<1>4. b % 256 = b
  BY <1>1
<1>5. v \in Word
  BY <1>1, <1>2 DEF Word
<1>6. Low(v) = a /\ High(v) = b
  BY <1>3, <1>4 DEF Low, High
<1> QED BY <1>2, <1>5, <1>6

-----------------------------------------------------------------------------
(***************************************************************************)
(* Bytes(n) is the byte strings of length n.                               *)
(***************************************************************************)
LEMMA BytesAre ==
  ASSUME NEW n \in Nat, NEW b
  PROVE  b \in Bytes(n) <=> b \in Seq(Byte) /\ Len(b) = n
<1>1. ASSUME b \in Bytes(n) PROVE b \in Seq(Byte) /\ Len(b) = n
  BY <1>1 DEF Bytes
<1>2. ASSUME b \in Seq(Byte), Len(b) = n PROVE b \in Bytes(n)
  BY <1>2, LenProperties DEF Bytes
<1> QED BY <1>1, <1>2

(***************************************************************************)
(* Any byte of a byte string is a byte and its own low byte.               *)
(***************************************************************************)
LEMMA OneByte ==
  ASSUME NEW n \in Nat, NEW b \in Bytes(n), NEW i \in 1 .. n
  PROVE  b[i] \in Byte /\ Low(b[i]) = b[i]
<1>1. b[i] \in Byte
  BY DEF Bytes
<1> QED BY <1>1, ByteIsKept

(***************************************************************************)
(* Byte strings of one length that agree everywhere are equal.             *)
(***************************************************************************)
LEMMA SameBytes ==
  ASSUME NEW n \in Nat, NEW a \in Bytes(n), NEW b \in Bytes(n), \A i \in 1 .. n : a[i] = b[i]
  PROVE  a = b
  BY DEF Bytes

(***************************************************************************)
(* The bytes of a slice, counted from where it begins.                     *)
(***************************************************************************)
LEMMA SliceIs ==
  ASSUME NEW k \in Nat, NEW b \in Bytes(k), NEW m \in Nat, NEW n \in Nat, m <= n, n <= k
  PROVE  /\ Slice(b, m, n) \in Bytes(n - m)
         /\ \A i \in 1 .. n - m : Slice(b, m, n)[i] = b[m + i]
<1>1. \A i \in m + 1 .. n : b[i] \in Byte
  BY DEF Bytes
<1>2. m + 1 \in Int /\ n \in Int /\ n - m \in Nat
  OBVIOUS
<1>3. /\ SubSeq(b, m + 1, n) \in Seq(Byte)
      /\ Len(SubSeq(b, m + 1, n)) = IF m + 1 <= n THEN n - (m + 1) + 1 ELSE 0
      /\ \A i \in 1 .. n - (m + 1) + 1 : SubSeq(b, m + 1, n)[i] = b[(m + 1) + i - 1]
  BY <1>1, <1>2, SubSeqProperties
<1>4. Len(SubSeq(b, m + 1, n)) = n - m
  BY <1>2, <1>3
<1>5. \A i \in 1 .. n - m : i \in 1 .. n - (m + 1) + 1 /\ (m + 1) + i - 1 = m + i
  OBVIOUS
<1>6. SubSeq(b, m + 1, n) \in Bytes(n - m)
  BY <1>2, <1>3, <1>4, BytesAre
<1> QED BY <1>3, <1>5, <1>6 DEF Slice

(***************************************************************************)
(* A slice is known by its bytes.                                          *)
(***************************************************************************)
LEMMA SliceEquals ==
  ASSUME NEW k \in Nat, NEW b \in Bytes(k), NEW m \in Nat, NEW j \in Nat, m + j <= k,
         NEW s \in Bytes(j), \A i \in 1 .. j : b[m + i] = s[i]
  PROVE  Slice(b, m, m + j) = s
<1>1. m + j \in Nat /\ m <= m + j /\ (m + j) - m = j
  OBVIOUS
<1>2. /\ Slice(b, m, m + j) \in Bytes((m + j) - m)
      /\ \A i \in 1 .. (m + j) - m : Slice(b, m, m + j)[i] = b[m + i]
  BY <1>1, SliceIs
<1>3. /\ Slice(b, m, m + j) \in Bytes(j)
      /\ \A i \in 1 .. j : Slice(b, m, m + j)[i] = s[i]
  BY <1>1, <1>2
<1> QED BY <1>3, SameBytes

(***************************************************************************)
(* The slice of everything is everything.                                  *)
(***************************************************************************)
LEMMA WholeSlice ==
  ASSUME NEW k \in Nat, NEW b \in Bytes(k)
  PROVE  Slice(b, 0, k) = b
<1>1. b \in Seq(Byte) /\ Len(b) = k
  BY BytesAre
<1> QED BY <1>1, SubSeqFull DEF Slice

(***************************************************************************)
(* Adjacent slices join up.                                                *)
(***************************************************************************)
LEMMA TwoSlices ==
  ASSUME NEW k \in Nat, NEW b \in Bytes(k), NEW m \in Nat, NEW n \in Nat, m <= n, n <= k
  PROVE  Slice(b, 0, m) \o Slice(b, m, n) = Slice(b, 0, n)
<1>1. b \in Seq(Byte) /\ Len(b) = k
  BY BytesAre
<1>2. 1 \in 1 .. Len(b) + 1 /\ m \in 1 - 1 .. Len(b) /\ n \in m .. Len(b)
  BY <1>1
<1>3. SubSeq(b, 1, m) \o SubSeq(b, m + 1, n) = SubSeq(b, 1, n)
  BY <1>1, <1>2, ConcatAdjacentSubSeq
<1> QED BY <1>3 DEF Slice

(***************************************************************************)
(* The bytes of a concatenation.                                           *)
(***************************************************************************)
LEMMA TwoParts ==
  ASSUME NEW m \in Nat, NEW n \in Nat, NEW s \in Bytes(m), NEW t \in Bytes(n)
  PROVE  /\ s \o t \in Bytes(m + n)
         /\ \A i \in 1 .. m : (s \o t)[i] = s[i]
         /\ \A i \in 1 .. n : (s \o t)[m + i] = t[i]
<1>1. s \in Seq(Byte) /\ Len(s) = m /\ t \in Seq(Byte) /\ Len(t) = n
  BY BytesAre
<1>2. /\ s \o t \in Seq(Byte) /\ Len(s \o t) = m + n
      /\ \A i \in 1 .. m + n : (s \o t)[i] = IF i <= m THEN s[i] ELSE t[i - m]
  BY <1>1, ConcatProperties
<1>3. s \o t \in Bytes(m + n)
  <2>1. m + n \in Nat
    OBVIOUS
  <2> QED BY <1>2, <2>1, BytesAre
<1>4. ASSUME NEW i \in 1 .. m PROVE (s \o t)[i] = s[i]
  BY <1>2
<1>5. ASSUME NEW i \in 1 .. n PROVE (s \o t)[m + i] = t[i]
  <2>1. m + i \in 1 .. m + n /\ ~ (m + i <= m) /\ m + i - m = i
    OBVIOUS
  <2> QED BY <1>2, <2>1
<1> QED BY <1>3, <1>4, <1>5

(***************************************************************************)
(* The parts of a concatenation are its slices, and a slice of the first   *)
(* part is a slice of the whole.                                           *)
(***************************************************************************)
LEMMA PartsAreSlices ==
  ASSUME NEW m \in Nat, NEW n \in Nat, NEW s \in Bytes(m), NEW t \in Bytes(n)
  PROVE  /\ s \o t \in Bytes(m + n)
         /\ Slice(s \o t, 0, m) = s /\ Slice(s \o t, m, m + n) = t
         /\ \A i, j \in Nat : i <= j /\ j <= m => Slice(s \o t, i, j) = Slice(s, i, j)
<1> DEFINE k == m + n
           b == s \o t
<1>1. k \in Nat /\ m <= k /\ m + n <= k
  OBVIOUS
<1>2. /\ b \in Bytes(k)
      /\ \A i \in 1 .. m : b[i] = s[i]
      /\ \A i \in 1 .. n : b[m + i] = t[i]
  BY TwoParts
<1> HIDE DEF k, b
<1>3. Slice(b, m, m + n) = t
  BY <1>1, <1>2, SliceEquals
<1>4. ASSUME NEW i \in Nat, NEW j \in Nat, i <= j, j <= m
      PROVE  Slice(b, i, j) = Slice(s, i, j)
  <2>1. j - i \in Nat /\ j <= k
    BY <1>1, <1>4
  <2>2. /\ Slice(s, i, j) \in Bytes(j - i)
        /\ \A h \in 1 .. j - i : Slice(s, i, j)[h] = s[i + h]
    BY <1>4, SliceIs
  <2>3. /\ Slice(b, i, j) \in Bytes(j - i)
        /\ \A h \in 1 .. j - i : Slice(b, i, j)[h] = b[i + h]
    BY <1>1, <1>2, <1>4, <2>1, SliceIs
  <2>4. \A h \in 1 .. j - i : b[i + h] = s[i + h]
    <3>1. ASSUME NEW h \in 1 .. j - i PROVE i + h \in 1 .. m
      BY <1>4
    <3> QED BY <1>2, <3>1
  <2>5. \A h \in 1 .. j - i : Slice(b, i, j)[h] = Slice(s, i, j)[h]
    BY <2>2, <2>3, <2>4
  <2> QED BY <2>1, <2>2, <2>3, <2>5, SameBytes
<1>5. Slice(b, 0, m) = s
  BY <1>4, WholeSlice
<1> QED BY <1>2, <1>3, <1>4, <1>5 DEF b, k

(***************************************************************************)
(* The same for three parts.                                               *)
(***************************************************************************)
LEMMA ThreeParts ==
  ASSUME NEW i \in Nat, NEW j \in Nat, NEW k \in Nat,
         NEW s \in Bytes(i), NEW t \in Bytes(j), NEW u \in Bytes(k)
  PROVE  LET b == s \o t \o u
         IN  /\ b \in Bytes(i + j + k)
             /\ Slice(b, 0, i) = s /\ Slice(b, i, i + j) = t
             /\ Slice(b, i + j, i + j + k) = u
<1> DEFINE a == s \o t
<1>1. /\ a \in Bytes(i + j) /\ i + j \in Nat
      /\ Slice(a, 0, i) = s /\ Slice(a, i, i + j) = t
  BY PartsAreSlices
<1>2. a \o u = s \o t \o u
  OBVIOUS
<1> HIDE DEF a
<1>3. /\ a \o u \in Bytes(i + j + k) /\ Slice(a \o u, i + j, i + j + k) = u
      /\ \A m, n \in Nat : m <= n /\ n <= i + j => Slice(a \o u, m, n) = Slice(a, m, n)
  BY <1>1, PartsAreSlices
<1>4. Slice(a \o u, 0, i) = s /\ Slice(a \o u, i, i + j) = t
  BY <1>1, <1>3
<1> QED BY <1>2, <1>3, <1>4

-----------------------------------------------------------------------------
(***************************************************************************)
(* A pulse is read back as it was encoded (LIGHT_PULSE and                 *)
(* LIGHT_WASH_PULSE share the layout), in 13 bytes.                        *)
(***************************************************************************)
LEMMA PulseIsRead ==
  ASSUME NEW f \in LightPulse
  PROVE  PulsePayload(f) \in Bytes(13) /\ PulseFields(PulsePayload(f)) = f
<1>1. /\ Low(f.target_class) = f.target_class
      /\ Low(f.r) = f.r /\ Low(f.g) = f.g /\ Low(f.b) = f.b
      /\ Low(f.attack) = f.attack /\ Low(f.sustain) = f.sustain
      /\ Low(f.release) = f.release /\ Low(f.chance) = f.chance
      /\ Low(f.led_mode) = f.led_mode /\ Low(f.led_modifier1) = f.led_modifier1
      /\ Low(f.led_modifier2) = f.led_modifier2
  BY ByteIsKept DEF LightPulse
<1>2. /\ Low(f.target_group) \in Byte /\ High(f.target_group) \in Byte
      /\ Low(f.target_group) + 256 * High(f.target_group) = f.target_group
  BY WordIsKept DEF LightPulse
<1>3. PulsePayload(f) \in Seq(Byte) /\ Len(PulsePayload(f)) = 13
  BY <1>1, <1>2 DEF PulsePayload, LightPulse
<1>4. PulseFields(PulsePayload(f)) = f
  BY <1>1, <1>2 DEF PulsePayload, PulseFields, LightPulse, At, WordAt
<1> QED BY <1>3, <1>4, BytesAre

(***************************************************************************)
(* Any 13 bytes read as a pulse are what that pulse is encoded as: the     *)
(* parser drops nothing.                                                   *)
(***************************************************************************)
LEMMA PulseIsWritten ==
  ASSUME NEW p \in Bytes(13)
  PROVE  PulsePayload(PulseFields(p)) = p
<1>1. PulsePayload(PulseFields(p)) =
        <<p[1], p[2], p[3], p[4], p[5], p[6], p[7], p[8], p[9], p[10], p[11], p[12], p[13]>>
  <2>1. \A i \in 1 .. 13 : p[i] \in Byte /\ Low(p[i]) = p[i]
    BY OneByte
  <2>2. Low(p[2] + 256 * p[3]) = p[2] /\ High(p[2] + 256 * p[3]) = p[3]
    BY <2>1, BytesMakeWord
  <2> QED BY <2>1, <2>2 DEF PulsePayload, PulseFields, At, WordAt
<1>2. p \in Seq(Byte) /\ Len(p) = 13
  BY BytesAre
<1> QED BY <1>1, <1>2

(***************************************************************************)
(* A wash is read back as it was encoded, in 20 bytes.                     *)
(***************************************************************************)
LEMMA WashIsRead ==
  ASSUME NEW f \in LightWash
  PROVE  WashPayload(f) \in Bytes(20) /\ WashFields(WashPayload(f)) = f
<1>1. /\ Low(f.target_class) = f.target_class
      /\ Low(f.r1) = f.r1 /\ Low(f.g1) = f.g1 /\ Low(f.b1) = f.b1
      /\ Low(f.r2) = f.r2 /\ Low(f.g2) = f.g2 /\ Low(f.b2) = f.b2
      /\ Low(f.wash_attack) = f.wash_attack /\ Low(f.wash_release) = f.wash_release
      /\ Low(f.intensity) = f.intensity /\ Low(f.pulse_response) = f.pulse_response
      /\ Low(f.led_mode) = f.led_mode /\ Low(f.led_modifier1) = f.led_modifier1
      /\ Low(f.led_modifier2) = f.led_modifier2
  BY ByteIsKept DEF LightWash
<1>2. /\ Low(f.target_group) \in Byte /\ High(f.target_group) \in Byte
      /\ Low(f.target_group) + 256 * High(f.target_group) = f.target_group
      /\ Low(f.cycle_ms) \in Byte /\ High(f.cycle_ms) \in Byte
      /\ Low(f.cycle_ms) + 256 * High(f.cycle_ms) = f.cycle_ms
      /\ Low(f.ttl_seconds) \in Byte /\ High(f.ttl_seconds) \in Byte
      /\ Low(f.ttl_seconds) + 256 * High(f.ttl_seconds) = f.ttl_seconds
  BY WordIsKept DEF LightWash
<1>3. WashPayload(f) \in Seq(Byte) /\ Len(WashPayload(f)) = 20
  BY <1>1, <1>2 DEF WashPayload, LightWash
<1>4. WashFields(WashPayload(f)) = f
  <2> DEFINE p == WashPayload(f)
  <2>1. /\ p[1] = f.target_class /\ p[2] + 256 * p[3] = f.target_group
        /\ p[4] = f.r1 /\ p[5] = f.g1 /\ p[6] = f.b1 /\ p[7] = f.r2 /\ p[8] = f.g2
        /\ p[9] = f.b2 /\ p[10] = f.wash_attack /\ p[11] = f.wash_release
        /\ p[12] = f.intensity /\ p[13] + 256 * p[14] = f.cycle_ms
        /\ p[15] + 256 * p[16] = f.ttl_seconds /\ p[17] = f.pulse_response
        /\ p[18] = f.led_mode /\ p[19] = f.led_modifier1 /\ p[20] = f.led_modifier2
    BY <1>1, <1>2 DEF WashPayload
  <2> HIDE DEF p
  <2>2. WashFields(p) = f
    BY <2>1 DEF WashFields, LightWash, At, WordAt
  <2> QED BY <2>2 DEF p
<1> QED BY <1>3, <1>4, BytesAre

(***************************************************************************)
(* Any 20 bytes read as a wash are what that wash is encoded as.           *)
(***************************************************************************)
LEMMA WashIsWritten ==
  ASSUME NEW p \in Bytes(20)
  PROVE  WashPayload(WashFields(p)) = p
<1>1. WashPayload(WashFields(p)) =
        <<p[1], p[2], p[3], p[4], p[5], p[6], p[7], p[8], p[9], p[10], p[11], p[12], p[13],
          p[14], p[15], p[16], p[17], p[18], p[19], p[20]>>
  <2>1. \A i \in 1 .. 20 : p[i] \in Byte /\ Low(p[i]) = p[i]
    BY OneByte
  <2>2. /\ Low(p[2] + 256 * p[3]) = p[2] /\ High(p[2] + 256 * p[3]) = p[3]
        /\ Low(p[13] + 256 * p[14]) = p[13] /\ High(p[13] + 256 * p[14]) = p[14]
        /\ Low(p[15] + 256 * p[16]) = p[15] /\ High(p[15] + 256 * p[16]) = p[16]
    BY <2>1, BytesMakeWord
  <2> QED BY <2>1, <2>2 DEF WashPayload, WashFields, At, WordAt
<1>2. p \in Seq(Byte) /\ Len(p) = 20
  BY BytesAre
<1> QED BY <1>1, <1>2

(***************************************************************************)
(* The end of a wash is read back as it was encoded, in 7 bytes.           *)
(***************************************************************************)
LEMMA WashEndIsRead ==
  ASSUME NEW f \in LightWashEnd
  PROVE  WashEndPayload(f) \in Bytes(7) /\ WashEndFields(WashEndPayload(f)) = f
<1>1. /\ Low(f.target_class) = f.target_class /\ Low(f.release_time) = f.release_time
      /\ Low(f.led_mode) = f.led_mode /\ Low(f.led_modifier1) = f.led_modifier1
      /\ Low(f.led_modifier2) = f.led_modifier2
  BY ByteIsKept DEF LightWashEnd
<1>2. /\ Low(f.target_group) \in Byte /\ High(f.target_group) \in Byte
      /\ Low(f.target_group) + 256 * High(f.target_group) = f.target_group
  BY WordIsKept DEF LightWashEnd
<1>3. WashEndPayload(f) \in Seq(Byte) /\ Len(WashEndPayload(f)) = 7
  BY <1>1, <1>2 DEF WashEndPayload, LightWashEnd
<1>4. WashEndFields(WashEndPayload(f)) = f
  BY <1>1, <1>2 DEF WashEndPayload, WashEndFields, LightWashEnd, At, WordAt
<1> QED BY <1>3, <1>4, BytesAre

(***************************************************************************)
(* Any 7 bytes read as the end of a wash are what it is encoded as.        *)
(***************************************************************************)
LEMMA WashEndIsWritten ==
  ASSUME NEW p \in Bytes(7)
  PROVE  WashEndPayload(WashEndFields(p)) = p
<1>1. WashEndPayload(WashEndFields(p)) = <<p[1], p[2], p[3], p[4], p[5], p[6], p[7]>>
  <2>1. \A i \in 1 .. 7 : p[i] \in Byte /\ Low(p[i]) = p[i]
    BY OneByte
  <2>2. Low(p[2] + 256 * p[3]) = p[2] /\ High(p[2] + 256 * p[3]) = p[3]
    BY <2>1, BytesMakeWord
  <2> QED BY <2>1, <2>2 DEF WashEndPayload, WashEndFields, At, WordAt
<1>2. p \in Seq(Byte) /\ Len(p) = 7
  BY BytesAre
<1> QED BY <1>1, <1>2

(***************************************************************************)
(* A CLEAR_SCREEN is read back as it was encoded, in 4 bytes.              *)
(***************************************************************************)
LEMMA ClearIsRead ==
  ASSUME NEW f \in ClearScreen
  PROVE  ClearPayload(f) \in Bytes(4) /\ ClearFields(ClearPayload(f)) = f
<1>1. /\ f.clear_text \in Byte /\ Truth(f.clear_text) = f.clear_text
      /\ f.clear_bitmap \in Byte /\ Truth(f.clear_bitmap) = f.clear_bitmap
  BY ByteRange DEF ClearScreen, Truth
<1>2. /\ Low(f.clear_target_group) \in Byte /\ High(f.clear_target_group) \in Byte
      /\ Low(f.clear_target_group) + 256 * High(f.clear_target_group) = f.clear_target_group
  BY WordIsKept DEF ClearScreen
<1>3. ClearPayload(f) \in Seq(Byte) /\ Len(ClearPayload(f)) = 4
  BY <1>1, <1>2 DEF ClearPayload
<1>4. ClearFields(ClearPayload(f)) = f
  BY <1>1, <1>2 DEF ClearPayload, ClearFields, ClearScreen, At, WordAt
<1> QED BY <1>3, <1>4, BytesAre

(***************************************************************************)
(* Four bytes whose two flags are 0 or 1 are what the CLEAR_SCREEN read    *)
(* from them is encoded as; any other flag is read as true and so encoded  *)
(* as 1.                                                                   *)
(***************************************************************************)
LEMMA ClearIsWritten ==
  ASSUME NEW p \in Bytes(4), {At(p, 2), At(p, 3)} \subseteq {0, 1}
  PROVE  ClearPayload(ClearFields(p)) = p
<1>1. ClearPayload(ClearFields(p)) = <<p[1], p[2], p[3], p[4]>>
  <2>1. Low(p[1] + 256 * p[2]) = p[1] /\ High(p[1] + 256 * p[2]) = p[2]
    BY OneByte, BytesMakeWord
  <2>2. p[3] \in {0, 1} /\ p[4] \in {0, 1}
    BY DEF At
  <2> QED BY <2>1, <2>2 DEF ClearPayload, ClearFields, Truth, At, WordAt
<1>2. p \in Seq(Byte) /\ Len(p) = 4
  BY BytesAre
<1> QED BY <1>1, <1>2

(***************************************************************************)
(* A byte by its place in a string and by its place in a slice of it.      *)
(***************************************************************************)
LEMMA BytesOfSlice ==
  ASSUME NEW k \in Nat, NEW b \in Bytes(k), NEW m \in Nat, NEW n \in Nat, m <= n, n <= k
  PROVE  \A i \in Nat : i < n - m => At(b, m + i) = At(Slice(b, m, n), i)
<1>1. ASSUME NEW i \in Nat, i < n - m PROVE At(b, m + i) = At(Slice(b, m, n), i)
  <2>1. i + 1 \in 1 .. n - m /\ m + (i + 1) = m + i + 1
    BY <1>1
  <2>2. \A h \in 1 .. n - m : Slice(b, m, n)[h] = b[m + h]
    BY SliceIs
  <2>3. Slice(b, m, n)[i + 1] = b[m + (i + 1)]
    BY <2>1, <2>2
  <2> QED BY <2>1, <2>3 DEF At
<1> QED BY <1>1

(***************************************************************************)
(* A number is read from the place its two bytes were put.                 *)
(***************************************************************************)
LEMMA WordIsRead ==
  ASSUME NEW k \in Nat, NEW b \in Bytes(k), NEW m \in Nat, m + 2 <= k,
         NEW v \in Word, Slice(b, m, m + 2) = <<Low(v), High(v)>>
  PROVE  WordAt(b, m) = v
<1> DEFINE n == m + 2
<1>1. m + 2 \in Nat /\ m <= m + 2 /\ 0 \in Nat /\ 1 \in Nat /\ 0 < (m + 2) - m /\ 1 < (m + 2) - m
  OBVIOUS
<1>2. \A i \in Nat : i < (m + 2) - m => At(b, m + i) = At(Slice(b, m, m + 2), i)
  BY <1>1, BytesOfSlice
<1>3. At(b, m + 0) = At(Slice(b, m, m + 2), 0) /\ At(b, m + 1) = At(Slice(b, m, m + 2), 1)
  BY <1>1, <1>2
<1>4. At(Slice(b, m, m + 2), 0) = Low(v) /\ At(Slice(b, m, m + 2), 1) = High(v)
  BY DEF At
<1>5. m + 0 = m
  OBVIOUS
<1> QED BY <1>3, <1>4, <1>5, WordIsKept DEF WordAt

(***************************************************************************)
(* The number read at a place is written as the bytes at that place.       *)
(***************************************************************************)
LEMMA WordIsWritten ==
  ASSUME NEW k \in Nat, NEW b \in Bytes(k), NEW m \in Nat, m + 2 <= k
  PROVE  /\ WordAt(b, m) \in Word
         /\ <<Low(WordAt(b, m)), High(WordAt(b, m))>> = Slice(b, m, m + 2)
<1>1. m + 1 \in 1 .. k /\ m + 1 + 1 \in 1 .. k
  OBVIOUS
<1>2. b[m + 1] \in Byte /\ b[m + 1 + 1] \in Byte
  BY <1>1, OneByte
<1>3. /\ WordAt(b, m) \in Word
      /\ Low(WordAt(b, m)) = b[m + 1] /\ High(WordAt(b, m)) = b[m + 1 + 1]
  BY <1>2, BytesMakeWord DEF WordAt, At
<1> DEFINE s == <<b[m + 1], b[m + 1 + 1]>>
<1>4. s \in Bytes(2) /\ s[1] = b[m + 1] /\ s[2] = b[m + 1 + 1]
  BY <1>2 DEF Bytes
<1>5. \A i \in 1 .. 2 : b[m + i] = s[i]
  <2>1. m + 2 = m + 1 + 1
    OBVIOUS
  <2> QED BY <1>4, <2>1
<1> HIDE DEF s
<1>6. Slice(b, m, m + 2) = s
  BY <1>4, <1>5, SliceEquals
<1> QED BY <1>3, <1>6 DEF s

(***************************************************************************)
(* A slice of a slice is a slice.                                          *)
(***************************************************************************)
LEMMA SliceOfSlice ==
  ASSUME NEW k \in Nat, NEW b \in Bytes(k), NEW m \in Nat, NEW n \in Nat, m <= n, n <= k,
         NEW i \in Nat, NEW j \in Nat, i <= j, j <= n - m
  PROVE  Slice(Slice(b, m, n), i, j) = Slice(b, m + i, m + j)
<1> DEFINE s == Slice(b, m, n)
           w == n - m
           c == j - i
           x == m + i
           y == m + j
<1>1. w \in Nat /\ c \in Nat /\ x \in Nat /\ y \in Nat /\ x <= y /\ y <= k /\ y - x = c /\ j <= w
  OBVIOUS
<1>2. s \in Bytes(w) /\ \A h \in 1 .. w : s[h] = b[m + h]
  BY SliceIs
<1>3. \A h \in 1 .. c : i + h \in 1 .. w /\ m + (i + h) = x + h
  OBVIOUS
<1> HIDE DEF s, w, c, x, y
<1>4. Slice(s, i, j) \in Bytes(c) /\ \A h \in 1 .. c : Slice(s, i, j)[h] = s[i + h]
  BY <1>1, <1>2, SliceIs DEF c
<1>5. Slice(b, x, y) \in Bytes(c) /\ \A h \in 1 .. c : Slice(b, x, y)[h] = b[x + h]
  <2>1. /\ Slice(b, x, y) \in Bytes(y - x)
        /\ \A h \in 1 .. y - x : Slice(b, x, y)[h] = b[x + h]
    BY <1>1, SliceIs
  <2> QED BY <1>1, <2>1
<1>6. \A h \in 1 .. c : Slice(s, i, j)[h] = Slice(b, x, y)[h]
  BY <1>2, <1>3, <1>4, <1>5
<1>7. Slice(s, i, j) = Slice(b, x, y)
  BY <1>1, <1>4, <1>5, <1>6, SameBytes
<1> QED BY <1>7 DEF s, x, y

(***************************************************************************)
(* A slice of one byte.                                                    *)
(***************************************************************************)
LEMMA OneByteSlice ==
  ASSUME NEW k \in Nat, NEW b \in Bytes(k), NEW m \in Nat, m < k
  PROVE  At(b, m) \in Byte /\ Slice(b, m, m + 1) = <<At(b, m)>>
<1>1. m + 1 \in 1 .. k /\ m + 1 <= k
  OBVIOUS
<1>2. b[m + 1] \in Byte
  BY <1>1, OneByte
<1> DEFINE s == <<b[m + 1]>>
<1>3. s \in Bytes(1) /\ \A i \in 1 .. 1 : b[m + i] = s[i]
  BY <1>2 DEF Bytes
<1> HIDE DEF s
<1>4. Slice(b, m, m + 1) = s
  BY <1>1, <1>3, SliceEquals
<1> QED BY <1>2, <1>4 DEF s, At

(***************************************************************************)
(* A counted string: its length in one byte, then the string.              *)
(***************************************************************************)
LEMMA CountedIs ==
  ASSUME NEW n \in Nat, n <= 255, NEW s \in Bytes(n)
  PROVE  /\ Counted(s) \in Bytes(1 + n)
         /\ At(Counted(s), 0) = n /\ Slice(Counted(s), 1, 1 + n) = s
<1>1. s \in Seq(Byte) /\ Len(s) = n
  BY BytesAre
<1>2. n \in Byte
  BY ByteRange
<1>3. Low(Len(s)) = n
  BY <1>1, <1>2, ByteIsKept
<1> DEFINE c == <<n>>
<1>4. c \in Bytes(1) /\ c[1] = n
  BY <1>2 DEF Bytes
<1>5. Counted(s) = c \o s
  BY <1>3 DEF Counted
<1> HIDE DEF c
<1>6. 1 \in Nat /\ 1 \in 1 .. 1 /\ 0 + 1 = 1
  OBVIOUS
<1>7. c \o s \in Bytes(1 + n) /\ Slice(c \o s, 1, 1 + n) = s
  BY <1>4, <1>6, PartsAreSlices
<1>8. (c \o s)[1] = c[1]
  BY <1>4, <1>6, TwoParts
<1>9. At(c \o s, 0) = n
  BY <1>4, <1>6, <1>8, Zenon DEF At
<1> QED BY <1>5, <1>7, <1>9

(***************************************************************************)
(* A counted string inside a payload is read back from its count.          *)
(***************************************************************************)
LEMMA CountedIsRead ==
  ASSUME NEW k \in Nat, NEW b \in Bytes(k), NEW m \in Nat, NEW n \in Nat, n <= 255,
         NEW s \in Bytes(n), m + (1 + n) <= k, Slice(b, m, m + (1 + n)) = Counted(s)
  PROVE  At(b, m) = n /\ Slice(b, m + 1, m + 1 + n) = s
<1> DEFINE e == m + (1 + n)
<1>1. e \in Nat /\ m <= e /\ e <= k /\ e - m = 1 + n
  OBVIOUS
<1>2. /\ Counted(s) \in Bytes(1 + n)
      /\ At(Counted(s), 0) = n /\ Slice(Counted(s), 1, 1 + n) = s
  BY CountedIs
<1> HIDE DEF e
<1>3. Slice(b, m, e) = Counted(s)
  BY DEF e
<1>4. 0 < e - m /\ 1 <= 1 + n /\ 1 + n <= e - m /\ 1 + n \in Nat
  BY <1>1
<1>5. At(b, m + 0) = At(Slice(b, m, e), 0)
  BY <1>1, <1>4, BytesOfSlice
<1>6. Slice(Slice(b, m, e), 1, 1 + n) = Slice(b, m + 1, m + (1 + n))
  BY <1>1, <1>4, SliceOfSlice
<1>7. m + (1 + n) = m + 1 + n /\ m + 0 = m
  OBVIOUS
<1> QED BY <1>2, <1>3, <1>5, <1>6, <1>7

(***************************************************************************)
(* The bytes a count spans are, counted again, the bytes that were there.  *)
(***************************************************************************)
LEMMA CountedIsWritten ==
  ASSUME NEW k \in Nat, NEW b \in Bytes(k), NEW m \in Nat, m < k,
         NEW n \in Nat, n = At(b, m), m + 1 + n <= k
  PROVE  /\ Slice(b, m + 1, m + 1 + n) \in Bytes(n)
         /\ Counted(Slice(b, m + 1, m + 1 + n)) = Slice(b, m, m + 1 + n)
<1> DEFINE a == m + 1
           e == m + 1 + n
           s == Slice(b, a, e)
<1>1. a \in Nat /\ e \in Nat /\ a <= e /\ e <= k /\ e - a = n /\ m <= a /\ m <= e /\ a <= k
  OBVIOUS
<1>2. At(b, m) \in Byte /\ Slice(b, m, a) = <<At(b, m)>>
  BY OneByteSlice
<1> HIDE DEF a, e
<1>3. s \in Bytes(n)
  <2>1. s \in Bytes(e - a)
    BY <1>1, SliceIs
  <2> QED BY <1>1, <2>1
<1>4. s \in Seq(Byte) /\ Len(s) = n
  BY <1>3, BytesAre
<1>5. Low(Len(s)) = At(b, m)
  BY <1>2, <1>4, ByteIsKept
<1>6. Counted(s) = Slice(b, m, a) \o Slice(b, a, e)
  BY <1>2, <1>5 DEF Counted
<1>7. Slice(b, m, a) \o Slice(b, a, e) = Slice(b, m, e)
  <2>1. b \in Seq(Byte) /\ Len(b) = k
    BY BytesAre
  <2>2. m + 1 \in 1 .. Len(b) + 1 /\ a \in (m + 1) - 1 .. Len(b) /\ e \in a .. Len(b)
    BY <1>1, <2>1
  <2>3. SubSeq(b, m + 1, a) \o SubSeq(b, a + 1, e) = SubSeq(b, m + 1, e)
    BY <2>1, <2>2, ConcatAdjacentSubSeq
  <2> QED BY <2>3 DEF Slice
<1> QED BY <1>3, <1>6, <1>7 DEF a, e

(***************************************************************************)
(* A heartbeat is read back as it was encoded, in 9 bytes.                 *)
(***************************************************************************)
LEMMA HeartbeatIsRead ==
  ASSUME NEW f \in Heartbeat
  PROVE  HeartbeatPayload(f) \in Bytes(9) /\ HeartbeatFields(HeartbeatPayload(f)) = f
<1> DEFINE w == <<Low(f.days_since_2026), High(f.days_since_2026)>>
           p == f.tick \o w \o f.centiseconds_today
<1>1. f.tick \in Bytes(4) /\ f.centiseconds_today \in Bytes(3) /\ f.days_since_2026 \in Word
  BY DEF Heartbeat
<1>2. w \in Bytes(2)
  BY <1>1, WordIsKept DEF Bytes
<1>3. 4 \in Nat /\ 2 \in Nat /\ 3 \in Nat /\ 4 + 2 = 6 /\ 4 + 2 + 3 = 9 /\ 9 \in Nat /\ 4 + 2 <= 9
  OBVIOUS
<1>4. f = [tick |-> f.tick, days_since_2026 |-> f.days_since_2026,
           centiseconds_today |-> f.centiseconds_today]
  BY DEF Heartbeat
<1> HIDE DEF w
<1>5. /\ p \in Bytes(4 + 2 + 3)
      /\ Slice(p, 0, 4) = f.tick /\ Slice(p, 4, 4 + 2) = w
      /\ Slice(p, 4 + 2, 4 + 2 + 3) = f.centiseconds_today
  <2> DEFINE x == f.tick
             y == f.centiseconds_today
  <2>1. x \in Bytes(4) /\ y \in Bytes(3) /\ 4 \in Nat /\ 2 \in Nat /\ 3 \in Nat
    BY <1>1
  <2> HIDE DEF x, y
  <2>2. /\ x \o w \o y \in Bytes(4 + 2 + 3)
        /\ Slice(x \o w \o y, 0, 4) = x /\ Slice(x \o w \o y, 4, 4 + 2) = w
        /\ Slice(x \o w \o y, 4 + 2, 4 + 2 + 3) = y
    BY <1>2, <2>1, ThreeParts
  <2> QED BY <2>2 DEF x, y
<1> HIDE DEF p
<1>6. p \in Bytes(9) /\ Slice(p, 6, 9) = f.centiseconds_today
  BY <1>3, <1>5
<1>7. WordAt(p, 4) = f.days_since_2026
  BY <1>1, <1>3, <1>5, <1>6, WordIsRead DEF w
<1>8. HeartbeatFields(p) = f
  BY <1>4, <1>5, <1>6, <1>7, Zenon DEF HeartbeatFields
<1>9. HeartbeatPayload(f) = p
  BY DEF HeartbeatPayload, p, w
<1> QED BY <1>6, <1>8, <1>9

(***************************************************************************)
(* Any 9 bytes read as a heartbeat are what it is encoded as.              *)
(***************************************************************************)
LEMMA HeartbeatIsWritten ==
  ASSUME NEW p \in Bytes(9)
  PROVE  HeartbeatPayload(HeartbeatFields(p)) = p
<1>1. 9 \in Nat /\ 4 \in Nat /\ 6 \in Nat /\ 4 + 2 = 6 /\ 4 + 2 <= 9 /\ 4 <= 6 /\ 6 <= 9 /\ 9 <= 9
  OBVIOUS
<1>2. <<Low(WordAt(p, 4)), High(WordAt(p, 4))>> = Slice(p, 4, 6)
  BY <1>1, WordIsWritten, Zenon
<1>3. HeartbeatPayload(HeartbeatFields(p)) = Slice(p, 0, 4) \o Slice(p, 4, 6) \o Slice(p, 6, 9)
  BY <1>2 DEF HeartbeatPayload, HeartbeatFields
<1>4. Slice(p, 0, 4) \o Slice(p, 4, 6) = Slice(p, 0, 6)
  BY <1>1, TwoSlices
<1>5. Slice(p, 0, 6) \o Slice(p, 6, 9) = Slice(p, 0, 9)
  BY <1>1, TwoSlices
<1>6. Slice(p, 0, 9) = p
  BY <1>1, WholeSlice
<1> QED BY <1>3, <1>4, <1>5, <1>6

(***************************************************************************)
(* A TEXT_DISPLAY fits a frame, is accepted by the parser, and is read     *)
(* back with its two texts: the counts bound them wherever the header      *)
(* ends.                                                                   *)
(***************************************************************************)
LEMMA TextIsRead ==
  ASSUME NEW f \in TextDisplay
  PROVE  LET p == TextPayload(f)
         IN  /\ p \in Seq(Byte) /\ Len(p) <= 241
             /\ SoundText(p) /\ TextFields(p) = AsShown(TEXT_DISPLAY, f)
<1> DEFINE w == <<Low(f.text_target_group), High(f.text_target_group), Low(f.text_r),
                  Low(f.text_g), Low(f.text_b), Low(f.ttl_ms), High(f.ttl_ms)>>
           h == Len(f.header)
           d == Len(f.body)
           u == Counted(f.header)
           v == Counted(f.body)
           p == w \o u \o v
           e == 7 + (1 + h)
           n == 7 + (1 + h) + (1 + d)
<1>1. /\ f.text_target_group \in Word /\ f.text_r \in Byte /\ f.text_g \in Byte
      /\ f.text_b \in Byte /\ f.ttl_ms \in Word
      /\ f.header \in Seq(Byte) /\ h <= MAX_HEADER_LEN
      /\ f.body \in Seq(Byte) /\ d <= MAX_BODY_LEN
  BY DEF TextDisplay, Text
<1>2. h \in Nat /\ d \in Nat /\ h <= 64 /\ d <= 128 /\ h <= 255 /\ d <= 255
  BY <1>1, FrameAssumption
<1>3. /\ w \in Bytes(7)
      /\ w[1] + 256 * w[2] = f.text_target_group /\ w[3] = f.text_r /\ w[4] = f.text_g
      /\ w[5] = f.text_b /\ w[6] + 256 * w[7] = f.ttl_ms
  <2>1. Low(f.text_r) = f.text_r /\ Low(f.text_g) = f.text_g /\ Low(f.text_b) = f.text_b
    BY <1>1, ByteIsKept
  <2>2. /\ Low(f.text_target_group) \in Byte /\ High(f.text_target_group) \in Byte
        /\ Low(f.text_target_group) + 256 * High(f.text_target_group) = f.text_target_group
        /\ Low(f.ttl_ms) \in Byte /\ High(f.ttl_ms) \in Byte
        /\ Low(f.ttl_ms) + 256 * High(f.ttl_ms) = f.ttl_ms
    BY <1>1, WordIsKept
  <2>3. w \in Seq(Byte) /\ Len(w) = 7
    BY <1>1, <2>1, <2>2
  <2>4. w \in Bytes(7)
    BY <2>3, BytesAre
  <2> QED BY <2>1, <2>2, <2>4
<1>4. p = TextPayload(f)
  BY DEF TextPayload
<1>5. f.header \in Bytes(h) /\ f.body \in Bytes(d)
  BY <1>1, <1>2, BytesAre
<1>6. f = [text_target_group |-> f.text_target_group, text_r |-> f.text_r,
           text_g |-> f.text_g, text_b |-> f.text_b, ttl_ms |-> f.ttl_ms,
           header |-> f.header, body |-> f.body]
  BY DEF TextDisplay
<1> HIDE DEF w, h, d
<1>7. /\ e \in Nat /\ n \in Nat /\ e <= n /\ n <= 201 /\ e = 8 + h /\ n = 8 + h + 1 + d
      /\ 7 + (1 + h) <= n /\ e + (1 + d) <= n /\ 7 <= n /\ 7 \in Nat /\ n = e + (1 + d)
      /\ 1 + h \in Nat /\ 1 + d \in Nat /\ 7 + 1 = 8 /\ 7 + 1 + h = e /\ e + 1 + d = n
  BY <1>2
<1>8. u \in Bytes(1 + h) /\ v \in Bytes(1 + d)
  BY <1>2, <1>5, CountedIs
<1> HIDE DEF u, v
<1>9. /\ p \in Bytes(7 + (1 + h) + (1 + d))
      /\ Slice(p, 0, 7) = w /\ Slice(p, 7, 7 + (1 + h)) = u
      /\ Slice(p, 7 + (1 + h), 7 + (1 + h) + (1 + d)) = v
  BY <1>3, <1>7, <1>8, ThreeParts
<1> HIDE DEF p
<1>10. p \in Bytes(n) /\ Slice(p, 7, 7 + (1 + h)) = Counted(f.header)
       /\ Slice(p, e, e + (1 + d)) = Counted(f.body)
  BY <1>9 DEF u, v
<1> HIDE DEF e, n
<1>11. At(p, 7) = h /\ Slice(p, 8, e) = f.header
  <2>1. At(p, 7) = h /\ Slice(p, 7 + 1, 7 + 1 + h) = f.header
    BY <1>2, <1>5, <1>7, <1>10, CountedIsRead
  <2> QED BY <1>7, <2>1
<1>12. At(p, e) = d /\ Slice(p, e + 1, n) = f.body
  <2>1. At(p, e) = d /\ Slice(p, e + 1, e + 1 + d) = f.body
    BY <1>2, <1>5, <1>7, <1>10, CountedIsRead
  <2> QED BY <1>7, <2>1
<1>13. p \in Seq(Byte) /\ Len(p) = n
  BY <1>7, <1>10, BytesAre
<1>14. HeaderEnd(p) = e
  BY <1>7, <1>11 DEF HeaderEnd, TEXT_DISPLAY_FIXED_PREFIX
<1>15. SoundText(p)
  <2>1. Len(p) >= 7 + 2 /\ Len(p) >= e + 1 /\ Len(p) = e + 1 + d
    BY <1>2, <1>7, <1>13
  <2> QED BY <1>1, <1>11, <1>12, <1>14, <2>1 DEF SoundText, TEXT_DISPLAY_FIXED_PREFIX
<1>16. HeaderBytes(p) = f.header /\ BodyBytes(p) = f.body
  BY <1>7, <1>11, <1>12, <1>13, <1>14 DEF HeaderBytes, BodyBytes, TEXT_DISPLAY_FIXED_PREFIX
<1>17. /\ WordAt(p, 0) = f.text_target_group /\ At(p, 2) = f.text_r /\ At(p, 3) = f.text_g
       /\ At(p, 4) = f.text_b /\ WordAt(p, 5) = f.ttl_ms
  <2>1. \A i \in Nat : i < 7 - 0 => At(p, 0 + i) = At(Slice(p, 0, 7), i)
    BY <1>7, <1>10, BytesOfSlice
  <2>2. \A i \in 1 .. 7 : p[i] = w[i]
    <3>1. ASSUME NEW i \in 1 .. 7 PROVE p[i] = w[i]
      <4>1. /\ i - 1 \in Nat /\ i - 1 < 7 - 0 /\ 0 + (i - 1) + 1 = i
            /\ (i - 1) + 1 = i
        OBVIOUS
      <4>2. At(p, 0 + (i - 1)) = At(w, i - 1)
        BY <1>9, <2>1, <4>1
      <4> QED BY <4>1, <4>2 DEF At
    <3> QED BY <3>1
  <2> QED BY <1>3, <2>2 DEF At, WordAt
<1>18. TextFields(p) = AsShown(TEXT_DISPLAY, f)
  BY <1>6, <1>16, <1>17 DEF TextFields, AsShown
<1> QED BY <1>4, <1>7, <1>13, <1>15, <1>18

(***************************************************************************)
(* A text the parser accepts, both of whose strings are UTF-8, is what it  *)
(* is encoded as again: the counts leave no byte of the payload over.      *)
(***************************************************************************)
LEMMA TextIsWritten ==
  ASSUME NEW k \in Nat, NEW p \in Bytes(k), SoundText(p),
         HeaderBytes(p) \in Utf8, BodyBytes(p) \in Utf8
  PROVE  TextPayload(TextFields(p)) = p
<1> DEFINE h == At(p, 7)
           e == 7 + 1 + h
           d == At(p, e)
           w == <<p[1], p[2], p[3], p[4], p[5], p[6], p[7]>>
<1>1. p \in Seq(Byte) /\ Len(p) = k
  BY BytesAre
<1>2. HeaderEnd(p) = e
  BY DEF HeaderEnd, TEXT_DISPLAY_FIXED_PREFIX
<1>3. k >= 9 /\ k >= e + 1 /\ k = e + 1 + d
  BY <1>1, <1>2 DEF SoundText, TEXT_DISPLAY_FIXED_PREFIX
<1>4. 7 \in Nat /\ 7 < k /\ 7 <= k /\ 7 + 1 = 8
  BY <1>3
<1>5. h \in Byte
  BY <1>4, OneByteSlice
<1>6. h \in Nat /\ h = At(p, 7)
  BY <1>5, ByteRange
<1> HIDE DEF h
<1>7. e \in Nat /\ e < k /\ e <= k /\ 7 + 1 + h <= k /\ 7 <= e
  BY <1>3, <1>6
<1>8. Counted(Slice(p, 7 + 1, 7 + 1 + h)) = Slice(p, 7, 7 + 1 + h)
  BY <1>4, <1>6, <1>7, CountedIsWritten
<1> HIDE DEF e
<1>9. d \in Byte
  BY <1>7, OneByteSlice
<1>10. d \in Nat /\ d = At(p, e)
  BY <1>9, ByteRange
<1> HIDE DEF d
<1>11. e + 1 + d <= k
  BY <1>3, <1>7, <1>10
<1>12. Counted(Slice(p, e + 1, e + 1 + d)) = Slice(p, e, e + 1 + d)
  BY <1>7, <1>10, <1>11, CountedIsWritten
<1>13. HeaderBytes(p) = Slice(p, 8, e) /\ BodyBytes(p) = Slice(p, e + 1, k)
  BY <1>1, <1>2, <1>4 DEF HeaderBytes, BodyBytes, TEXT_DISPLAY_FIXED_PREFIX
<1>14. /\ Counted(HeaderBytes(p)) = Slice(p, 7, e)
       /\ Counted(BodyBytes(p)) = Slice(p, e, k)
  <2>1. 7 + 1 + h = e
    BY DEF e
  <2> QED BY <1>3, <1>4, <1>8, <1>12, <1>13, <2>1
<1>15. w = Slice(p, 0, 7)
  <2>1. 0 \in Nat /\ 0 + 7 <= k /\ 0 + 7 = 7
    BY <1>4
  <2>2. \A i \in 1 .. 7 : i \in 1 .. k
    BY <1>4
  <2>3. w \in Bytes(7)
    <3>1. w \in Seq(Byte) /\ Len(w) = 7
      BY <2>2, OneByte
    <3> QED BY <3>1, BytesAre
  <2>4. \A i \in 1 .. 7 : p[0 + i] = w[i]
    OBVIOUS
  <2> HIDE DEF w
  <2>5. Slice(p, 0, 0 + 7) = w
    BY <1>4, <2>1, <2>3, <2>4, SliceEquals, Zenon
  <2> QED BY <2>1, <2>5
<1>16. TextPayload(TextFields(p)) = w \o Counted(HeaderBytes(p)) \o Counted(BodyBytes(p))
  <2>1. \A i \in 1 .. 7 : i \in 1 .. k
    BY <1>4
  <2>2. \A i \in 1 .. 7 : p[i] \in Byte /\ Low(p[i]) = p[i]
    BY <2>1, OneByte
  <2>3. /\ Low(p[1] + 256 * p[2]) = p[1] /\ High(p[1] + 256 * p[2]) = p[2]
        /\ Low(p[6] + 256 * p[7]) = p[6] /\ High(p[6] + 256 * p[7]) = p[7]
    BY <2>2, BytesMakeWord
  <2>4. /\ Low(WordAt(p, 0)) = p[1] /\ High(WordAt(p, 0)) = p[2]
        /\ Low(At(p, 2)) = p[3] /\ Low(At(p, 3)) = p[4] /\ Low(At(p, 4)) = p[5]
        /\ Low(WordAt(p, 5)) = p[6] /\ High(WordAt(p, 5)) = p[7]
    BY <2>2, <2>3 DEF WordAt, At
  <2>5. Decoded(HeaderBytes(p)) = HeaderBytes(p) /\ Decoded(BodyBytes(p)) = BodyBytes(p)
    BY DEF Decoded
  <2> QED BY <2>4, <2>5 DEF TextPayload, TextFields
<1>17. Slice(p, 0, 7) \o Slice(p, 7, e) = Slice(p, 0, e)
  BY <1>4, <1>7, TwoSlices
<1>18. Slice(p, 0, e) \o Slice(p, e, k) = Slice(p, 0, k)
  <2>1. k <= k
    OBVIOUS
  <2> QED BY <1>7, <2>1, TwoSlices
<1> HIDE DEF w
<1> QED BY <1>14, <1>15, <1>16, <1>17, <1>18, WholeSlice

(***************************************************************************)
(* The four parts of a UID_ANNOUNCE, by their places.                      *)
(***************************************************************************)
LEMMA UidParts ==
  ASSUME NEW n \in Nat, NEW s \in Bytes(4), NEW t \in Bytes(16), NEW u \in Bytes(2),
         NEW v \in Bytes(1 + n)
  PROVE  LET b == s \o t \o u \o v
         IN  /\ b \in Bytes(22 + (1 + n))
             /\ Slice(b, 0, 4) = s /\ Slice(b, 4, 20) = t /\ Slice(b, 20, 22) = u
             /\ Slice(b, 22, 22 + (1 + n)) = v
<1> DEFINE a == s \o t \o u
<1>1. 4 \in Nat /\ 16 \in Nat /\ 2 \in Nat /\ 22 \in Nat /\ 1 + n \in Nat
  OBVIOUS
<1>2. /\ a \in Bytes(4 + 16 + 2)
      /\ Slice(a, 0, 4) = s /\ Slice(a, 4, 4 + 16) = t /\ Slice(a, 4 + 16, 4 + 16 + 2) = u
  BY <1>1, ThreeParts
<1>3. a \o v = s \o t \o u \o v
  OBVIOUS
<1> HIDE DEF a
<1>4. /\ a \in Bytes(22)
      /\ Slice(a, 0, 4) = s /\ Slice(a, 4, 20) = t /\ Slice(a, 20, 22) = u
  BY <1>2
<1>5. /\ a \o v \in Bytes(22 + (1 + n)) /\ Slice(a \o v, 22, 22 + (1 + n)) = v
      /\ \A i, j \in Nat : i <= j /\ j <= 22 => Slice(a \o v, i, j) = Slice(a, i, j)
  BY <1>1, <1>4, PartsAreSlices
<1>6. /\ Slice(a \o v, 0, 4) = s /\ Slice(a \o v, 4, 20) = t
      /\ Slice(a \o v, 20, 22) = u
  BY <1>4, <1>5
<1> QED BY <1>3, <1>5, <1>6

(***************************************************************************)
(* The four parts of a CONFIG_WRITE, by their places.                      *)
(***************************************************************************)
LEMMA WriteParts ==
  ASSUME NEW n \in Nat, NEW s \in Bytes(4), NEW t \in Bytes(8), NEW u \in Bytes(1 + n),
         NEW v \in Bytes(8)
  PROVE  LET b == s \o t \o u \o v
         IN  /\ b \in Bytes(13 + n + 8)
             /\ Slice(b, 0, 4) = s /\ Slice(b, 4, 12) = t
             /\ Slice(b, 12, 12 + (1 + n)) = u /\ Slice(b, 13 + n, 13 + n + 8) = v
<1> DEFINE a == s \o t \o u
           m == 13 + n
<1>1. /\ 4 \in Nat /\ 8 \in Nat /\ 1 + n \in Nat /\ m \in Nat
      /\ 4 + 8 = 12 /\ 12 + (1 + n) = m /\ 12 <= m /\ 4 <= m
  OBVIOUS
<1>2. /\ a \in Bytes(4 + 8 + (1 + n))
      /\ Slice(a, 0, 4) = s /\ Slice(a, 4, 4 + 8) = t
      /\ Slice(a, 4 + 8, 4 + 8 + (1 + n)) = u
  BY <1>1, ThreeParts
<1>3. a \o v = s \o t \o u \o v
  OBVIOUS
<1> HIDE DEF a, m
<1>4. /\ a \in Bytes(m)
      /\ Slice(a, 0, 4) = s /\ Slice(a, 4, 12) = t /\ Slice(a, 12, m) = u
  BY <1>1, <1>2
<1>5. /\ a \o v \in Bytes(m + 8) /\ Slice(a \o v, m, m + 8) = v
      /\ \A i, j \in Nat : i <= j /\ j <= m => Slice(a \o v, i, j) = Slice(a, i, j)
  BY <1>1, <1>4, PartsAreSlices
<1>6. /\ Slice(a \o v, 0, 4) = s /\ Slice(a \o v, 4, 12) = t
      /\ Slice(a \o v, 12, m) = u
  <2>1. /\ 0 \in Nat /\ 4 \in Nat /\ 12 \in Nat /\ 0 <= 4 /\ 4 <= 12 /\ m <= m
    BY <1>1
  <2> QED BY <1>1, <1>4, <1>5, <2>1
<1>7. Slice(a \o v, 12, 12 + (1 + n)) = u
  BY <1>1, <1>6
<1> QED BY <1>3, <1>5, <1>6, <1>7 DEF m

(***************************************************************************)
(* A UID_ANNOUNCE fits a frame, is accepted and is read back as it was     *)
(* encoded, its name included.                                             *)
(***************************************************************************)
LEMMA UidIsRead ==
  ASSUME NEW f \in UidAnnounce
  PROVE  LET p == UidPayload(f)
         IN  /\ p \in Seq(Byte) /\ Len(p) <= 241
             /\ SoundUid(p) /\ UidFields(p) = f
<1> DEFINE w == <<Low(f.role), Low(f.host)>>
           n == Len(f.friendly_name)
           v == Counted(f.friendly_name)
           p == f.uid \o f.secret \o w \o v
           k == 22 + (1 + n)
<1>1. /\ f.uid \in Bytes(4) /\ f.secret \in Bytes(16) /\ f.role \in Byte /\ f.host \in Byte
      /\ f.friendly_name \in Seq(Byte) /\ n <= 20
  BY DEF UidAnnounce, Text, SECRET_LEN, MAX_NAME_LEN
<1>2. n \in Nat /\ n <= 255
  BY <1>1
<1>3. w \in Bytes(2) /\ w[1] = f.role /\ w[2] = f.host
  BY <1>1, ByteIsKept DEF Bytes
<1>4. f.friendly_name \in Bytes(n)
  BY <1>1, <1>2, BytesAre
<1>5. f = [uid |-> f.uid, secret |-> f.secret, role |-> f.role, host |-> f.host,
           friendly_name |-> f.friendly_name]
  BY DEF UidAnnounce
<1>6. p = UidPayload(f)
  BY DEF UidPayload
<1> HIDE DEF w, n
<1>7. v \in Bytes(1 + n)
  BY <1>2, <1>4, CountedIs
<1>8. /\ k \in Nat /\ k = 23 + n /\ 22 + (1 + n) <= k /\ 22 <= k
      /\ 20 \in Nat /\ 22 \in Nat /\ 22 + 1 = 23 /\ 22 + 1 + n = k /\ 20 <= 22
  BY <1>2
<1> HIDE DEF v
<1>9. /\ p \in Bytes(k)
      /\ Slice(p, 0, 4) = f.uid /\ Slice(p, 4, 20) = f.secret /\ Slice(p, 20, 22) = w
      /\ Slice(p, 22, 22 + (1 + n)) = v
  <2> DEFINE x == f.uid
             y == f.secret
  <2>1. x \in Bytes(4) /\ y \in Bytes(16)
    BY <1>1
  <2> HIDE DEF x, y
  <2>2. /\ x \o y \o w \o v \in Bytes(22 + (1 + n))
        /\ Slice(x \o y \o w \o v, 0, 4) = x /\ Slice(x \o y \o w \o v, 4, 20) = y
        /\ Slice(x \o y \o w \o v, 20, 22) = w
        /\ Slice(x \o y \o w \o v, 22, 22 + (1 + n)) = v
    BY <1>2, <1>3, <1>7, <2>1, UidParts
  <2> QED BY <2>2 DEF x, y
<1> HIDE DEF p, k
<1>10. At(p, 22) = n /\ Slice(p, 22 + 1, 22 + 1 + n) = f.friendly_name
  <2>1. Slice(p, 22, 22 + (1 + n)) = Counted(f.friendly_name)
    BY <1>9 DEF v
  <2> QED BY <1>2, <1>4, <1>8, <1>9, <2>1, CountedIsRead
<1>11. p \in Seq(Byte) /\ Len(p) = k
  BY <1>8, <1>9, BytesAre
<1>12. SoundUid(p)
  <2>1. Len(p) \in 23 .. 43 /\ 22 + 1 + n = Len(p)
    BY <1>1, <1>2, <1>8, <1>11
  <2>2. NameAt + 1 = 23 /\ NameAt + 1 + MAX_NAME_LEN = 43
    BY DEF NameAt, MAX_NAME_LEN
  <2>3. At(p, NameAt) = n /\ n <= MAX_NAME_LEN /\ NameAt + 1 + n = Len(p)
    BY <1>1, <1>10, <2>1 DEF NameAt, MAX_NAME_LEN
  <2> QED BY <2>1, <2>2, <2>3 DEF SoundUid
<1>13. At(p, 20) = f.role /\ At(p, 21) = f.host
  <2>1. 0 \in Nat /\ 1 \in Nat /\ 0 < 22 - 20 /\ 1 < 22 - 20 /\ 20 + 0 = 20 /\ 20 + 1 = 21
    OBVIOUS
  <2>2. \A i \in Nat : i < 22 - 20 => At(p, 20 + i) = At(w, i)
    BY <1>8, <1>9, BytesOfSlice
  <2>3. At(p, 20 + 0) = At(w, 0) /\ At(p, 20 + 1) = At(w, 1)
    BY <2>1, <2>2
  <2>4. At(w, 0) = f.role /\ At(w, 1) = f.host
    BY <1>3 DEF At, w
  <2> QED BY <2>1, <2>3, <2>4
<1>14. Slice(p, NameAt + 1, Len(p)) = f.friendly_name
  BY <1>8, <1>10, <1>11 DEF NameAt
<1>15. UidFields(p) = f
  <2>1. 4 + SECRET_LEN = 20
    BY DEF SECRET_LEN
  <2> QED BY <1>5, <1>9, <1>13, <1>14, <2>1 DEF UidFields
<1>16. Len(p) <= 241
  BY <1>1, <1>2, <1>8, <1>11
<1> QED BY <1>6, <1>11, <1>12, <1>15, <1>16

(***************************************************************************)
(* A UID_ANNOUNCE that is accepted is what it is encoded as again.         *)
(***************************************************************************)
LEMMA UidIsWritten ==
  ASSUME NEW k \in Nat, NEW p \in Bytes(k), SoundUid(p)
  PROVE  UidPayload(UidFields(p)) = p
<1> DEFINE n == At(p, 22)
<1>1. p \in Seq(Byte) /\ Len(p) = k
  BY BytesAre
<1>2. k >= 23 /\ 22 + 1 + n = k
  BY <1>1 DEF SoundUid, NameAt, MAX_NAME_LEN
<1>3. /\ 22 \in Nat /\ 20 \in Nat /\ 4 \in Nat /\ 22 < k /\ 22 <= k /\ 20 <= k /\ 20 <= 22
      /\ 4 <= 20 /\ 20 + 2 <= k /\ 21 \in Nat /\ 20 < k /\ 21 < k /\ 20 + 1 = 21
      /\ 21 + 1 = 22 /\ 20 <= 21 /\ 21 <= 22 /\ 21 <= k /\ 4 <= k /\ k <= k
  BY <1>2
<1>4. n \in Byte
  BY <1>3, OneByteSlice
<1>5. n \in Nat /\ n = At(p, 22) /\ 22 + 1 + n <= k
  BY <1>2, <1>4, ByteRange
<1>6. Counted(Slice(p, 22 + 1, 22 + 1 + n)) = Slice(p, 22, 22 + 1 + n)
  BY <1>3, <1>5, CountedIsWritten
<1>7. Counted(Slice(p, NameAt + 1, Len(p))) = Slice(p, 22, k)
  BY <1>1, <1>2, <1>6 DEF NameAt
<1>8. <<Low(At(p, 20)), Low(At(p, 21))>> = Slice(p, 20, 22)
  <2>1. At(p, 20) \in Byte /\ Slice(p, 20, 21) = <<At(p, 20)>>
    BY <1>3, OneByteSlice
  <2>2. At(p, 21) \in Byte /\ Slice(p, 21, 22) = <<At(p, 21)>>
    BY <1>3, OneByteSlice
  <2>3. p[21] \in Byte /\ p[22] \in Byte
    BY <2>1, <2>2 DEF At
  <2> DEFINE s == <<p[21], p[22]>>
  <2>4. s \in Bytes(2) /\ (\A i \in 1 .. 2 : p[20 + i] = s[i])
    BY <2>3 DEF Bytes
  <2>5. s = <<Low(At(p, 20)), Low(At(p, 21))>>
    BY <2>3, ByteIsKept DEF At
  <2>6. 2 \in Nat /\ 20 + 2 = 22
    OBVIOUS
  <2> HIDE DEF s
  <2>7. Slice(p, 20, 20 + 2) = s
    BY <1>3, <2>4, <2>6, SliceEquals
  <2> QED BY <2>5, <2>6, <2>7
<1>9. UidPayload(UidFields(p)) =
        Slice(p, 0, 4) \o Slice(p, 4, 20) \o Slice(p, 20, 22) \o Slice(p, 22, k)
  <2>1. 4 + SECRET_LEN = 20
    BY DEF SECRET_LEN
  <2> QED BY <1>7, <1>8, <2>1 DEF UidPayload, UidFields
<1>10. Slice(p, 0, 4) \o Slice(p, 4, 20) = Slice(p, 0, 20)
  BY <1>3, TwoSlices
<1>11. Slice(p, 0, 20) \o Slice(p, 20, 22) = Slice(p, 0, 22)
  BY <1>3, TwoSlices
<1>12. Slice(p, 0, 22) \o Slice(p, 22, k) = Slice(p, 0, k)
  BY <1>3, TwoSlices
<1> QED BY <1>9, <1>10, <1>11, <1>12, WholeSlice

(***************************************************************************)
(* A CONFIG_WRITE fits a frame, is accepted and is read back as it was     *)
(* encoded, its bag and its HMAC included.                                 *)
(***************************************************************************)
LEMMA WriteIsRead ==
  ASSUME NEW f \in ConfigWrite
  PROVE  LET p == WritePayload(f)
         IN  /\ p \in Seq(Byte) /\ Len(p) <= 241
             /\ SoundWrite(p) /\ WriteFields(p) = f
<1> DEFINE n == Len(f.bag_tlv)
           u == Counted(f.bag_tlv)
           p == f.target_uid \o f.numonce \o u \o f.hmac
           m == 13 + n
           k == 13 + n + 8
<1>1. /\ f.target_uid \in Bytes(4) /\ f.numonce \in Bytes(8) /\ f.hmac \in Bytes(8)
      /\ f.bag_tlv \in Seq(Byte) /\ n <= 220
  BY DEF ConfigWrite, Text, CONFIG_WRITE_MAX_BAG_LEN, HMAC_LEN
<1>2. n \in Nat /\ n <= 255
  BY <1>1
<1>3. f.bag_tlv \in Bytes(n)
  BY <1>1, <1>2, BytesAre
<1>4. f = [target_uid |-> f.target_uid, numonce |-> f.numonce, bag_tlv |-> f.bag_tlv,
           hmac |-> f.hmac]
  BY DEF ConfigWrite
<1>5. p = WritePayload(f)
  BY DEF WritePayload
<1> HIDE DEF n
<1>6. u \in Bytes(1 + n)
  BY <1>2, <1>3, CountedIs
<1>7. /\ k \in Nat /\ m \in Nat /\ 12 \in Nat /\ k = 21 + n /\ 12 + (1 + n) <= k
      /\ 12 + 1 + n = m /\ m + 8 = k /\ 12 + 1 = 13
  BY <1>2
<1> HIDE DEF u
<1>8. /\ p \in Bytes(k)
      /\ Slice(p, 0, 4) = f.target_uid /\ Slice(p, 4, 12) = f.numonce
      /\ Slice(p, 12, 12 + (1 + n)) = u /\ Slice(p, m, k) = f.hmac
  <2> DEFINE x == f.target_uid
             y == f.numonce
             z == f.hmac
  <2>1. x \in Bytes(4) /\ y \in Bytes(8) /\ z \in Bytes(8)
    BY <1>1
  <2> HIDE DEF x, y, z
  <2>2. /\ x \o y \o u \o z \in Bytes(13 + n + 8)
        /\ Slice(x \o y \o u \o z, 0, 4) = x /\ Slice(x \o y \o u \o z, 4, 12) = y
        /\ Slice(x \o y \o u \o z, 12, 12 + (1 + n)) = u
        /\ Slice(x \o y \o u \o z, 13 + n, 13 + n + 8) = z
    BY <1>2, <1>6, <2>1, WriteParts
  <2> QED BY <2>2 DEF x, y, z
<1> HIDE DEF p, k, m
<1>9. At(p, 12) = n /\ Slice(p, 12 + 1, 12 + 1 + n) = f.bag_tlv
  <2>1. Slice(p, 12, 12 + (1 + n)) = Counted(f.bag_tlv)
    BY <1>8 DEF u
  <2> QED BY <1>2, <1>3, <1>7, <1>8, <2>1, CountedIsRead
<1>10. p \in Seq(Byte) /\ Len(p) = k
  BY <1>7, <1>8, BytesAre
<1>11. BagEnd(p) = m
  BY <1>7, <1>9 DEF BagEnd, BagAt
<1>12. SoundWrite(p)
  <2>1. Len(p) \in 21 .. 241 /\ m + 8 = Len(p)
    BY <1>1, <1>2, <1>7, <1>10
  <2>2. BagAt + 1 + HMAC_LEN = 21 /\ BagAt + 1 + CONFIG_WRITE_MAX_BAG_LEN + HMAC_LEN = 241
    BY DEF BagAt, HMAC_LEN, CONFIG_WRITE_MAX_BAG_LEN
  <2>3. At(p, BagAt) = n /\ n <= CONFIG_WRITE_MAX_BAG_LEN /\ m + HMAC_LEN = Len(p)
    BY <1>1, <1>9, <2>1 DEF BagAt, CONFIG_WRITE_MAX_BAG_LEN, HMAC_LEN
  <2> QED BY <1>11, <2>1, <2>2, <2>3 DEF SoundWrite
<1>13. WriteFields(p) = f
  <2>1. Slice(p, BagAt + 1, BagEnd(p)) = f.bag_tlv
    BY <1>7, <1>9, <1>11 DEF BagAt
  <2>2. Slice(p, BagEnd(p), Len(p)) = f.hmac /\ Slice(p, 4, BagAt) = f.numonce
    BY <1>8, <1>10, <1>11 DEF BagAt
  <2> QED BY <1>4, <1>8, <2>1, <2>2 DEF WriteFields
<1>14. Len(p) <= 241
  BY <1>1, <1>2, <1>7, <1>10
<1> QED BY <1>5, <1>10, <1>12, <1>13, <1>14

(***************************************************************************)
(* A CONFIG_WRITE that is accepted is what it is encoded as again: the     *)
(* count of the bag leaves exactly the HMAC.                               *)
(***************************************************************************)
LEMMA WriteIsWritten ==
  ASSUME NEW k \in Nat, NEW p \in Bytes(k), SoundWrite(p)
  PROVE  WritePayload(WriteFields(p)) = p
<1> DEFINE n == At(p, 12)
           m == 12 + 1 + n
<1>1. p \in Seq(Byte) /\ Len(p) = k
  BY BytesAre
<1>2. k >= 21 /\ m + 8 = k
  BY <1>1 DEF SoundWrite, BagAt, BagEnd, HMAC_LEN, CONFIG_WRITE_MAX_BAG_LEN
<1>3. /\ 12 \in Nat /\ 4 \in Nat /\ 12 < k /\ 12 <= k /\ 4 <= 12 /\ 4 <= k /\ k <= k
  BY <1>2
<1>4. n \in Byte
  BY <1>3, OneByteSlice
<1>5. n \in Nat /\ n = At(p, 12)
  BY <1>4, ByteRange
<1>6. m \in Nat /\ 12 <= m /\ m <= k /\ 12 + 1 + n <= k
  BY <1>2, <1>5
<1>7. Counted(Slice(p, 12 + 1, 12 + 1 + n)) = Slice(p, 12, 12 + 1 + n)
  BY <1>3, <1>5, <1>6, CountedIsWritten
<1>8. BagEnd(p) = m
  BY DEF BagEnd, BagAt
<1>9. Counted(Slice(p, BagAt + 1, BagEnd(p))) = Slice(p, 12, m)
  BY <1>7, <1>8 DEF BagAt
<1> HIDE DEF m, n
<1>10. WritePayload(WriteFields(p)) =
         Slice(p, 0, 4) \o Slice(p, 4, 12) \o Slice(p, 12, m) \o Slice(p, m, k)
  <2>1. Slice(p, 4, BagAt) = Slice(p, 4, 12)
    BY DEF BagAt
  <2> QED BY <1>1, <1>8, <1>9, <2>1 DEF WritePayload, WriteFields
<1>11. Slice(p, 0, 4) \o Slice(p, 4, 12) = Slice(p, 0, 12)
  BY <1>3, TwoSlices
<1>12. Slice(p, 0, 12) \o Slice(p, 12, m) = Slice(p, 0, m)
  BY <1>3, <1>6, TwoSlices
<1>13. Slice(p, 0, m) \o Slice(p, m, k) = Slice(p, 0, k)
  BY <1>3, <1>6, TwoSlices
<1> QED BY <1>10, <1>11, <1>12, <1>13, WholeSlice

(***************************************************************************)
(* A CONFIG_ACK is read back as it was encoded, in 14 bytes.               *)
(***************************************************************************)
LEMMA AckIsRead ==
  ASSUME NEW f \in ConfigAck
  PROVE  AckPayload(f) \in Bytes(14) /\ AckFields(AckPayload(f)) = f
<1> DEFINE x == f.responder_uid
           y == f.responder_numonce
           w == <<Low(f.status), Low(f.applied_keys)>>
           p == x \o y \o w
<1>1. x \in Bytes(4) /\ y \in Bytes(8) /\ f.status \in Byte /\ f.applied_keys \in Byte
  BY DEF ConfigAck
<1>2. w \in Bytes(2) /\ w[1] = f.status /\ w[2] = f.applied_keys
  BY <1>1, ByteIsKept DEF Bytes
<1>3. f = [responder_uid |-> x, responder_numonce |-> y, status |-> f.status,
           applied_keys |-> f.applied_keys]
  BY DEF ConfigAck
<1>4. AckPayload(f) = p
  BY DEF AckPayload
<1> HIDE DEF x, y, w
<1>5. /\ p \in Bytes(4 + 8 + 2)
      /\ Slice(p, 0, 4) = x /\ Slice(p, 4, 4 + 8) = y /\ Slice(p, 4 + 8, 4 + 8 + 2) = w
  <2>1. 4 \in Nat /\ 8 \in Nat /\ 2 \in Nat
    OBVIOUS
  <2> QED BY <1>1, <1>2, <2>1, ThreeParts
<1> HIDE DEF p
<1>6. p \in Bytes(14) /\ Slice(p, 4, 12) = y /\ Slice(p, 12, 14) = w
  BY <1>5
<1>7. At(p, 12) = f.status /\ At(p, 13) = f.applied_keys
  <2>1. /\ 0 \in Nat /\ 1 \in Nat /\ 0 < 14 - 12 /\ 1 < 14 - 12 /\ 12 + 0 = 12 /\ 12 + 1 = 13
        /\ 14 \in Nat /\ 12 \in Nat /\ 12 <= 14 /\ 14 <= 14
    OBVIOUS
  <2>2. \A i \in Nat : i < 14 - 12 => At(p, 12 + i) = At(w, i)
    BY <1>6, <2>1, BytesOfSlice
  <2>3. At(p, 12 + 0) = At(w, 0) /\ At(p, 12 + 1) = At(w, 1)
    BY <2>1, <2>2
  <2>4. At(w, 0) = f.status /\ At(w, 1) = f.applied_keys
    BY <1>2 DEF At, w
  <2> QED BY <2>1, <2>3, <2>4
<1>8. AckFields(p) = f
  BY <1>3, <1>5, <1>6, <1>7 DEF AckFields
<1> QED BY <1>4, <1>6, <1>8

(***************************************************************************)
(* Any 14 bytes read as a CONFIG_ACK are what it is encoded as.            *)
(***************************************************************************)
LEMMA AckIsWritten ==
  ASSUME NEW p \in Bytes(14)
  PROVE  AckPayload(AckFields(p)) = p
<1>1. /\ 14 \in Nat /\ 12 \in Nat /\ 4 \in Nat /\ 12 <= 14 /\ 14 <= 14 /\ 4 <= 12
      /\ 2 \in Nat /\ 12 + 2 = 14 /\ 12 + 2 <= 14
  OBVIOUS
<1>2. <<Low(At(p, 12)), Low(At(p, 13))>> = Slice(p, 12, 14)
  <2>1. 13 \in 1 .. 14 /\ 14 \in 1 .. 14
    OBVIOUS
  <2>2. p[13] \in Byte /\ p[14] \in Byte /\ Low(p[13]) = p[13] /\ Low(p[14]) = p[14]
    BY <1>1, <2>1, OneByte
  <2> DEFINE s == <<p[13], p[14]>>
  <2>3. s \in Bytes(2) /\ (\A i \in 1 .. 2 : p[12 + i] = s[i])
    BY <2>2 DEF Bytes
  <2>4. s = <<Low(At(p, 12)), Low(At(p, 13))>>
    BY <2>2 DEF At
  <2> HIDE DEF s
  <2>5. Slice(p, 12, 12 + 2) = s
    BY <1>1, <2>3, SliceEquals
  <2> QED BY <1>1, <2>4, <2>5
<1>3. AckPayload(AckFields(p)) = Slice(p, 0, 4) \o Slice(p, 4, 12) \o Slice(p, 12, 14)
  BY <1>2 DEF AckPayload, AckFields
<1>4. Slice(p, 0, 4) \o Slice(p, 4, 12) = Slice(p, 0, 12)
  BY <1>1, TwoSlices
<1>5. Slice(p, 0, 12) \o Slice(p, 12, 14) = Slice(p, 0, 14)
  BY <1>1, TwoSlices
<1> QED BY <1>1, <1>3, <1>4, <1>5, WholeSlice

(***************************************************************************)
(* The message types are ten bytes.                                        *)
(***************************************************************************)
LEMMA TypesAre ==
  ASSUME NEW t \in Types
  PROVE  /\ t \in {HEARTBEAT, LIGHT_PULSE, LIGHT_WASH, LIGHT_WASH_END, LIGHT_WASH_PULSE,
                   TEXT_DISPLAY, CLEAR_SCREEN, UID_ANNOUNCE, CONFIG_WRITE, CONFIG_ACK}
         /\ t \in Byte /\ Low(t) = t
<1>1. t \in {HEARTBEAT, LIGHT_PULSE, LIGHT_WASH, LIGHT_WASH_END, LIGHT_WASH_PULSE,
             TEXT_DISPLAY, CLEAR_SCREEN, UID_ANNOUNCE, CONFIG_WRITE, CONFIG_ACK}
  BY DEF Types, FixedTypes, ConfigTypes
<1>2. t \in Byte
  BY <1>1, ByteRange
  DEF HEARTBEAT, LIGHT_PULSE, LIGHT_WASH, LIGHT_WASH_END, LIGHT_WASH_PULSE, TEXT_DISPLAY,
     BITMAP_HEADER, CLEAR_SCREEN, UID_ANNOUNCE, CONFIG_WRITE, CONFIG_ACK
<1> QED BY <1>1, <1>2, ByteIsKept

(***************************************************************************)
(* Whatever the type: a payload has the length its type fixes, fits a      *)
(* frame, passes the parser's checks and shows what was said.              *)
(***************************************************************************)
LEMMA PayloadIsRead ==
  ASSUME NEW t \in Types, NEW f \in Sayable(t)
  PROVE  LET p == Encoded(t, f)
         IN  /\ p \in Seq(Byte) /\ Len(p) <= 241
             /\ t \in FixedTypes => Len(p) = PAYLOAD_LENGTHS[t]
             /\ t = TEXT_DISPLAY => SoundText(p)
             /\ t \in ConfigTypes => SoundConfig(t, p)
             /\ AsRead(t, p) = AsShown(t, f)
<1> USE DEF HEARTBEAT, LIGHT_PULSE, LIGHT_WASH, LIGHT_WASH_END, LIGHT_WASH_PULSE, TEXT_DISPLAY,
        BITMAP_HEADER, CLEAR_SCREEN, UID_ANNOUNCE, CONFIG_WRITE, CONFIG_ACK
<1> DEFINE p == Encoded(t, f)
<1>1. CASE t = HEARTBEAT
  <2>1. f \in Heartbeat /\ p = HeartbeatPayload(f)
    BY <1>1 DEF Sayable, Encoded, ConfigTypes, Payload
  <2>2. p \in Bytes(9) /\ HeartbeatFields(p) = f
    BY <2>1, HeartbeatIsRead
  <2>3. p \in Seq(Byte) /\ Len(p) = 9
    BY <2>2, BytesAre
  <2>4. PAYLOAD_LENGTHS[t] = 9 /\ t \notin ConfigTypes /\ t # TEXT_DISPLAY
    BY <1>1 DEF PAYLOAD_LENGTHS, FixedTypes, ConfigTypes
  <2>5. AsRead(t, p) = AsShown(t, f)
    BY <1>1, <2>2, <2>4 DEF AsRead, Fields, AsShown
  <2> QED BY <2>3, <2>4, <2>5
<1>2. CASE t = LIGHT_PULSE
  <2>1. f \in LightPulse /\ p = PulsePayload(f)
    BY <1>2 DEF Sayable, Encoded, ConfigTypes, Payload
  <2>2. p \in Bytes(13) /\ PulseFields(p) = f
    BY <2>1, PulseIsRead
  <2>3. p \in Seq(Byte) /\ Len(p) = 13
    BY <2>2, BytesAre
  <2>4. PAYLOAD_LENGTHS[t] = 13 /\ t \notin ConfigTypes /\ t # TEXT_DISPLAY
    BY <1>2 DEF PAYLOAD_LENGTHS, FixedTypes, ConfigTypes
  <2>5. AsRead(t, p) = AsShown(t, f)
    BY <1>2, <2>2, <2>4 DEF AsRead, Fields, AsShown
  <2> QED BY <2>3, <2>4, <2>5
<1>3. CASE t = LIGHT_WASH_PULSE
  <2>1. f \in LightPulse /\ p = PulsePayload(f)
    BY <1>3 DEF Sayable, Encoded, ConfigTypes, Payload
  <2>2. p \in Bytes(13) /\ PulseFields(p) = f
    BY <2>1, PulseIsRead
  <2>3. p \in Seq(Byte) /\ Len(p) = 13
    BY <2>2, BytesAre
  <2>4. PAYLOAD_LENGTHS[t] = 13 /\ t \notin ConfigTypes /\ t # TEXT_DISPLAY
    BY <1>3 DEF PAYLOAD_LENGTHS, FixedTypes, ConfigTypes
  <2>5. AsRead(t, p) = AsShown(t, f)
    BY <1>3, <2>2, <2>4 DEF AsRead, Fields, AsShown
  <2> QED BY <2>3, <2>4, <2>5
<1>4. CASE t = LIGHT_WASH
  <2>1. f \in LightWash /\ p = WashPayload(f)
    BY <1>4 DEF Sayable, Encoded, ConfigTypes, Payload
  <2>2. p \in Bytes(20) /\ WashFields(p) = f
    BY <2>1, WashIsRead
  <2>3. p \in Seq(Byte) /\ Len(p) = 20
    BY <2>2, BytesAre
  <2>4. PAYLOAD_LENGTHS[t] = 20 /\ t \notin ConfigTypes /\ t # TEXT_DISPLAY
    BY <1>4 DEF PAYLOAD_LENGTHS, FixedTypes, ConfigTypes
  <2>5. AsRead(t, p) = AsShown(t, f)
    BY <1>4, <2>2, <2>4 DEF AsRead, Fields, AsShown
  <2> QED BY <2>3, <2>4, <2>5
<1>5. CASE t = LIGHT_WASH_END
  <2>1. f \in LightWashEnd /\ p = WashEndPayload(f)
    BY <1>5 DEF Sayable, Encoded, ConfigTypes, Payload
  <2>2. p \in Bytes(7) /\ WashEndFields(p) = f
    BY <2>1, WashEndIsRead
  <2>3. p \in Seq(Byte) /\ Len(p) = 7
    BY <2>2, BytesAre
  <2>4. PAYLOAD_LENGTHS[t] = 7 /\ t \notin ConfigTypes /\ t # TEXT_DISPLAY
    BY <1>5 DEF PAYLOAD_LENGTHS, FixedTypes, ConfigTypes
  <2>5. AsRead(t, p) = AsShown(t, f)
    BY <1>5, <2>2, <2>4 DEF AsRead, Fields, AsShown
  <2> QED BY <2>3, <2>4, <2>5
<1>6. CASE t = CLEAR_SCREEN
  <2>1. f \in ClearScreen /\ p = ClearPayload(f)
    BY <1>6 DEF Sayable, Encoded, ConfigTypes, Payload
  <2>2. p \in Bytes(4) /\ ClearFields(p) = f
    BY <2>1, ClearIsRead
  <2>3. p \in Seq(Byte) /\ Len(p) = 4
    BY <2>2, BytesAre
  <2>4. PAYLOAD_LENGTHS[t] = 4 /\ t \notin ConfigTypes /\ t # TEXT_DISPLAY
    BY <1>6 DEF PAYLOAD_LENGTHS, FixedTypes, ConfigTypes
  <2>5. AsRead(t, p) = AsShown(t, f)
    BY <1>6, <2>2, <2>4 DEF AsRead, Fields, AsShown
  <2> QED BY <2>3, <2>4, <2>5
<1>7. CASE t = TEXT_DISPLAY
  <2>1. f \in TextDisplay /\ p = TextPayload(f)
    BY <1>7 DEF Sayable, Encoded, ConfigTypes, Payload
  <2>2. t \notin FixedTypes /\ t \notin ConfigTypes
    BY <1>7 DEF FixedTypes, ConfigTypes
  <2>3. AsRead(t, p) = TextFields(p)
    BY <1>7, <2>2 DEF AsRead, Fields
  <2> QED BY <1>7, <2>1, <2>2, <2>3, TextIsRead
<1>8. CASE t = UID_ANNOUNCE
  <2>1. f \in UidAnnounce /\ p = UidPayload(f)
    BY <1>8 DEF Sayable, Encoded, ConfigTypes, ConfigPayload
  <2>2. t \notin FixedTypes /\ t \in ConfigTypes /\ t # TEXT_DISPLAY
    BY <1>8 DEF FixedTypes, ConfigTypes
  <2>3. AsRead(t, p) = UidFields(p) /\ AsShown(t, f) = f /\ SoundConfig(t, p) = SoundUid(p)
    BY <1>8, <2>2 DEF AsRead, ConfigFields, AsShown, SoundConfig
  <2> QED BY <2>1, <2>2, <2>3, UidIsRead
<1>9. CASE t = CONFIG_WRITE
  <2>1. f \in ConfigWrite /\ p = WritePayload(f)
    BY <1>9 DEF Sayable, Encoded, ConfigTypes, ConfigPayload
  <2>2. t \notin FixedTypes /\ t \in ConfigTypes /\ t # TEXT_DISPLAY
    BY <1>9 DEF FixedTypes, ConfigTypes
  <2>3. AsRead(t, p) = WriteFields(p) /\ AsShown(t, f) = f /\ SoundConfig(t, p) = SoundWrite(p)
    BY <1>9, <2>2 DEF AsRead, ConfigFields, AsShown, SoundConfig
  <2> QED BY <2>1, <2>2, <2>3, WriteIsRead
<1>10. CASE t = CONFIG_ACK
  <2>1. f \in ConfigAck /\ p = AckPayload(f)
    BY <1>10 DEF Sayable, Encoded, ConfigTypes, ConfigPayload
  <2>2. p \in Bytes(14) /\ AckFields(p) = f
    BY <2>1, AckIsRead
  <2>3. p \in Seq(Byte) /\ Len(p) = 14
    BY <2>2, BytesAre
  <2>4. t \notin FixedTypes /\ t \in ConfigTypes /\ t # TEXT_DISPLAY
    BY <1>10 DEF FixedTypes, ConfigTypes
  <2>5. AsRead(t, p) = AckFields(p) /\ AsShown(t, f) = f /\ SoundConfig(t, p) = SoundAck(p)
    BY <1>10, <2>4 DEF AsRead, ConfigFields, AsShown, SoundConfig
  <2>6. AsRead(t, p) = AsShown(t, f)
    BY <2>2, <2>5
  <2> HIDE DEF p
  <2>7. Len(p) <= 241 /\ SoundAck(p)
    BY <2>3 DEF SoundAck
  <2>8. /\ p \in Seq(Byte) /\ Len(p) <= 241
        /\ t \in FixedTypes => Len(p) = PAYLOAD_LENGTHS[t]
        /\ t = TEXT_DISPLAY => SoundText(p)
        /\ t \in ConfigTypes => SoundConfig(t, p)
        /\ AsRead(t, p) = AsShown(t, f)
    BY <2>3, <2>4, <2>5, <2>6, <2>7
  <2> QED BY <2>8 DEF p
<1> HIDE DEF p
<1> QED BY TypesAre, <1>1, <1>2, <1>3, <1>4, <1>5, <1>6, <1>7, <1>8, <1>9, <1>10

(***************************************************************************)
(* Whatever the type: a payload that passes the parser's checks, and of    *)
(* which the reading loses nothing, is what it is encoded as again.        *)
(***************************************************************************)
LEMMA PayloadIsWritten ==
  ASSUME NEW t \in Types, NEW k \in Nat, NEW p \in Bytes(k),
         t \in FixedTypes => k = PAYLOAD_LENGTHS[t],
         t = TEXT_DISPLAY => SoundText(p),
         t \in ConfigTypes => SoundConfig(t, p),
         ~Lossy(t, p)
  PROVE  Encoded(t, AsRead(t, p)) = p
<1> USE DEF HEARTBEAT, LIGHT_PULSE, LIGHT_WASH, LIGHT_WASH_END, LIGHT_WASH_PULSE, TEXT_DISPLAY,
        BITMAP_HEADER, CLEAR_SCREEN, UID_ANNOUNCE, CONFIG_WRITE, CONFIG_ACK
<1>1. CASE t = HEARTBEAT
  <2>1. p \in Bytes(9)
    BY <1>1 DEF PAYLOAD_LENGTHS, FixedTypes
  <2>2. Encoded(t, AsRead(t, p)) = HeartbeatPayload(HeartbeatFields(p))
    BY <1>1 DEF Encoded, AsRead, ConfigTypes, Payload, Fields
  <2> QED BY <2>1, <2>2, HeartbeatIsWritten
<1>2. CASE t = LIGHT_PULSE
  <2>1. p \in Bytes(13)
    BY <1>2 DEF PAYLOAD_LENGTHS, FixedTypes
  <2>2. Encoded(t, AsRead(t, p)) = PulsePayload(PulseFields(p))
    BY <1>2 DEF Encoded, AsRead, ConfigTypes, Payload, Fields
  <2> QED BY <2>1, <2>2, PulseIsWritten
<1>3. CASE t = LIGHT_WASH_PULSE
  <2>1. p \in Bytes(13)
    BY <1>3 DEF PAYLOAD_LENGTHS, FixedTypes
  <2>2. Encoded(t, AsRead(t, p)) = PulsePayload(PulseFields(p))
    BY <1>3 DEF Encoded, AsRead, ConfigTypes, Payload, Fields
  <2> QED BY <2>1, <2>2, PulseIsWritten
<1>4. CASE t = LIGHT_WASH
  <2>1. p \in Bytes(20)
    BY <1>4 DEF PAYLOAD_LENGTHS, FixedTypes
  <2>2. Encoded(t, AsRead(t, p)) = WashPayload(WashFields(p))
    BY <1>4 DEF Encoded, AsRead, ConfigTypes, Payload, Fields
  <2> QED BY <2>1, <2>2, WashIsWritten
<1>5. CASE t = LIGHT_WASH_END
  <2>1. p \in Bytes(7)
    BY <1>5 DEF PAYLOAD_LENGTHS, FixedTypes
  <2>2. Encoded(t, AsRead(t, p)) = WashEndPayload(WashEndFields(p))
    BY <1>5 DEF Encoded, AsRead, ConfigTypes, Payload, Fields
  <2> QED BY <2>1, <2>2, WashEndIsWritten
<1>6. CASE t = CLEAR_SCREEN
  <2>1. p \in Bytes(4)
    BY <1>6 DEF PAYLOAD_LENGTHS, FixedTypes
  <2>2. Encoded(t, AsRead(t, p)) = ClearPayload(ClearFields(p))
    BY <1>6 DEF Encoded, AsRead, ConfigTypes, Payload, Fields
  <2>3. {At(p, 2), At(p, 3)} \subseteq {0, 1}
    BY <1>6 DEF Lossy
  <2> QED BY <2>1, <2>2, <2>3, ClearIsWritten
<1>7. CASE t = TEXT_DISPLAY
  <2>1. SoundText(p) /\ HeaderBytes(p) \in Utf8 /\ BodyBytes(p) \in Utf8
    BY <1>7 DEF Lossy
  <2>2. Encoded(t, AsRead(t, p)) = TextPayload(TextFields(p))
    BY <1>7 DEF Encoded, AsRead, ConfigTypes, Payload, Fields
  <2> QED BY <2>1, <2>2, TextIsWritten
<1>8. CASE t = UID_ANNOUNCE
  <2>1. SoundUid(p)
    BY <1>8 DEF ConfigTypes, SoundConfig
  <2>2. Encoded(t, AsRead(t, p)) = UidPayload(UidFields(p))
    BY <1>8 DEF Encoded, AsRead, ConfigTypes, ConfigPayload, ConfigFields
  <2> QED BY <2>1, <2>2, UidIsWritten
<1>9. CASE t = CONFIG_WRITE
  <2>1. SoundWrite(p)
    BY <1>9 DEF ConfigTypes, SoundConfig
  <2>2. Encoded(t, AsRead(t, p)) = WritePayload(WriteFields(p))
    BY <1>9 DEF Encoded, AsRead, ConfigTypes, ConfigPayload, ConfigFields
  <2> QED BY <2>1, <2>2, WriteIsWritten
<1>10. CASE t = CONFIG_ACK
  <2>1. Len(p) = 14
    BY <1>10 DEF ConfigTypes, SoundConfig, SoundAck
  <2>2. p \in Seq(Byte) /\ Len(p) = k
    BY BytesAre
  <2>3. p \in Bytes(14)
    BY <2>1, <2>2
  <2>4. Encoded(t, AsRead(t, p)) = AckPayload(AckFields(p))
    BY <1>10 DEF Encoded, AsRead, ConfigTypes, ConfigPayload, ConfigFields
  <2> QED BY <2>3, <2>4, AckIsWritten
<1> QED BY TypesAre, <1>1, <1>2, <1>3, <1>4, <1>5, <1>6, <1>7, <1>8, <1>9, <1>10

-----------------------------------------------------------------------------
(***************************************************************************)
(* The nine bytes of a header.                                             *)
(***************************************************************************)
LEMMA HeaderIs ==
  ASSUME NEW s \in Word, NEW q \in Byte, NEW hop \in Byte, NEW t \in Byte, NEW n \in Byte
  PROVE  LET b == Header(s, q, hop, t, n)
         IN  /\ b \in Bytes(9)
             /\ b[1] = MAGIC /\ b[2] = MAGIC /\ b[3] = PROTOCOL_VERSION
             /\ b[4] = Low(s) /\ b[5] = High(s) /\ b[4] + 256 * b[5] = s
             /\ b[6] = q /\ b[7] = hop /\ b[8] = t /\ b[9] = n
<1>1. Low(q) = q /\ Low(hop) = hop /\ Low(t) = t /\ Low(n) = n
  BY ByteIsKept
<1>2. Low(s) \in Byte /\ High(s) \in Byte /\ Low(s) + 256 * High(s) = s
  BY WordIsKept
<1>3. MAGIC \in Byte /\ PROTOCOL_VERSION \in Byte
  BY ByteRange DEF MAGIC, PROTOCOL_VERSION
<1> DEFINE b == Header(s, q, hop, t, n)
<1>4. b = <<MAGIC, MAGIC, PROTOCOL_VERSION, Low(s), High(s), q, hop, t, n>>
  BY <1>1 DEF Header
<1>5. b \in Seq(Byte) /\ Len(b) = 9
  BY <1>2, <1>3, <1>4
<1>6. b \in Bytes(9)
  BY <1>5, BytesAre
<1>7. /\ b[1] = MAGIC /\ b[2] = MAGIC /\ b[3] = PROTOCOL_VERSION
      /\ b[4] = Low(s) /\ b[5] = High(s)
      /\ b[6] = q /\ b[7] = hop /\ b[8] = t /\ b[9] = n
  BY <1>4
<1> HIDE DEF b
<1>8. b[4] + 256 * b[5] = s
  BY <1>2, <1>7
<1> QED BY <1>6, <1>7, <1>8 DEF b

(***************************************************************************)
(* A header and a payload are read back from the frame they make.          *)
(***************************************************************************)
LEMMA FrameIsRead ==
  ASSUME NEW s \in Word, NEW q \in Byte, NEW hop \in Byte, NEW t \in Byte,
         NEW n \in Nat, n <= 241, NEW p \in Bytes(n)
  PROVE  LET b == Header(s, q, hop, t, n) \o p
         IN  /\ b \in Bytes(9 + n) /\ At(b, 0) = MAGIC /\ At(b, 1) = MAGIC
             /\ Heading(b) = [protocol_version |-> PROTOCOL_VERSION, source_id |-> s,
                              sequence_number |-> q, hop_count |-> hop,
                              message_type |-> t, payload_len |-> n]
             /\ PayloadOf(b) = p
<1> DEFINE h == Header(s, q, hop, t, n)
           b == h \o p
           k == 9 + n
<1>1. n \in Byte
  BY ByteRange
<1>2. /\ h \in Bytes(9)
      /\ h[1] = MAGIC /\ h[2] = MAGIC /\ h[3] = PROTOCOL_VERSION
      /\ h[4] + 256 * h[5] = s /\ h[6] = q /\ h[7] = hop /\ h[8] = t /\ h[9] = n
  BY <1>1, HeaderIs
<1>3. 9 \in Nat /\ k \in Nat
  OBVIOUS
<1> HIDE DEF h
<1>4. b \in Bytes(9 + n) /\ (\A i \in 1 .. 9 : b[i] = h[i])
  <2>1. 9 \in Nat /\ h \in Bytes(9)
    BY <1>2
  <2> QED BY <2>1, TwoParts
<1>5. Slice(b, 9, 9 + n) = p
  BY <1>2, <1>3, PartsAreSlices
<1> HIDE DEF b
<1>6. b \in Seq(Byte) /\ Len(b) = k
  BY <1>3, <1>4, BytesAre
<1>7. /\ b[1] = MAGIC /\ b[2] = MAGIC /\ b[3] = PROTOCOL_VERSION
      /\ b[4] + 256 * b[5] = s /\ b[6] = q /\ b[7] = hop /\ b[8] = t /\ b[9] = n
  BY <1>2, <1>4
<1>8. /\ At(b, 0) = MAGIC /\ At(b, 1) = MAGIC /\ At(b, 2) = PROTOCOL_VERSION
      /\ WordAt(b, 3) = s /\ At(b, 5) = q /\ At(b, 6) = hop /\ At(b, 7) = t /\ At(b, 8) = n
  BY <1>7 DEF At, WordAt
<1>9. Heading(b) = [protocol_version |-> PROTOCOL_VERSION, source_id |-> s,
                    sequence_number |-> q, hop_count |-> hop,
                    message_type |-> t, payload_len |-> n]
  BY <1>8, Zenon DEF Heading
<1>10. PayloadOf(b) = p
  BY <1>5, <1>6 DEF PayloadOf, HEADER_SIZE
<1> QED BY <1>4, <1>8, <1>9, <1>10 DEF b, h

(***************************************************************************)
(* A relay changes the hop byte and no other.                              *)
(***************************************************************************)
LEMMA RelayedIs ==
  ASSUME NEW k \in Nat, NEW b \in Bytes(k), NEW out \in 1 .. MAX_HOP_COUNT, Relayable(b, out)
  PROVE  /\ k >= 9 /\ b[7] \in 0 .. 2 /\ b[7] + 1 = out
         /\ Relayed(b) \in Bytes(k) /\ Relayed(b)[7] = b[7] + 1
         /\ \A i \in 1 .. k : i # 7 => Relayed(b)[i] = b[i]
<1>1. b \in Seq(Byte) /\ Len(b) = k
  BY BytesAre
<1>2. k >= 9 /\ b[7] + 1 = out
  BY <1>1 DEF Relayable, HEADER_SIZE, HOP_COUNT_OFFSET, At
<1>3. 7 \in 1 .. k
  BY <1>2
<1>4. b[7] \in Byte
  BY <1>3, OneByte
<1>5. b[7] \in 0 .. 2 /\ b[7] + 1 \in Byte
  BY <1>2, <1>4, ByteRange DEF MAX_HOP_COUNT
<1>6. Relayed(b) = [b EXCEPT ![7] = b[7] + 1]
  BY DEF Relayed, HOP_COUNT_OFFSET
<1> QED BY <1>2, <1>3, <1>5, <1>6 DEF Bytes

(***************************************************************************)
(* A relayed frame is the frame its sender would have built one hop        *)
(* further out.                                                            *)
(***************************************************************************)
LEMMA HopIsCounted ==
  ASSUME NEW s \in Word, NEW q \in Byte, NEW hop \in Byte, NEW t \in Byte,
         NEW n \in Nat, n <= 241, NEW p \in Bytes(n), NEW out \in 1 .. MAX_HOP_COUNT,
         Relayable(Header(s, q, hop, t, n) \o p, out)
  PROVE  /\ hop + 1 = out /\ hop + 1 \in Byte
         /\ Relayed(Header(s, q, hop, t, n) \o p) = Header(s, q, hop + 1, t, n) \o p
<1> DEFINE h == Header(s, q, hop, t, n)
           more == hop + 1
           g == Header(s, q, more, t, n)
           b == h \o p
           c == g \o p
           k == 9 + n
<1>1. n \in Byte /\ 9 \in Nat /\ k \in Nat
  BY ByteRange
<1>2. /\ h \in Bytes(9)
      /\ h[1] = MAGIC /\ h[2] = MAGIC /\ h[3] = PROTOCOL_VERSION
      /\ h[4] = Low(s) /\ h[5] = High(s) /\ h[6] = q /\ h[7] = hop /\ h[8] = t /\ h[9] = n
  BY <1>1, HeaderIs
<1> HIDE DEF h
<1>3. /\ b \in Bytes(9 + n) /\ (\A i \in 1 .. 9 : b[i] = h[i])
      /\ (\A i \in 1 .. n : b[9 + i] = p[i])
  <2>1. 9 \in Nat /\ h \in Bytes(9)
    BY <1>2
  <2> QED BY <2>1, TwoParts
<1>4. Relayable(b, out)
  BY DEF h
<1> HIDE DEF b, k
<1>5. b \in Bytes(k)
  BY <1>3 DEF k
<1>6. /\ b[7] \in 0 .. 2 /\ b[7] + 1 = out
      /\ Relayed(b) \in Bytes(k) /\ Relayed(b)[7] = b[7] + 1
      /\ \A i \in 1 .. k : i # 7 => Relayed(b)[i] = b[i]
  BY <1>1, <1>4, <1>5, RelayedIs
<1>7. b[7] = hop
  BY <1>2, <1>3
<1>8. more = out /\ more \in Byte
  BY <1>6, <1>7, ByteRange
<1>9. /\ g \in Bytes(9)
      /\ g[1] = MAGIC /\ g[2] = MAGIC /\ g[3] = PROTOCOL_VERSION
      /\ g[4] = Low(s) /\ g[5] = High(s) /\ g[6] = q /\ g[7] = more /\ g[8] = t /\ g[9] = n
  <2> HIDE DEF more
  <2> QED BY <1>1, <1>8, HeaderIs
<1> HIDE DEF g
<1>10. /\ c \in Bytes(9 + n) /\ (\A i \in 1 .. 9 : c[i] = g[i])
       /\ (\A i \in 1 .. n : c[9 + i] = p[i])
  <2>1. 9 \in Nat /\ g \in Bytes(9)
    BY <1>9
  <2> QED BY <2>1, TwoParts
<1> HIDE DEF c
<1>11. c \in Bytes(k)
  BY <1>10 DEF k
<1>12. ASSUME NEW i \in 1 .. k PROVE Relayed(b)[i] = c[i]
  <2>1. CASE i <= 9
    <3>1. i \in 1 .. 9 /\ b[i] = h[i] /\ c[i] = g[i]
      BY <2>1, <1>3, <1>10
    <3>2. CASE i = 7
      BY <1>6, <1>7, <1>9, <3>1, <3>2
    <3>3. CASE i # 7
      <4>1. i \in {1, 2, 3, 4, 5, 6, 8, 9}
        BY <3>1, <3>3
      <4>2. h[i] = g[i]
        BY <1>2, <1>9, <4>1
      <4>3. Relayed(b)[i] = b[i]
        BY <1>6, <3>3
      <4> QED BY <3>1, <4>2, <4>3
    <3> QED BY <3>2, <3>3
  <2>2. CASE i > 9
    <3>1. PICK j \in 1 .. n : i = 9 + j
      <4>1. i - 9 \in 1 .. n /\ i = 9 + (i - 9)
        BY <2>2 DEF k
      <4> QED BY <4>1
    <3>2. b[i] = p[j] /\ c[i] = p[j]
      BY <1>3, <1>10, <3>1
    <3>3. i # 7
      BY <2>2
    <3> QED BY <1>6, <3>2, <3>3
  <2> QED BY <2>1, <2>2
<1>13. Relayed(b) = c
  BY <1>1, <1>6, <1>11, <1>12, SameBytes
<1> QED BY <1>8, <1>13 DEF b, c, h, g, more

-----------------------------------------------------------------------------
(***************************************************************************)
(* The frame its sender would have built, had it been sent at the hop it   *)
(* has reached.                                                            *)
(***************************************************************************)
Undamaged ==
  LET p == Encoded(type, values)
  IN  Header(origin.source_id, origin.sequence_number, relays, type, Len(p)) \o p

(***************************************************************************)
(* The parser's one check of integrity: the frame has the length its       *)
(* header says.                                                            *)
(***************************************************************************)
LengthIsWrong(b) == Len(b) < HEADER_SIZE \/ Len(b) # HEADER_SIZE + At(b, 8)

(***************************************************************************)
(* The inductive invariant.  While nothing has touched the frame, it is    *)
(* the one its sender would have built at the hop it has reached; a cut or *)
(* padded frame has not the length its header says.  The two properties    *)
(* speak of what is read; this speaks of every byte on the air, which is   *)
(* what a relay needs to be followed.                                      *)
(***************************************************************************)
IInv ==
  /\ type \in Types /\ values \in Sayable(type)
  /\ origin \in [source_id : Word, sequence_number : Byte]
  /\ relays \in 0 .. MAX_HOP_COUNT /\ damage \in {"none", "cut", "padded", "changed"}
  /\ air \in Seq(Byte)
  /\ damage = "none" => air = Undamaged
  /\ damage \in {"cut", "padded"} => LengthIsWrong(air)

(***************************************************************************)
(* What is read of an undamaged frame: its heading and its payload.        *)
(***************************************************************************)
LEMMA UndamagedIs ==
  ASSUME type \in Types, values \in Sayable(type), relays \in 0 .. MAX_HOP_COUNT,
         origin \in [source_id : Word, sequence_number : Byte]
  PROVE  /\ Undamaged \in Seq(Byte)
         /\ Len(Undamaged) = 9 + Len(Encoded(type, values))
         /\ Len(Undamaged) = 9 + At(Undamaged, 8)
         /\ At(Undamaged, 0) = MAGIC /\ At(Undamaged, 1) = MAGIC
         /\ Heading(Undamaged) =
              [protocol_version |-> PROTOCOL_VERSION, source_id |-> origin.source_id,
               sequence_number |-> origin.sequence_number, hop_count |-> relays,
               message_type |-> type, payload_len |-> Len(Encoded(type, values))]
         /\ PayloadOf(Undamaged) = Encoded(type, values)
<1> DEFINE p == Encoded(type, values)
           n == Len(p)
           s == origin.source_id
           q == origin.sequence_number
           b == Header(s, q, relays, type, n) \o p
<1>1. p \in Seq(Byte) /\ n <= 241
  BY PayloadIsRead
<1>2. type \in Byte
  BY TypesAre
<1>3. s \in Word /\ q \in Byte /\ relays \in Byte
  BY ByteRange DEF MAX_HOP_COUNT
<1>4. Undamaged = b
  BY DEF Undamaged
<1> HIDE DEF p
<1>5. n \in Nat /\ p \in Bytes(n)
  <2>1. n \in Nat
    BY <1>1
  <2> QED BY <1>1, <2>1, BytesAre
<1> HIDE DEF n, s, q
<1>6. /\ b \in Bytes(9 + n) /\ At(b, 0) = MAGIC /\ At(b, 1) = MAGIC
      /\ Heading(b) = [protocol_version |-> PROTOCOL_VERSION, source_id |-> s,
                       sequence_number |-> q, hop_count |-> relays,
                       message_type |-> type, payload_len |-> n]
      /\ PayloadOf(b) = p
  BY <1>1, <1>2, <1>3, <1>5, FrameIsRead
<1> HIDE DEF b
<1>7. b \in Seq(Byte) /\ Len(b) = 9 + n
  <2>1. 9 + n \in Nat
    BY <1>5
  <2> QED BY <1>6, <2>1, BytesAre
<1>8. At(b, 8) = n
  <2>1. Heading(b).payload_len = n
    BY <1>6
  <2> QED BY <2>1 DEF Heading
<1> QED BY <1>4, <1>6, <1>7, <1>8 DEF n, p, s, q

(***************************************************************************)
(* The frame its sender sends is undamaged.                                *)
(***************************************************************************)
LEMMA InitIInv == Init => IInv
<1> SUFFICES ASSUME Init PROVE IInv
  OBVIOUS
<1>1. type \in Types /\ values \in Sayable(type)
  BY FramesAssumption DEF Init
<1>2. origin \in [source_id : Word, sequence_number : Byte]
  BY FramesAssumption DEF Init
<1>3. relays = 0 /\ damage = "none" /\ relays \in 0 .. MAX_HOP_COUNT
  BY DEF Init, MAX_HOP_COUNT
<1>4. air = Undamaged
  BY <1>3 DEF Init, Framed, Undamaged
<1>5. air \in Seq(Byte)
  BY <1>1, <1>2, <1>3, <1>4, UndamagedIs
<1> QED BY <1>1, <1>2, <1>3, <1>4, <1>5 DEF IInv

(***************************************************************************)
(* A relay counts the hop and keeps the rest.                              *)
(***************************************************************************)
LEMMA RelayKeepsIInv ==
  ASSUME IInv, NEW hop \in 1 .. MAX_HOP_COUNT, Relay(hop)
  PROVE  IInv'
<1>1. UNCHANGED <<type, values, origin, damage>> /\ Relayable(air, hop) /\ air' = Relayed(air)
  BY DEF Relay
<1> DEFINE k == Len(air)
<1>2. air \in Seq(Byte) /\ k \in Nat
  BY DEF IInv
<1>3. air \in Bytes(k)
  BY <1>2, BytesAre
<1> HIDE DEF k
<1>4. /\ k >= 9 /\ air' \in Bytes(k)
      /\ \A i \in 1 .. k : i # 7 => air'[i] = air[i]
  BY <1>1, <1>2, <1>3, RelayedIs
<1>5. air \in Seq(Byte) /\ Len(air) = k /\ air' \in Seq(Byte) /\ Len(air') = k
  BY <1>2, <1>3, <1>4, BytesAre
<1>6. CASE damage = "none"
  <2> DEFINE p == Encoded(type, values)
             n == Len(p)
             s == origin.source_id
             q == origin.sequence_number
  <2>1. p \in Seq(Byte) /\ n <= 241
    BY PayloadIsRead DEF IInv
  <2>2. type \in Byte
    BY TypesAre DEF IInv
  <2>3. s \in Word /\ q \in Byte /\ relays \in Byte /\ relays \in Nat
    BY ByteRange DEF IInv, MAX_HOP_COUNT
  <2>4. air = Header(s, q, relays, type, n) \o p
    BY <1>6 DEF IInv, Undamaged
  <2> HIDE DEF p
  <2>5. n \in Nat /\ p \in Bytes(n)
    <3>1. n \in Nat
      BY <2>1
    <3> QED BY <2>1, <3>1, BytesAre
  <2> HIDE DEF n, s, q
  <2>6. /\ relays + 1 = hop
        /\ Relayed(air) = Header(s, q, relays + 1, type, n) \o p
    <3>1. Relayable(Header(s, q, relays, type, n) \o p, hop)
      BY <1>1, <2>4
    <3>2. n <= 241
      BY <2>1 DEF n
    <3>3. /\ relays + 1 = hop
          /\ Relayed(Header(s, q, relays, type, n) \o p) =
               Header(s, q, relays + 1, type, n) \o p
      BY <2>2, <2>3, <2>5, <3>1, <3>2, HopIsCounted
    <3> QED BY <2>4, <3>3
  <2>7. relays' = relays + 1 /\ relays' \in 0 .. MAX_HOP_COUNT
    BY <1>6, <2>3, <2>6 DEF Relay, MAX_HOP_COUNT
  <2>8. air' = Undamaged'
    BY <1>1, <2>6, <2>7 DEF Undamaged, s, q, p, n
  <2> QED BY <1>1, <1>5, <1>6, <2>7, <2>8 DEF IInv
<1>7. CASE damage # "none"
  <2>1. relays' = relays
    BY <1>7 DEF Relay
  <2>2. At(air', 8) = At(air, 8)
    <3>1. 9 \in 1 .. k
      BY <1>2, <1>4
    <3> QED BY <1>4, <3>1 DEF At
  <2>3. LengthIsWrong(air) => LengthIsWrong(air')
    BY <1>5, <2>2 DEF LengthIsWrong
  <2> QED BY <1>1, <1>5, <1>7, <2>1, <2>3 DEF IInv
<1> QED BY <1>6, <1>7

(***************************************************************************)
(* What the three kinds of damage have in common.                          *)
(***************************************************************************)
LEMMA DamageKeepsIInv ==
  ASSUME IInv, NEW kind \in {"cut", "padded", "changed"}, Damaged(kind),
         air' \in Seq(Byte), kind \in {"cut", "padded"} => LengthIsWrong(air')
  PROVE  IInv'
BY DEF IInv, Damaged

(***************************************************************************)
(* Before it is damaged, a frame has the length its header says.           *)
(***************************************************************************)
LEMMA LengthBeforeDamage ==
  ASSUME IInv, damage = "none"
  PROVE  Len(air) >= 9 /\ Len(air) = 9 + At(air, 8) /\ At(air, 8) \in Nat
<1>1. air = Undamaged
  BY DEF IInv
<1>2. /\ Len(Undamaged) = 9 + Len(Encoded(type, values))
      /\ Len(Undamaged) = 9 + At(Undamaged, 8)
      /\ Heading(Undamaged) =
           [protocol_version |-> PROTOCOL_VERSION, source_id |-> origin.source_id,
            sequence_number |-> origin.sequence_number, hop_count |-> relays,
            message_type |-> type, payload_len |-> Len(Encoded(type, values))]
  BY UndamagedIs DEF IInv
<1>3. Encoded(type, values) \in Seq(Byte)
  BY PayloadIsRead DEF IInv
<1>4. At(Undamaged, 8) = Len(Encoded(type, values))
  <2>1. Heading(Undamaged).payload_len = Len(Encoded(type, values))
    BY <1>2
  <2> QED BY <2>1 DEF Heading
<1>5. Len(Encoded(type, values)) \in Nat
  BY <1>3
<1> QED BY <1>1, <1>2, <1>4, <1>5

(***************************************************************************)
(* A frame that has lost bytes at its end has not the length its header    *)
(* says, or no header.                                                     *)
(***************************************************************************)
LEMMA CutKeepsIInv ==
  ASSUME IInv, Cut
  PROVE  IInv'
<1>1. PICK n \in 0 .. Len(air) - 1 : air' = SubSeq(air, 1, n) /\ Damaged("cut")
  BY DEF Cut
<1>2. air \in Seq(Byte) /\ Len(air) \in Nat
  BY DEF IInv
<1>3. Len(air) = 9 + At(air, 8) /\ At(air, 8) \in Nat
  BY <1>1, LengthBeforeDamage DEF Damaged
<1>4. /\ air' \in Seq(Byte) /\ Len(air') = n
      /\ \A i \in 1 .. n : air'[i] = air[i]
  BY <1>1, <1>2
<1>5. LengthIsWrong(air')
  <2>1. CASE n < 9
    BY <1>4, <2>1 DEF LengthIsWrong, HEADER_SIZE
  <2>2. CASE n >= 9
    <3>1. 9 \in 1 .. n
      BY <2>2
    <3>2. At(air', 8) = At(air, 8)
      BY <1>4, <3>1 DEF At
    <3>3. n # 9 + At(air, 8)
      BY <1>2, <1>3
    <3> QED BY <1>4, <3>2, <3>3 DEF LengthIsWrong, HEADER_SIZE
  <2> QED BY <2>1, <2>2
<1> QED BY <1>1, <1>4, <1>5, DamageKeepsIInv

(***************************************************************************)
(* Nor has a frame that has gained bytes at its end.                       *)
(***************************************************************************)
LEMMA PadKeepsIInv ==
  ASSUME IInv, Pad
  PROVE  IInv'
<1>1. PICK b \in Wrong : air' = Append(air, b) /\ Damaged("padded")
  BY DEF Pad
<1>2. air \in Seq(Byte) /\ Len(air) \in Nat /\ b \in Byte
  BY FramesAssumption DEF IInv
<1>3. Len(air) >= 9 /\ Len(air) = 9 + At(air, 8) /\ At(air, 8) \in Nat
  BY <1>1, LengthBeforeDamage DEF Damaged
<1>4. air' \in Seq(Byte) /\ Len(air') = Len(air) + 1 /\ air'[9] = air[9]
  BY <1>1, <1>2, <1>3
<1>5. LengthIsWrong(air')
  <2>1. At(air', 8) = At(air, 8)
    BY <1>4 DEF At
  <2>2. Len(air) + 1 # 9 + At(air, 8)
    BY <1>2, <1>3
  <2> QED BY <1>4, <2>1, <2>2 DEF LengthIsWrong, HEADER_SIZE
<1> QED BY <1>1, <1>4, <1>5, DamageKeepsIInv

(***************************************************************************)
(* A change of bytes leaves bytes.                                         *)
(***************************************************************************)
LEMMA ChangeKeepsIInv ==
  ASSUME IInv, Change
  PROVE  IInv'
<1>1. PICK i \in DOMAIN air, b \in Wrong : air' = [air EXCEPT ![i] = b] /\ Damaged("changed")
  BY DEF Change
<1>2. air \in Seq(Byte) /\ b \in Byte
  BY FramesAssumption DEF IInv
<1>3. air' \in Seq(Byte)
  BY <1>1, <1>2
<1> QED BY <1>1, <1>3, DamageKeepsIInv

(***************************************************************************)
(* The invariant holds of every frame on the air.                          *)
(***************************************************************************)
LEMMA IInvIsInvariant == Spec => []IInv
<1>1. ASSUME IInv, [Next]_vars PROVE IInv'
  <2>1. CASE UNCHANGED vars
    BY <1>1, <2>1 DEF IInv, vars, Undamaged
  <2>2. ASSUME NEW hop \in 1 .. MAX_HOP_COUNT, Relay(hop) PROVE IInv'
    BY <1>1, <2>2, RelayKeepsIInv
  <2>3. CASE Cut
    BY <1>1, <2>3, CutKeepsIInv
  <2>4. CASE Pad
    BY <1>1, <2>4, PadKeepsIInv
  <2>5. CASE Change
    BY <1>1, <2>5, ChangeKeepsIInv
  <2> QED BY <1>1, <2>1, <2>2, <2>3, <2>4, <2>5 DEF Next
<1> QED BY <1>1, InitIInv, PTL DEF Spec

-----------------------------------------------------------------------------
(***************************************************************************)
(* A nonempty set of naturals has a least element.                         *)
(***************************************************************************)
LEMMA LeastNatural ==
  ASSUME NEW T \in SUBSET Nat, T # {}
  PROVE  \E n \in T : \A m \in T : n <= m
<1> DEFINE Below(n) == 0 .. n
           D == {Below(n) : n \in T}
<1>1. D \subseteq FiniteSubsetsOf(Nat)
  <2>1. ASSUME NEW n \in T PROVE Below(n) \in FiniteSubsetsOf(Nat)
    <3>1. n \in Int /\ 0 \in Int
      OBVIOUS
    <3>2. IsFiniteSet(0 .. n)
      BY <3>1, FS_Interval
    <3>3. 0 .. n \in SUBSET Nat
      OBVIOUS
    <3> QED BY <3>2, <3>3 DEF FiniteSubsetsOf
  <2> QED BY <2>1
<1>2. PICK x \in D : \A y \in D : ~ (<<y, x>> \in StrictSubsetOrdering(Nat))
  <2>1. IsWellFoundedOn(StrictSubsetOrdering(Nat), FiniteSubsetsOf(Nat))
    BY FS_StrictSubsetOrderingWellFounded
  <2>2. D # {}
    OBVIOUS
  <2> QED BY <1>1, <2>1, <2>2, WFMin
<1>3. PICK n \in T : x = Below(n)
  OBVIOUS
<1>4. ASSUME NEW m \in T, m < n PROVE FALSE
  <2>1. Below(m) \in D /\ Below(m) \subseteq Below(n) /\ n \in Below(n) /\ n \notin Below(m)
    BY <1>4
  <2>2. <<Below(m), Below(n)>> \in StrictSubsetOrdering(Nat)
    BY <2>1 DEF StrictSubsetOrdering
  <2> QED BY <1>2, <1>3, <2>1, <2>2
<1> QED BY <1>4

(***************************************************************************)
(* The first n rows of the table that Bag is the last row of.              *)
(***************************************************************************)
BagTable(f, e, n) ==
  [i \in 0 .. n |-> IF i = 0 THEN <<Len(e)>> ELSE f[i - 1] \o EntryBytes(e[i])]

(***************************************************************************)
(* Tables of any length exist: one that did not would have a shortest that *)
(* did not, and its shorter one can be extended by a row.                  *)
(***************************************************************************)
LEMMA BagTableExists ==
  ASSUME NEW e, NEW N \in Nat
  PROVE  \E f : f = BagTable(f, e, N)
<1> DEFINE T == {n \in Nat : ~ \E f : f = BagTable(f, e, n)}
<1>1. SUFFICES T = {}
  OBVIOUS
<1>2. SUFFICES ASSUME T # {} PROVE FALSE
  OBVIOUS
<1>3. PICK n \in T : \A m \in T : n <= m
  BY <1>2, LeastNatural
<1>4. CASE n = 0
  <2> DEFINE f == [i \in 0 .. 0 |-> <<Len(e)>>]
  <2>1. f = BagTable(f, e, 0)
    BY DEF BagTable
  <2> QED BY <1>4, <2>1
<1>5. CASE n # 0
  <2>1. n - 1 \in Nat /\ n - 1 \notin T
    BY <1>3, <1>5
  <2>2. PICK f : f = BagTable(f, e, n - 1)
    BY <2>1
  <2> DEFINE g == BagTable(f, e, n)
  <2>3. ASSUME NEW i \in 1 .. n PROVE g[i - 1] = f[i - 1]
    <3>1. i - 1 \in 0 .. n - 1 /\ i - 1 \in 0 .. n
      BY <2>1
    <3>2. f[i - 1] = BagTable(f, e, n - 1)[i - 1]
      BY <2>2
    <3> QED BY <3>1, <3>2 DEF BagTable
  <2>4. BagTable(g, e, n) = BagTable(f, e, n)
    <3> HIDE DEF g
    <3>1. ASSUME NEW i \in 0 .. n
          PROVE  BagTable(g, e, n)[i] = BagTable(f, e, n)[i]
      <4>1. CASE i = 0
        BY <4>1 DEF BagTable
      <4>2. CASE i # 0
        <5>1. g[i - 1] = f[i - 1]
          BY <2>3, <4>2
        <5> QED BY <4>2, <5>1 DEF BagTable
      <4> QED BY <4>1, <4>2
    <3> QED BY <3>1 DEF BagTable
  <2>5. g = BagTable(g, e, n)
    BY <2>4
  <2> QED BY <2>5
<1> QED BY <1>4, <1>5

(***************************************************************************)
(* The first n + 1 rows of the table EntryStarts is.                       *)
(***************************************************************************)
StartTable(f, b, n) ==
  [i \in 1 .. n + 1 |-> IF i = 1 THEN 1
                        ELSE IF f[i - 1] # Malformed /\ SoundEntry(b, f[i - 1])
                             THEN ValueEnd(b, f[i - 1])
                             ELSE Malformed]

(***************************************************************************)
(* Tables of any length exist, as before.                                  *)
(***************************************************************************)
LEMMA StartTableExists ==
  ASSUME NEW b, NEW N \in Nat
  PROVE  \E f : f = StartTable(f, b, N)
<1> DEFINE T == {n \in Nat : ~ \E f : f = StartTable(f, b, n)}
<1>1. SUFFICES T = {}
  OBVIOUS
<1>2. SUFFICES ASSUME T # {} PROVE FALSE
  OBVIOUS
<1>3. PICK n \in T : \A m \in T : n <= m
  BY <1>2, LeastNatural
<1>4. CASE n = 0
  <2> DEFINE f == [i \in 1 .. 0 + 1 |-> 1]
  <2>1. f = StartTable(f, b, 0)
    BY DEF StartTable
  <2> QED BY <1>4, <2>1
<1>5. CASE n # 0
  <2>1. n - 1 \in Nat /\ n - 1 \notin T /\ (n - 1) + 1 = n
    BY <1>3, <1>5
  <2>2. PICK f : f = StartTable(f, b, n - 1)
    BY <2>1
  <2> DEFINE g == StartTable(f, b, n)
  <2>3. ASSUME NEW i \in 2 .. n + 1 PROVE g[i - 1] = f[i - 1]
    <3>1. i - 1 \in 1 .. (n - 1) + 1 /\ i - 1 \in 1 .. n + 1
      BY <2>1
    <3>2. f[i - 1] = StartTable(f, b, n - 1)[i - 1]
      BY <2>2
    <3> QED BY <3>1, <3>2 DEF StartTable
  <2>4. StartTable(g, b, n) = StartTable(f, b, n)
    <3> HIDE DEF g
    <3>1. ASSUME NEW i \in 1 .. n + 1
          PROVE  StartTable(g, b, n)[i] = StartTable(f, b, n)[i]
      <4>1. CASE i = 1
        BY <4>1 DEF StartTable
      <4>2. CASE i # 1
        <5>1. g[i - 1] = f[i - 1]
          BY <2>3, <4>2
        <5> QED BY <4>2, <5>1 DEF StartTable
      <4> QED BY <4>1, <4>2
    <3> QED BY <3>1 DEF StartTable
  <2>5. g = StartTable(g, b, n)
    BY <2>4
  <2> QED BY <2>5
<1> QED BY <1>4, <1>5

(***************************************************************************)
(* EntryStarts is what its recursive definition says: each entry begins    *)
(* where the one before it ends, as long as that one is sound.             *)
(***************************************************************************)
LEMMA StartsAre ==
  ASSUME NEW b, b[1] \in Nat
  PROVE  /\ EntryStarts(b)[1] = 1
         /\ \A i \in 2 .. b[1] + 1 :
              EntryStarts(b)[i] =
                IF EntryStarts(b)[i - 1] # Malformed /\ SoundEntry(b, EntryStarts(b)[i - 1])
                THEN ValueEnd(b, EntryStarts(b)[i - 1])
                ELSE Malformed
<1> DEFINE f == CHOOSE g : g = StartTable(g, b, b[1])
<1>1. f = StartTable(f, b, b[1])
  BY StartTableExists
<1>2. EntryStarts(b) = f
  BY DEF EntryStarts, StartTable
<1> HIDE DEF f
<1>3. ASSUME NEW i \in 1 .. b[1] + 1
      PROVE  f[i] = IF i = 1 THEN 1
                    ELSE IF f[i - 1] # Malformed /\ SoundEntry(b, f[i - 1])
                         THEN ValueEnd(b, f[i - 1])
                         ELSE Malformed
  <2>1. f[i] = StartTable(f, b, b[1])[i]
    BY <1>1
  <2> QED BY <2>1 DEF StartTable
<1>4. f[1] = 1
  <2>1. 1 \in 1 .. b[1] + 1
    OBVIOUS
  <2> QED BY <1>3, <2>1
<1>5. ASSUME NEW i \in 2 .. b[1] + 1
      PROVE  f[i] = IF f[i - 1] # Malformed /\ SoundEntry(b, f[i - 1])
                    THEN ValueEnd(b, f[i - 1])
                    ELSE Malformed
  <2>1. i \in 1 .. b[1] + 1 /\ i # 1
    OBVIOUS
  <2> QED BY <1>3, <2>1
<1> QED BY <1>2, <1>4, <1>5

(***************************************************************************)
(* The parts of a setting are byte strings of at most 255 bytes.           *)
(***************************************************************************)
LEMMA EntryParts ==
  ASSUME NEW e \in BagEntry
  PROVE  /\ Len(e.key) \in Nat /\ Len(e.key) >= 1 /\ Len(e.key) <= 255
         /\ e.key \in Bytes(Len(e.key)) /\ e.type \in Byte
         /\ Len(e.value) \in Nat /\ Len(e.value) <= 255 /\ e.value \in Bytes(Len(e.value))
<1> DEFINE Ascii == 0 .. 127
           m == Len(e.key)
           n == Len(e.value)
<1>1. e.key \in Seq(Ascii) /\ m \in 1 .. 255
  BY DEF BagEntry, Key
<1>2. e.type \in Byte /\ e.value \in Seq(Byte) /\ n <= 255
  BY DEF BagEntry, Text
<1>3. Ascii \subseteq Byte
  BY ByteRange
<1> HIDE DEF Ascii
<1>4. m \in Nat /\ e.key \in [1 .. m -> Ascii]
  BY <1>1, LenProperties
<1>5. n \in Nat
  BY <1>2
<1>6. e.value \in Bytes(n)
  BY <1>2, <1>5, BytesAre
<1> HIDE DEF m, n
<1>7. m >= 1 /\ m <= 255
  BY <1>1
<1>8. e.key \in Bytes(m)
  BY <1>3, <1>4 DEF Bytes
<1> QED BY <1>2, <1>4, <1>5, <1>6, <1>7, <1>8 DEF m, n

(***************************************************************************)
(* A setting is encoded as at least one byte.                              *)
(***************************************************************************)
LEMMA EntryBytesAre ==
  ASSUME NEW e \in BagEntry
  PROVE  EntryBytes(e) \in Seq(Byte) /\ Len(EntryBytes(e)) >= 1
<1> DEFINE m == Len(e.key)
           n == Len(e.value)
           p == Counted(e.key)
           q == Counted(e.value)
<1>1. /\ e.key \in Bytes(m) /\ m <= 255 /\ m \in Nat
      /\ e.type \in Byte /\ e.value \in Bytes(n) /\ n <= 255 /\ n \in Nat
  BY EntryParts
<1> HIDE DEF m, n
<1>2. p \in Bytes(1 + m) /\ q \in Bytes(1 + n) /\ 1 + m \in Nat /\ 1 + n \in Nat
  BY <1>1, CountedIs
<1>3. p \in Seq(Byte) /\ Len(p) = 1 + m /\ q \in Seq(Byte)
  BY <1>2, BytesAre
<1> HIDE DEF p, q
<1>4. <<e.type>> \in Seq(Byte)
  BY <1>1
<1>5. p \o <<e.type>> \o q \in Seq(Byte) /\ Len(p \o <<e.type>> \o q) >= 1
  BY <1>1, <1>3, <1>4
<1> QED BY <1>5 DEF EntryBytes, p, q

(***************************************************************************)
(* A setting that stands at a place in a bag is sound there, ends where    *)
(* its bytes end and is read back as it was encoded.                       *)
(***************************************************************************)
LEMMA EntryIsRead ==
  ASSUME NEW k \in Nat, NEW b \in Bytes(k), NEW off \in Nat, NEW e \in BagEntry,
         NEW w \in Nat, EntryBytes(e) \in Bytes(w), off + w <= k,
         Slice(b, off, off + w) = EntryBytes(e)
  PROVE  /\ SoundEntry(b, off) /\ ValueEnd(b, off) = off + w /\ Entry(b, off) = e
<1> DEFINE m == Len(e.key)
           n == Len(e.value)
           t == <<e.type>>
           c == Counted(e.key) \o t \o Counted(e.value)
           x == off + 1 + m
           y == x + 1
           z == off + w
<1>1. /\ e.key \in Bytes(m) /\ m >= 1 /\ m <= 255 /\ m \in Nat
      /\ e.type \in Byte /\ e.value \in Bytes(n) /\ n <= 255 /\ n \in Nat
  BY EntryParts
<1>2. e = [key |-> e.key, type |-> e.type, value |-> e.value]
  BY DEF BagEntry
<1>3. e.key \in Bytes(m) /\ e.value \in Bytes(n) /\ t \in Bytes(1)
  <2>1. t \in Seq(Byte) /\ Len(t) = 1
    BY <1>1
  <2> QED BY <1>1, <2>1, BytesAre
<1>4. c = EntryBytes(e)
  BY DEF EntryBytes
<1> HIDE DEF m, n, t
<1>5. Counted(e.key) \in Bytes(1 + m) /\ Counted(e.value) \in Bytes(1 + n)
  BY <1>1, <1>3, CountedIs
<1>6. 1 + m \in Nat /\ 1 + n \in Nat /\ 1 \in Nat
  BY <1>1
<1>7. /\ c \in Bytes(1 + m + 1 + (1 + n))
      /\ Slice(c, 0, 1 + m) = Counted(e.key) /\ Slice(c, 1 + m, 1 + m + 1) = t
      /\ Slice(c, 1 + m + 1, 1 + m + 1 + (1 + n)) = Counted(e.value)
  <2> DEFINE p == Counted(e.key)
             q == Counted(e.value)
             i == 1 + m
             j == 1 + n
  <2>1. p \in Bytes(i) /\ q \in Bytes(j) /\ t \in Bytes(1)
    BY <1>3, <1>5
  <2>2. i \in Nat /\ j \in Nat /\ 1 \in Nat
    BY <1>6
  <2> HIDE DEF p, q, i, j
  <2>3. /\ p \o t \o q \in Bytes(i + 1 + j)
        /\ Slice(p \o t \o q, 0, i) = p /\ Slice(p \o t \o q, i, i + 1) = t
        /\ Slice(p \o t \o q, i + 1, i + 1 + j) = q
    BY <2>1, <2>2, ThreeParts
  <2> QED BY <2>3 DEF p, q, i, j
<1> HIDE DEF c
<1>8. w = 1 + m + 1 + (1 + n)
  <2>1. 1 + m + 1 + (1 + n) \in Nat
    BY <1>1
  <2>2. Len(c) = 1 + m + 1 + (1 + n)
    BY <1>7, <2>1, BytesAre
  <2>3. c \in Bytes(w)
    BY <1>4
  <2>4. Len(c) = w
    BY <2>3, BytesAre
  <2> QED BY <2>2, <2>4
<1>9. /\ z \in Nat /\ off <= z /\ z <= k /\ z - off = w /\ x \in Nat /\ y \in Nat
      /\ x < k /\ off + (1 + m) = x /\ off + (1 + m + 1) = y
      /\ off + (1 + m + 1 + (1 + n)) = z /\ y + (1 + n) = z /\ y + 1 + n = z
      /\ off + (1 + m) <= k /\ y + (1 + n) <= k /\ x + 2 = y + 1 /\ x + 1 = y
  BY <1>1, <1>8
<1>10. Slice(b, off, z) = c
  BY <1>4
<1> HIDE DEF x, y, z
<1>11. /\ Slice(b, off + 0, off + (1 + m)) = Slice(c, 0, 1 + m)
       /\ Slice(b, off + (1 + m), off + (1 + m + 1)) = Slice(c, 1 + m, 1 + m + 1)
       /\ Slice(b, off + (1 + m + 1), off + (1 + m + 1 + (1 + n))) =
            Slice(c, 1 + m + 1, 1 + m + 1 + (1 + n))
  <2> DEFINE i == 1 + m
             j == 1 + m + 1
             h == 1 + m + 1 + (1 + n)
  <2>1. /\ 0 \in Nat /\ i \in Nat /\ j \in Nat /\ h \in Nat /\ 0 <= i /\ i <= j /\ j <= h
        /\ i <= z - off /\ j <= z - off /\ h <= z - off
    BY <1>1, <1>8, <1>9
  <2> HIDE DEF i, j, h
  <2>2. Slice(Slice(b, off, z), 0, i) = Slice(b, off + 0, off + i)
    BY <1>9, <2>1, SliceOfSlice
  <2>3. Slice(Slice(b, off, z), i, j) = Slice(b, off + i, off + j)
    BY <1>9, <2>1, SliceOfSlice
  <2>4. Slice(Slice(b, off, z), j, h) = Slice(b, off + j, off + h)
    BY <1>9, <2>1, SliceOfSlice
  <2> QED BY <1>10, <2>2, <2>3, <2>4 DEF i, j, h
<1>12. /\ Slice(b, off, off + (1 + m)) = Counted(e.key)
       /\ Slice(b, x, y) = t /\ Slice(b, y, y + (1 + n)) = Counted(e.value)
  <2>1. off + 0 = off
    OBVIOUS
  <2> QED BY <1>7, <1>9, <1>11, <2>1
<1>13. At(b, off) = m /\ Slice(b, off + 1, off + 1 + m) = e.key
  <2>1. m \in Nat /\ m <= 255 /\ e.key \in Bytes(m) /\ off + (1 + m) <= k
    BY <1>1, <1>3, <1>9
  <2>2. Slice(b, off, off + (1 + m)) = Counted(e.key)
    BY <1>12
  <2> QED BY <2>1, <2>2, CountedIsRead
<1>14. At(b, y) = n /\ Slice(b, y + 1, y + 1 + n) = e.value
  BY <1>1, <1>3, <1>9, <1>12, CountedIsRead
<1>15. At(b, x) = e.type
  <2>1. Slice(b, x, x + 1) = <<At(b, x)>>
    BY <1>9, OneByteSlice
  <2>2. <<At(b, x)>> = <<e.type>>
    BY <1>9, <1>12, <2>1 DEF t
  <2> QED BY <2>2
<1>16. KeyEnd(b, off) = x /\ ValueEnd(b, off) = z
  <2>1. KeyEnd(b, off) = x
    BY <1>13 DEF KeyEnd, x
  <2>2. ValueEnd(b, off) = y + 1 + n
    BY <1>9, <1>14, <2>1 DEF ValueEnd
  <2> QED BY <1>9, <2>1, <2>2
<1>17. Len(b) = k
  BY BytesAre
<1>18. SoundEntry(b, off)
  <2>1. off < k /\ m # 0 /\ x + 2 <= k
    BY <1>1, <1>9
  <2> QED BY <1>9, <1>13, <1>16, <1>17, <2>1 DEF SoundEntry
<1>19. Entry(b, off) = e
  <2>1. Slice(b, off + 1, KeyEnd(b, off)) = e.key
    BY <1>13, <1>16 DEF x
  <2>2. Slice(b, KeyEnd(b, off) + 2, ValueEnd(b, off)) = e.value
    BY <1>9, <1>14, <1>16
  <2> QED BY <1>2, <1>15, <1>16, <2>1, <2>2 DEF Entry
<1> QED BY <1>16, <1>18, <1>19 DEF z

(***************************************************************************)
(* Where the settings of a bag stand: the count, then each setting right   *)
(* after the one before it, to the end of the bag.                         *)
(***************************************************************************)
LEMMA BagIs ==
  ASSUME NEW e \in Seq(BagEntry), Len(e) <= 255
  PROVE  \E L \in [0 .. Len(e) -> Nat] :
           /\ L[0] = 1 /\ Bag(e) \in Bytes(L[Len(e)]) /\ Bag(e)[1] = Len(e)
           /\ \A i \in 1 .. Len(e) :
                /\ L[i - 1] < L[i] /\ L[i] <= L[Len(e)]
                /\ EntryBytes(e[i]) \in Bytes(L[i] - L[i - 1])
                /\ Slice(Bag(e), L[i - 1], L[i]) = EntryBytes(e[i])
<1> DEFINE N == Len(e)
           f == CHOOSE g : g = BagTable(g, e, N)
           L == [n \in 0 .. N |-> Len(f[n])]
           Placed(n) ==
             /\ f[n] \in Seq(Byte) /\ Len(f[n]) >= 1 /\ f[n][1] = N
             /\ \A i \in 1 .. n :
                  /\ L[i - 1] < L[i] /\ L[i] <= L[n]
                  /\ L[i - 1] \in Nat /\ L[i] \in Nat
                  /\ EntryBytes(e[i]) \in Bytes(L[i] - L[i - 1])
                  /\ Slice(f[n], L[i - 1], L[i]) = EntryBytes(e[i])
<1>1. N \in Nat /\ N \in Byte
  BY ByteRange, LenProperties
<1>2. f = BagTable(f, e, N)
  BY <1>1, BagTableExists
<1>3. Bag(e) = f[N]
  BY DEF Bag, BagTable
<1> HIDE DEF f, N
<1>4. ASSUME NEW n \in 0 .. N
      PROVE  f[n] = IF n = 0 THEN <<N>> ELSE f[n - 1] \o EntryBytes(e[n])
  <2>1. f[n] = BagTable(f, e, N)[n]
    BY <1>2
  <2> QED BY <2>1 DEF BagTable, N
<1> DEFINE T == {n \in Nat : n <= N /\ ~ Placed(n)}
<1> HIDE DEF Placed
<1>5. T = {}
  <2>1. SUFFICES ASSUME T # {} PROVE FALSE
    OBVIOUS
  <2>2. PICK n \in T : \A m \in T : n <= m
    BY <2>1, LeastNatural
  <2>3. n \in 0 .. N /\ ~ Placed(n)
    BY <1>1, <2>2
  <2>4. CASE n = 0
    <3>1. f[0] = <<N>>
      BY <1>4, <2>3, <2>4
    <3>2. f[0] \in Seq(Byte) /\ Len(f[0]) >= 1 /\ f[0][1] = N
      BY <1>1, <3>1
    <3>3. Placed(0)
      BY <3>2 DEF Placed
    <3> QED BY <2>3, <2>4, <3>3
  <2>5. CASE n # 0
    <3> DEFINE a == f[n - 1]
               c == EntryBytes(e[n])
               j == Len(a)
               w == Len(c)
    <3>1. n - 1 \in Nat /\ n - 1 \notin T /\ n - 1 <= N /\ n \in 1 .. N /\ n - 1 \in 0 .. N
      BY <1>1, <2>2, <2>3, <2>5
    <3>2. Placed(n - 1)
      BY <3>1
    <3>3. e[n] \in BagEntry
      BY <3>1, ElementOfSeq DEF N
    <3>4. c \in Seq(Byte) /\ w >= 1
      BY <3>3, EntryBytesAre
    <3>5. a \in Seq(Byte) /\ j >= 1 /\ a[1] = N
      BY <3>2 DEF Placed
    <3>6. f[n] = a \o c
      BY <1>4, <2>3, <2>5
    <3>7. L[n - 1] = j
      BY <3>1
    <3> HIDE DEF c
    <3>8. w \in Nat /\ j \in Nat
      BY <3>4, <3>5
    <3>9. a \in Bytes(j) /\ c \in Bytes(w)
      BY <3>4, <3>5, <3>8, BytesAre
    <3>10. f[n] \in Seq(Byte) /\ Len(f[n]) = j + w /\ f[n][1] = N
      BY <3>4, <3>5, <3>6
    <3>11. L[n] = j + w
      BY <2>3, <3>10
    <3> HIDE DEF a, j, w, L
    <3>12. /\ Slice(a \o c, j, j + w) = c
           /\ \A x, y \in Nat : x <= y /\ y <= j => Slice(a \o c, x, y) = Slice(a, x, y)
      BY <3>8, <3>9, PartsAreSlices
    <3>13. ASSUME NEW i \in 1 .. n
           PROVE  /\ L[i - 1] < L[i] /\ L[i] <= L[n]
                  /\ L[i - 1] \in Nat /\ L[i] \in Nat
                  /\ EntryBytes(e[i]) \in Bytes(L[i] - L[i - 1])
                  /\ Slice(f[n], L[i - 1], L[i]) = EntryBytes(e[i])
      <4>1. CASE i = n
        <5>1. /\ L[i - 1] = j /\ L[i] = j + w /\ L[i] - L[i - 1] = w /\ j < j + w
              /\ j + w \in Nat /\ j + w <= j + w
          BY <3>4, <3>7, <3>8, <3>11, <4>1
        <5>2. EntryBytes(e[i]) = c
          BY <4>1 DEF c
        <5> QED BY <3>6, <3>8, <3>9, <3>11, <3>12, <5>1, <5>2
      <4>2. CASE i # n
        <5>1. i \in 1 .. n - 1
          BY <4>2
        <5>2. /\ L[i - 1] < L[i] /\ L[i] <= j /\ L[i - 1] \in Nat /\ L[i] \in Nat
              /\ EntryBytes(e[i]) \in Bytes(L[i] - L[i - 1])
              /\ Slice(a, L[i - 1], L[i]) = EntryBytes(e[i])
          BY <3>2, <3>7, <5>1 DEF a, Placed
        <5>3. L[i - 1] <= L[i] /\ L[i] <= L[n]
          BY <3>8, <3>11, <5>2
        <5>4. Slice(a \o c, L[i - 1], L[i]) = Slice(a, L[i - 1], L[i])
          BY <3>12, <5>2, <5>3
        <5> QED BY <3>6, <5>2, <5>3, <5>4
      <4> QED BY <4>1, <4>2
    <3>14. Placed(n)
      BY <3>5, <3>8, <3>10, <3>13 DEF Placed
    <3> QED BY <2>3, <3>14
  <2> QED BY <2>4, <2>5
<1>6. ASSUME NEW n \in 0 .. N PROVE Placed(n)
  BY <1>5
<1>7. Placed(N)
  BY <1>1, <1>6
<1>8. L \in [0 .. N -> Nat]
  <2>1. ASSUME NEW n \in 0 .. N PROVE Len(f[n]) \in Nat
    BY <1>6 DEF Placed
  <2> QED BY <2>1
<1>9. L[0] = 1 /\ L[N] = Len(f[N])
  <2>1. 0 \in 0 .. N /\ N \in 0 .. N
    BY <1>1
  <2>2. f[0] = <<N>>
    BY <1>4, <2>1
  <2> QED BY <2>1, <2>2
<1>10. f[N] \in Bytes(L[N]) /\ f[N][1] = N
  <2>1. f[N] \in Seq(Byte) /\ Len(f[N]) \in Nat /\ f[N][1] = N
    BY <1>7 DEF Placed
  <2> QED BY <1>9, <2>1, BytesAre
<1>11. ASSUME NEW i \in 1 .. N
       PROVE  /\ L[i - 1] < L[i] /\ L[i] <= L[N]
              /\ EntryBytes(e[i]) \in Bytes(L[i] - L[i - 1])
              /\ Slice(f[N], L[i - 1], L[i]) = EntryBytes(e[i])
  BY <1>7 DEF Placed
<1> HIDE DEF L
<1> QED BY <1>3, <1>8, <1>9, <1>10, <1>11 DEF N

(***************************************************************************)
(* A setting that is sound in the first n bytes of a bag ends at the same  *)
(* place in the whole bag, within these n.                                 *)
(***************************************************************************)
LEMMA PartReads ==
  ASSUME NEW k \in Nat, NEW b \in Bytes(k), NEW n \in Nat, n <= k, NEW c \in Bytes(n),
         \A i \in 1 .. n : c[i] = b[i], NEW off \in Nat, SoundEntry(c, off)
  PROVE  ValueEnd(c, off) = ValueEnd(b, off) /\ ValueEnd(c, off) <= n
<1>1. Len(c) = n
  BY BytesAre
<1>2. off < n /\ KeyEnd(c, off) + 2 <= n /\ ValueEnd(c, off) <= n
  BY <1>1 DEF SoundEntry
<1>3. off + 1 \in 1 .. n
  BY <1>2
<1>4. At(c, off) = At(b, off) /\ At(c, off) \in Byte
  BY <1>3, OneByte DEF At
<1> DEFINE x == KeyEnd(c, off)
<1>5. x = KeyEnd(b, off) /\ x \in Nat
  BY <1>4, ByteRange DEF KeyEnd
<1> HIDE DEF x
<1>6. x + 1 + 1 \in 1 .. n
  BY <1>2, <1>5 DEF x
<1>7. At(c, x + 1) = At(b, x + 1)
  BY <1>6 DEF At
<1>8. ValueEnd(c, off) = x + 2 + At(c, x + 1) /\ ValueEnd(b, off) = x + 2 + At(b, x + 1)
  BY <1>5 DEF ValueEnd, x
<1> QED BY <1>2, <1>7, <1>8

(***************************************************************************)
(* A bag is read back setting by setting, and no strictly shorter part of  *)
(* it is accepted.                                                         *)
(***************************************************************************)
LEMMA BagIsWhole ==
  ASSUME NEW e \in Seq(BagEntry), Len(e) <= 255
  PROVE  BagIsRead(Bag(e))
<1> DEFINE N == Len(e)
           b == Bag(e)
<1>1. PICK L \in [0 .. N -> Nat] :
        /\ L[0] = 1 /\ b \in Bytes(L[N]) /\ b[1] = N
        /\ \A i \in 1 .. N :
             /\ L[i - 1] < L[i] /\ L[i] <= L[N]
             /\ EntryBytes(e[i]) \in Bytes(L[i] - L[i - 1])
             /\ Slice(b, L[i - 1], L[i]) = EntryBytes(e[i])
  BY BagIs
<1>2. N \in Nat /\ DOMAIN e = 1 .. N
  BY LenProperties
<1>3. \A i \in 1 .. N : e[i] \in BagEntry
  BY ElementOfSeq
<1> DEFINE k == L[N]
<1> HIDE DEF N, b
<1>4. k \in Nat /\ b \in Bytes(k) /\ b[1] = N
  BY <1>1, <1>2
<1>5. Len(b) = k
  BY <1>4, BytesAre
<1> HIDE DEF k
<1>6. ASSUME NEW i \in 1 .. N
      PROVE  /\ L[i - 1] \in Nat /\ L[i] \in Nat /\ L[i - 1] < L[i] /\ L[i] <= k
             /\ SoundEntry(b, L[i - 1]) /\ ValueEnd(b, L[i - 1]) = L[i]
             /\ Entry(b, L[i - 1]) = e[i]
  <2> DEFINE off == L[i - 1]
             w == L[i] - L[i - 1]
  <2>1. i - 1 \in 0 .. N /\ i \in 0 .. N
    BY <1>2
  <2>2. off \in Nat /\ L[i] \in Nat /\ off < L[i] /\ L[i] <= k
    BY <1>1, <2>1 DEF k
  <2>3. w \in Nat /\ off + w = L[i] /\ off + w <= k
    BY <2>2
  <2>4. EntryBytes(e[i]) \in Bytes(w) /\ Slice(b, off, L[i]) = EntryBytes(e[i])
    BY <1>1
  <2> HIDE DEF w, off
  <2>5. Slice(b, off, off + w) = EntryBytes(e[i])
    BY <2>3, <2>4
  <2>6. SoundEntry(b, off) /\ ValueEnd(b, off) = off + w /\ Entry(b, off) = e[i]
    BY <1>3, <1>4, <2>2, <2>3, <2>4, <2>5, EntryIsRead
  <2> QED BY <2>2, <2>3, <2>6 DEF off
<1>7. ASSUME NEW i \in 1 .. N + 1 PROVE EntryStarts(b)[i] = L[i - 1]
  <2> DEFINE T == {j \in Nat : j \in 1 .. N + 1 /\ EntryStarts(b)[j] # L[j - 1]}
  <2>1. SUFFICES ASSUME T # {} PROVE FALSE
    <3>1. i \in Nat /\ i \notin T => EntryStarts(b)[i] = L[i - 1]
      BY <1>2
    <3>2. i \in Nat
      BY <1>2
    <3> QED BY <3>1, <3>2, Zenon
  <2>2. PICK j \in T : \A m \in T : j <= m
    BY <2>1, LeastNatural
  <2>3. j \in 1 .. N + 1 /\ EntryStarts(b)[j] # L[j - 1]
    BY <2>2
  <2>4. /\ EntryStarts(b)[1] = 1
        /\ \A h \in 2 .. N + 1 :
             EntryStarts(b)[h] =
               IF EntryStarts(b)[h - 1] # Malformed /\ SoundEntry(b, EntryStarts(b)[h - 1])
               THEN ValueEnd(b, EntryStarts(b)[h - 1])
               ELSE Malformed
    BY <1>2, <1>4, StartsAre
  <2>5. CASE j = 1
    BY <1>1, <2>3, <2>4, <2>5
  <2>6. CASE j # 1
    <3> DEFINE h == j - 1
    <3>1. h \in 1 .. N + 1 /\ h \in 1 .. N /\ h \in Nat /\ h \notin T /\ j \in 2 .. N + 1
      BY <1>2, <2>2, <2>3, <2>6
    <3>2. EntryStarts(b)[h] = L[h - 1]
      BY <3>1
    <3>3. EntryStarts(b)[j] = IF L[h - 1] # Malformed /\ SoundEntry(b, L[h - 1])
                              THEN ValueEnd(b, L[h - 1])
                              ELSE Malformed
      BY <2>4, <3>1, <3>2
    <3> HIDE DEF h
    <3>4. L[h - 1] \in Nat /\ SoundEntry(b, L[h - 1]) /\ ValueEnd(b, L[h - 1]) = L[h]
      BY <1>6, <3>1
    <3>5. EntryStarts(b)[j] = L[h]
      BY <3>3, <3>4 DEF Malformed
    <3> QED BY <2>3, <3>5 DEF h
  <2> QED BY <2>5, <2>6
<1>8. ASSUME NEW i \in 1 .. N + 1 PROVE EntryStarts(b)[i] # Malformed
  <2>1. i - 1 \in 0 .. N
    BY <1>2
  <2>2. L[i - 1] \in Nat
    BY <1>1, <2>1
  <2> QED BY <1>7, <2>2 DEF Malformed
<1>9. SoundBag(b)
  <2>1. N + 1 \in 1 .. N + 1
    BY <1>2
  <2> QED BY <1>4, <1>8, <2>1 DEF SoundBag
<1>10. Entries(b) = e
  <2>1. b # <<>>
    <3>1. 0 \in 0 .. N /\ N \in 0 .. N
      BY <1>2
    <3>2. k >= 1
      <4>1. CASE N = 0
        BY <1>1, <4>1 DEF k
      <4>2. CASE N # 0
        <5>1. N \in 1 .. N
          BY <1>2, <4>2
        <5> QED BY <1>6, <5>1 DEF k
      <4> QED BY <4>1, <4>2
    <3> QED BY <1>5, <3>2
  <2>2. {j \in 1 .. N : EntryStarts(b)[j + 1] # Malformed} = 1 .. N
    <3>1. \A j \in 1 .. N : j + 1 \in 1 .. N + 1
      BY <1>2
    <3> QED BY <1>8, <3>1
  <2>3. Entries(b) = [i \in 1 .. N |-> Entry(b, EntryStarts(b)[i])]
    BY <1>4, <2>1, <2>2 DEF Entries
  <2>4. \A i \in 1 .. N : Entry(b, EntryStarts(b)[i]) = e[i]
    <3>1. ASSUME NEW i \in 1 .. N PROVE Entry(b, EntryStarts(b)[i]) = e[i]
      <4>1. i \in 1 .. N + 1
        BY <1>2
      <4> QED BY <1>6, <1>7, <4>1
    <3> QED BY <3>1
  <2>5. Entries(b) = [i \in 1 .. N |-> e[i]]
    BY <2>3, <2>4
  <2>6. e \in [1 .. N -> BagEntry]
    BY LenProperties DEF N
  <2> QED BY <2>5, <2>6
<1>11. ASSUME NEW n \in 1 .. Len(b) - 1 PROVE ~ SoundBag(SubSeq(b, 1, n))
  <2> DEFINE c == SubSeq(b, 1, n)
  <2>1. n \in Nat /\ n >= 1 /\ n < k /\ n <= k
    BY <1>4, <1>5
  <2>2. b \in Seq(Byte)
    BY <1>4, BytesAre
  <2>3. c \in Seq(Byte) /\ Len(c) = n /\ \A i \in 1 .. n : c[i] = b[i]
    BY <1>5, <2>1, <2>2
  <2> HIDE DEF c
  <2>4. c \in Bytes(n) /\ c # <<>>
    BY <2>1, <2>3, BytesAre
  <2>5. c[1] = N
    BY <1>4, <2>1, <2>3
  <2>6. /\ EntryStarts(c)[1] = 1
        /\ \A h \in 2 .. N + 1 :
             EntryStarts(c)[h] =
               IF EntryStarts(c)[h - 1] # Malformed /\ SoundEntry(c, EntryStarts(c)[h - 1])
               THEN ValueEnd(c, EntryStarts(c)[h - 1])
               ELSE Malformed
    BY <1>2, <2>5, StartsAre
  <2> DEFINE OnTheWay(j) == \/ EntryStarts(c)[j] = Malformed
                            \/ EntryStarts(c)[j] = L[j - 1] /\ L[j - 1] <= n
             T == {j \in Nat : j \in 1 .. N + 1 /\ ~ OnTheWay(j)}
  <2>7. T = {}
    <3>1. SUFFICES ASSUME T # {} PROVE FALSE
      OBVIOUS
    <3>2. PICK j \in T : \A m \in T : j <= m
      BY <3>1, LeastNatural
    <3>3. j \in 1 .. N + 1 /\ ~ OnTheWay(j)
      BY <3>2
    <3>4. CASE j = 1
      <4>1. EntryStarts(c)[j] = L[j - 1] /\ L[j - 1] <= n
        BY <1>1, <2>1, <2>6, <3>4
      <4> QED BY <3>3, <4>1
    <3>5. CASE j # 1
      <4> DEFINE h == j - 1
      <4>1. h \in 1 .. N + 1 /\ h \in 1 .. N /\ h \in Nat /\ h \notin T /\ j \in 2 .. N + 1
        BY <1>2, <3>2, <3>3, <3>5
      <4>2. OnTheWay(h)
        BY <4>1
      <4>3. EntryStarts(c)[j] =
              IF EntryStarts(c)[h] # Malformed /\ SoundEntry(c, EntryStarts(c)[h])
              THEN ValueEnd(c, EntryStarts(c)[h])
              ELSE Malformed
        BY <2>6, <4>1
      <4>4. EntryStarts(c)[j] # Malformed
        BY <3>3
      <4>5. EntryStarts(c)[h] = L[h - 1] /\ SoundEntry(c, L[h - 1])
        BY <4>2, <4>3, <4>4
      <4> HIDE DEF h
      <4>6. L[h - 1] \in Nat /\ ValueEnd(b, L[h - 1]) = L[h]
        BY <1>6, <4>1
      <4>7. ValueEnd(c, L[h - 1]) = ValueEnd(b, L[h - 1]) /\ ValueEnd(c, L[h - 1]) <= n
        <5>1. c \in Bytes(n) /\ (\A i \in 1 .. n : c[i] = b[i]) /\ n \in Nat /\ n <= k
          BY <2>1, <2>3, <2>4
        <5> QED BY <1>4, <4>5, <4>6, <5>1, PartReads
      <4>8. EntryStarts(c)[j] = L[h] /\ L[h] <= n
        BY <4>3, <4>4, <4>5, <4>6, <4>7
      <4> QED BY <3>3, <4>8 DEF h
    <3> QED BY <3>4, <3>5
  <2>8. OnTheWay(N + 1)
    <3>1. N + 1 \in Nat /\ N + 1 \in 1 .. N + 1
      BY <1>2
    <3> HIDE DEF OnTheWay
    <3> QED BY <2>7, <3>1
  <2>9. EntryStarts(c)[N + 1] = Malformed
    <3>1. (N + 1) - 1 = N /\ ~ (L[N] <= n)
      BY <1>2, <1>4, <2>1 DEF k
    <3> QED BY <2>8, <3>1
  <2>10. ~ SoundBag(c)
    BY <2>4, <2>5, <2>9 DEF SoundBag
  <2> QED BY <2>10 DEF c
<1>12. Bag(Entries(b)) = b
  BY <1>10 DEF b
<1> QED BY <1>9, <1>11, <1>12 DEF BagIsRead, b

-----------------------------------------------------------------------------
(***************************************************************************)
(* The header read from nine bytes that carry the magic and the version is *)
(* written as these bytes.                                                 *)
(***************************************************************************)
LEMMA HeaderIsWritten ==
  ASSUME NEW k \in Nat, NEW b \in Bytes(k), k >= 9,
         At(b, 0) = MAGIC, At(b, 1) = MAGIC, At(b, 2) = PROTOCOL_VERSION
  PROVE  LET h == Heading(b)
         IN  Header(h.source_id, h.sequence_number, h.hop_count, h.message_type,
                    h.payload_len) = Slice(b, 0, 9)
<1> DEFINE h == Heading(b)
           s == <<b[1], b[2], b[3], b[4], b[5], b[6], b[7], b[8], b[9]>>
<1>1. \A i \in 1 .. 9 : i \in 1 .. k
  OBVIOUS
<1>2. \A i \in 1 .. 9 : b[i] \in Byte /\ Low(b[i]) = b[i]
  BY <1>1, OneByte
<1>3. Low(b[4] + 256 * b[5]) = b[4] /\ High(b[4] + 256 * b[5]) = b[5]
  BY <1>2, BytesMakeWord
<1>4. /\ h.source_id = b[4] + 256 * b[5] /\ h.sequence_number = b[6] /\ h.hop_count = b[7]
      /\ h.message_type = b[8] /\ h.payload_len = b[9]
  BY DEF Heading, WordAt, At
<1>5. b[1] = MAGIC /\ b[2] = MAGIC /\ b[3] = PROTOCOL_VERSION
  BY DEF At
<1>6. Header(h.source_id, h.sequence_number, h.hop_count, h.message_type, h.payload_len) = s
  <2> HIDE DEF h
  <2>1. Low(b[6]) = b[6] /\ Low(b[7]) = b[7] /\ Low(b[8]) = b[8] /\ Low(b[9]) = b[9]
    BY <1>2
  <2> QED BY <1>3, <1>4, <1>5, <2>1, Zenon DEF Header
<1>7. s \in Bytes(9)
  <2>1. s \in Seq(Byte) /\ Len(s) = 9
    BY <1>2
  <2> QED BY <2>1, BytesAre
<1>8. \A i \in 1 .. 9 : b[0 + i] = s[i]
  OBVIOUS
<1> HIDE DEF s, h
<1>9. 0 \in Nat /\ 9 \in Nat /\ 0 + 9 <= k /\ 0 + 9 = 9
  OBVIOUS
<1>10. Slice(b, 0, 0 + 9) = s
  BY <1>7, <1>8, <1>9, SliceEquals, Zenon
<1> QED BY <1>6, <1>9, <1>10 DEF h

(***************************************************************************)
(* A frame that is admitted, and read without loss, is byte for byte what  *)
(* would be built from what was read.                                      *)
(***************************************************************************)
LEMMA ReadIsWritten ==
  ASSUME NEW b \in Seq(Byte), Admittable(b), ~ Lossy(Heading(b).message_type, PayloadOf(b)),
         Heading(b).message_type \in ConfigTypes =>
           SoundConfig(Heading(b).message_type, PayloadOf(b))
  PROVE  b = Reencoded(Heading(b), PayloadOf(b))
<1> DEFINE k == Len(b)
           h == Heading(b)
           t == h.message_type
           p == PayloadOf(b)
           n == k - 9
<1>1. k \in Nat
  OBVIOUS
<1>2. b \in Bytes(k)
  BY <1>1, BytesAre
<1>3. /\ k >= 9 /\ At(b, 0) = MAGIC /\ At(b, 1) = MAGIC /\ h.protocol_version = PROTOCOL_VERSION
      /\ k = 9 + h.payload_len
      /\ t \in FixedTypes => h.payload_len = PAYLOAD_LENGTHS[t]
      /\ t = TEXT_DISPLAY => SoundText(p)
  <2>1. /\ Len(b) \in HEADER_SIZE .. MAX_FRAME_SIZE
        /\ At(b, 0) = MAGIC /\ At(b, 1) = MAGIC
        /\ Heading(b).protocol_version = PROTOCOL_VERSION
        /\ Len(b) = HEADER_SIZE + Heading(b).payload_len
        /\ Heading(b).message_type \in FixedTypes =>
             Heading(b).payload_len = PAYLOAD_LENGTHS[Heading(b).message_type]
        /\ Heading(b).message_type = TEXT_DISPLAY => SoundText(PayloadOf(b))
    BY Zenon DEF Admittable, Sound
  <2>2. k >= 9
    <3>1. k \in HEADER_SIZE .. MAX_FRAME_SIZE
      BY <2>1
    <3> HIDE DEF k
    <3> QED BY <1>1, <3>1 DEF HEADER_SIZE, MAX_FRAME_SIZE
  <2>3. k = 9 + Heading(b).payload_len
    BY <2>1 DEF HEADER_SIZE
  <2> QED BY <2>1, <2>2, <2>3, Zenon DEF h, t, p
<1>4. At(b, 2) = PROTOCOL_VERSION
  BY <1>3 DEF Heading
<1>5. p = Slice(b, 9, k)
  BY DEF PayloadOf, HEADER_SIZE
<1>6. h.payload_len \in Byte
  <2>1. 9 \in 1 .. k
    BY <1>3
  <2>2. b[9] \in Byte
    BY <1>1, <1>2, <2>1, OneByte
  <2> QED BY <2>2 DEF Heading, At
<1>7. h.payload_len = n /\ n \in Nat
  BY <1>1, <1>3, <1>6, ByteRange
<1> HIDE DEF k, h, p, t
<1>8. p \in Bytes(n)
  <2>1. 9 \in Nat /\ 9 <= k /\ k <= k
    BY <1>1, <1>3
  <2> HIDE DEF n
  <2>2. Slice(b, 9, k) \in Bytes(k - 9)
    BY <1>1, <1>2, <2>1, SliceIs
  <2> QED BY <1>5, <2>2 DEF n
<1>9. t \in FixedTypes => n = PAYLOAD_LENGTHS[t]
  BY <1>3, <1>7
<1> HIDE DEF n
<1>10. IF t \in Types THEN Encoded(t, AsRead(t, p)) = p ELSE Fields(t, p).payload = p
  <2>1. CASE t \in Types
    <3>1. ~ Lossy(t, p) /\ (t \in ConfigTypes => SoundConfig(t, p))
      BY DEF t, p, h
    <3> QED BY <1>3, <1>7, <1>8, <1>9, <2>1, <3>1, PayloadIsWritten
  <2>2. CASE t \notin Types
    <3>1. Fields(t, p) = [payload |-> p]
      BY <2>2
      DEF Fields, Types, FixedTypes, ConfigTypes, HEARTBEAT, LIGHT_PULSE, LIGHT_WASH,
          LIGHT_WASH_END, LIGHT_WASH_PULSE, TEXT_DISPLAY, BITMAP_HEADER, CLEAR_SCREEN
    <3> QED BY <2>2, <3>1
  <2> QED BY <2>1, <2>2
<1>11. Reencoded(h, p) = Slice(b, 0, 9) \o p
  <2>1. Header(h.source_id, h.sequence_number, h.hop_count, h.message_type, h.payload_len) =
          Slice(b, 0, 9)
    BY <1>1, <1>2, <1>3, <1>4, HeaderIsWritten DEF h
  <2> QED BY <1>10, <2>1 DEF Reencoded, t
<1>12. Slice(b, 0, 9) \o Slice(b, 9, k) = Slice(b, 0, k)
  <2>1. 9 \in Nat /\ 9 <= k /\ k <= k
    BY <1>1, <1>3
  <2> QED BY <1>1, <1>2, <2>1, TwoSlices
<1>13. Slice(b, 0, k) = b
  BY <1>1, <1>2, WholeSlice
<1> QED BY <1>5, <1>11, <1>12, <1>13 DEF h, p

-----------------------------------------------------------------------------
(***************************************************************************)
(* A frame that was cut or padded is dropped, and one that was changed and *)
(* is not dropped is the encoding of what it was read as (DamageIsSeen),   *)
(* for every frame and every change.                                       *)
(***************************************************************************)
THEOREM DamageIsAlwaysSeen == Spec => []DamageIsSeen
<1>1. ASSUME IInv PROVE DamageIsSeen
  <2>1. ASSUME damage \in {"cut", "padded"} PROVE ~ Admittable(air)
    <3>1. LengthIsWrong(air)
      BY <1>1, <2>1 DEF IInv
    <3>2. SUFFICES ASSUME Admittable(air) PROVE FALSE
      OBVIOUS
    <3>3. /\ Len(air) \in HEADER_SIZE .. MAX_FRAME_SIZE
          /\ Len(air) = HEADER_SIZE + Heading(air).payload_len
      BY <3>2, Zenon DEF Admittable, Sound
    <3>4. Heading(air).payload_len = At(air, 8)
      BY DEF Heading
    <3>5. Len(air) = HEADER_SIZE + At(air, 8)
      BY <3>3, <3>4
    <3>6. ~ (Len(air) < HEADER_SIZE)
      <4> DEFINE k == Len(air)
      <4>1. k \in HEADER_SIZE .. MAX_FRAME_SIZE
        BY <3>3
      <4> HIDE DEF k
      <4>2. ~ (k < HEADER_SIZE)
        BY <4>1 DEF HEADER_SIZE, MAX_FRAME_SIZE
      <4> QED BY <4>2 DEF k
    <3> QED BY <3>1, <3>5, <3>6 DEF LengthIsWrong
  <2>2. ASSUME damage = "changed", Admittable(air)
        PROVE  LET h == Heading(air)
                   p == PayloadOf(air)
               IN  \/ h.message_type \in ConfigTypes /\ ~SoundConfig(h.message_type, p)
                   \/ Lossy(h.message_type, p)
                   \/ air = Reencoded(h, p)
    <3>1. air \in Seq(Byte)
      BY <1>1 DEF IInv
    <3> QED BY <2>2, <3>1, ReadIsWritten
  <2> QED BY <2>1, <2>2 DEF DamageIsSeen
<1> QED BY <1>1, IInvIsInvariant, PTL

(***************************************************************************)
(* A frame is admitted and read as it was sent, at the hop it has reached, *)
(* and the bag of a configuration write is read whole (ArrivesAsSent), for *)
(* every frame that can be said and any number of relays.                  *)
(***************************************************************************)
THEOREM AlwaysArrivesAsSent == Spec => []ArrivesAsSent
<1>1. ASSUME IInv PROVE ArrivesAsSent
  <2>1. SUFFICES ASSUME damage = "none"
                 PROVE  LET h == Heading(air)
                            p == PayloadOf(air)
                        IN  /\ Admittable(air)
                            /\ h.message_type = type /\ h.source_id = origin.source_id
                            /\ h.sequence_number = origin.sequence_number
                            /\ h.hop_count = relays
                            /\ type \in ConfigTypes => SoundConfig(type, p)
                            /\ AsRead(type, p) = AsShown(type, values)
                            /\ type = CONFIG_WRITE => BagIsRead(WriteFields(p).bag_tlv)
    BY DEF ArrivesAsSent
  <2> DEFINE h == Heading(air)
             p == PayloadOf(air)
             n == Len(p)
  <2>2. /\ type \in Types /\ values \in Sayable(type) /\ relays \in 0 .. MAX_HOP_COUNT
        /\ origin \in [source_id : Word, sequence_number : Byte] /\ air = Undamaged
    BY <1>1, <2>1 DEF IInv
  <2>3. /\ p = Encoded(type, values)
        /\ Len(air) = 9 + n /\ At(air, 0) = MAGIC /\ At(air, 1) = MAGIC
        /\ h = [protocol_version |-> PROTOCOL_VERSION, source_id |-> origin.source_id,
                sequence_number |-> origin.sequence_number, hop_count |-> relays,
                message_type |-> type, payload_len |-> n]
    BY <2>2, UndamagedIs
  <2>4. /\ p \in Seq(Byte) /\ n <= 241
        /\ type \in FixedTypes => n = PAYLOAD_LENGTHS[type]
        /\ type = TEXT_DISPLAY => SoundText(p)
        /\ type \in ConfigTypes => SoundConfig(type, p)
        /\ AsRead(type, p) = AsShown(type, values)
    BY <2>2, <2>3, PayloadIsRead
  <2> HIDE DEF p
  <2>5. n \in Nat
    BY <2>4
  <2> HIDE DEF n, h
  <2>6. /\ h.protocol_version = PROTOCOL_VERSION /\ h.source_id = origin.source_id
        /\ h.sequence_number = origin.sequence_number /\ h.hop_count = relays
        /\ h.message_type = type /\ h.payload_len = n
    BY <2>3
  <2>7. Admittable(air)
    <3>1. Len(air) \in HEADER_SIZE .. MAX_FRAME_SIZE /\ Len(air) = HEADER_SIZE + n
      BY <2>3, <2>4, <2>5 DEF HEADER_SIZE, MAX_FRAME_SIZE
    <3>2. Sound(air)
      BY <2>3, <2>4, <2>6, <3>1 DEF Sound, h, p
    <3>3. relays <= MAX_HOP_COUNT
      BY <2>2 DEF MAX_HOP_COUNT
    <3> QED BY <2>6, <3>2, <3>3 DEF Admittable, h
  <2>8. ASSUME type = CONFIG_WRITE PROVE BagIsRead(WriteFields(p).bag_tlv)
    <3>1. WriteFields(p) = values
      BY <2>4, <2>8
      DEF AsRead, AsShown, ConfigFields, ConfigTypes, UID_ANNOUNCE, CONFIG_WRITE, CONFIG_ACK,
          TEXT_DISPLAY
    <3>2. values.bag_tlv \in {<<>>} \cup {Bag(e) : e \in Bags}
      <4>1. /\ type \notin {LIGHT_PULSE, LIGHT_WASH_PULSE}
            /\ type # HEARTBEAT /\ type # LIGHT_WASH /\ type # LIGHT_WASH_END
            /\ type # CLEAR_SCREEN /\ type # TEXT_DISPLAY /\ type # UID_ANNOUNCE
        BY <2>8
        DEF HEARTBEAT, LIGHT_PULSE, LIGHT_WASH, LIGHT_WASH_END, LIGHT_WASH_PULSE,
            TEXT_DISPLAY, CLEAR_SCREEN, UID_ANNOUNCE, CONFIG_WRITE
      <4>2. values \in
              {f \in ConfigWrite : f.bag_tlv \in {<<>>} \cup {Bag(e) : e \in Bags}}
        BY <2>2, <2>8, <4>1 DEF Sayable, CONFIG_WRITE, CONFIG_ACK
      <4> QED BY <4>2
    <3>3. CASE values.bag_tlv = <<>>
      BY <3>1, <3>3 DEF BagIsRead
    <3>4. ASSUME NEW e \in Bags, values.bag_tlv = Bag(e) PROVE BagIsRead(WriteFields(p).bag_tlv)
      <4>1. e \in Seq(BagEntry) /\ Len(e) <= 255
        BY FramesAssumption
      <4> QED BY <3>1, <3>4, <4>1, BagIsWhole
    <3> QED BY <3>2, <3>3, <3>4
  <2> QED BY <2>4, <2>6, <2>7, <2>8 DEF h, p
<1> QED BY <1>1, IInvIsInvariant, PTL

=============================================================================
