------------------------------ MODULE MCFrames ------------------------------
(***************************************************************************)
(* Two frames of each type and sizes of texts, their fields different from *)
(* each other and at both ends of their ranges; texts of up to two bytes,  *)
(* some of them no UTF-8; bytes may be changed to the smallest and the     *)
(* largest, and to one that is a length elsewhere.                         *)
(***************************************************************************)
EXTENDS Frames, SequencesExt

MCOrigins ==
  {[source_id |-> 1, sequence_number |-> 255], [source_id |-> 770, sequence_number |-> 8]}

MCUtf8 == SeqOf({0, 1, 2, 8, 65}, 2) \cup {<<195, 169>>}

Strings == {<<>>, <<65>>, <<195>>, <<8, 65>>, <<195, 169>>}

MCBags ==
  {<<>>, <<[key |-> <<103>>, type |-> 0, value |-> <<2>>],
           [key |-> <<114, 120>>, type |-> 4, value |-> <<>>]>>}

(***************************************************************************)
(* Number i of a frame's fields, counted upwards from k.                   *)
(***************************************************************************)
B(k, i) == (k + i) % 256
W(k, i) == 256 * B(k, i) + B(k, i + 100)
S(k, i, n) == [j \in 1 .. n |-> B(k, i + j)]

Samples(k) ==
  [t \in Types |->
     CASE t = HEARTBEAT ->
            {[tick |-> S(k, 1, 4), days_since_2026 |-> W(k, 2),
              centiseconds_today |-> S(k, 8, 3)]}
       [] t \in {LIGHT_PULSE, LIGHT_WASH_PULSE} ->
            {[target_class |-> B(k, 1), target_group |-> W(k, 2), r |-> B(k, 3), g |-> B(k, 4),
              b |-> B(k, 5), attack |-> B(k, 6), sustain |-> B(k, 7), release |-> B(k, 8),
              chance |-> B(k, 9), led_mode |-> B(k, 10), led_modifier1 |-> B(k, 11),
              led_modifier2 |-> B(k, 12)]}
       [] t = LIGHT_WASH ->
            {[target_class |-> B(k, 1), target_group |-> W(k, 2), r1 |-> B(k, 3),
              g1 |-> B(k, 4), b1 |-> B(k, 5), r2 |-> B(k, 6), g2 |-> B(k, 7), b2 |-> B(k, 8),
              wash_attack |-> B(k, 9), wash_release |-> B(k, 10), intensity |-> B(k, 11),
              cycle_ms |-> W(k, 12), ttl_seconds |-> W(k, 13), pulse_response |-> B(k, 14),
              led_mode |-> B(k, 15), led_modifier1 |-> B(k, 16), led_modifier2 |-> B(k, 17)]}
       [] t = LIGHT_WASH_END ->
            {[target_class |-> B(k, 1), target_group |-> W(k, 2), release_time |-> B(k, 3),
              led_mode |-> B(k, 4), led_modifier1 |-> B(k, 5), led_modifier2 |-> B(k, 6)]}
       [] t = CLEAR_SCREEN ->
            {[clear_target_group |-> W(k, 1), clear_text |-> x, clear_bitmap |-> y] :
               x \in {0, 1}, y \in {0, 1}}
       [] t = TEXT_DISPLAY ->
            {[text_target_group |-> W(k, 1), text_r |-> B(k, 2), text_g |-> B(k, 3),
              text_b |-> B(k, 4), ttl_ms |-> W(k, 5), header |-> h, body |-> b] :
               h \in Strings, b \in Strings}
       [] t = UID_ANNOUNCE ->
            {[uid |-> S(k, 1, 4), secret |-> S(k, 5, 16), role |-> B(k, 2), host |-> B(k, 3),
              friendly_name |-> n] : n \in Strings}
       [] t = CONFIG_WRITE ->
            {[target_uid |-> S(k, 1, 4), numonce |-> S(k, 5, 8), bag_tlv |-> b,
              hmac |-> S(k, 13, 8)] : b \in {<<>>} \cup {Bag(e) : e \in Bags}}
       [] t = CONFIG_ACK ->
            {[responder_uid |-> S(k, 1, 4), responder_numonce |-> S(k, 5, 8),
              status |-> B(k, 2), applied_keys |-> B(k, 3)]}]

MCValues == [t \in Types |-> Samples(0)[t] \cup Samples(250)[t]]

=============================================================================
