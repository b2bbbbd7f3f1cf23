-------------------------------- MODULE Reader ---------------------------------
(***************************************************************************)
(* The two readers of a frame that import none of its encoders:            *)
(* bench/stimulus/check.py, which holds a segment against its account, and *)
(* the counts that bench/evidence/checksums.py takes of a corpus. A need() *)
(* that fails and an index past the end are both FALSE here; a field that  *)
(* cannot be read is Bad. CRCs take bench/rv32/crc_oracle.py's own path.   *)
(***************************************************************************)
EXTENDS Bytes

SYNC == [gt06 |-> {120, 121, 13, 10}, jt808 |-> {40, 41, 126, 231}]

ITEM_LENGTHS == Dict({<<1, 4>>, <<2, 2>>, <<37, 4>>, <<43, 4>>, <<48, 1>>, <<49, 1>>})

(* What stands for a value no encoder writes. *)
Bad == [bad |-> TRUE]

IsBcd(b)      == \A i \in DOMAIN b : b[i] \div 16 < 10 /\ b[i] % 16 < 10
bcd_digits(b) == [i \in 1 .. 2 * Len(b) |-> IF i % 2 = 1 THEN b[(i + 1) \div 2] \div 16
                                            ELSE b[i \div 2] % 16]
Value(digits) == Through(LAMBDA v, d : 10 * v + d, 0, digits)

--------------------------------------------------------------------------------
(* crc_oracle.py *)

reflect(value, width) ==
  LET f[k \in 0 .. width] == IF k = 0 THEN 0 ELSE 2 * f[k - 1] + Bits(value, k - 1, 1) IN f[width]

(* The table of binascii.crc_hqx: most significant bit first, 0x1021.      *)
HQX ==
  LET Crc(i) == LET f[k \in 0 .. 8] ==
                      IF k = 0 THEN 256 * i
                      ELSE LET c == f[k - 1] IN
                           IF c >= 32768 THEN Xor16((2 * c) % 65536, 4129) ELSE 2 * c
                IN f[8]
  IN <<>> \o [i \in 1 .. 256 |-> Crc(i - 1)]

crc_hqx(data, crc) ==
  Through(LAMBDA c, b : Xor16(256 * (c % 256), HQX[Xor8(c \div 256, b) + 1]), crc, data)

crc16_x25(data) ==
  65535 - reflect(crc_hqx([i \in DOMAIN data |-> reflect(data[i], 8)], 65535), 16)

--------------------------------------------------------------------------------
(* check.py: GT06 *)

gt06_fields(protocol, c) ==
  CASE protocol = 1 ->
         IF Len(c) = 8 /\ IsBcd(c) THEN [imei |-> Tail(bcd_digits(c))] ELSE Bad
    [] protocol = 18 ->
         IF Len(c) # 26 THEN Bad
         ELSE LET flags == Num(c, 16, 18) IN
              IF Bits(c[7], 4, 4) # 12 \/ Bits(flags, 14, 2) # 0 THEN Bad
              ELSE [time |-> FlattenSeq([i \in 1 .. 6 |-> Decimal(c[i], 2)]),
                    satellites |-> c[7] % 16, lat |-> Num(c, 7, 11), lon |-> Num(c, 11, 15),
                    speed |-> c[16], course |-> Bits(flags, 0, 10),
                    differential |-> Bits(flags, 13, 1), positioned |-> Bits(flags, 12, 1),
                    west |-> Bits(flags, 11, 1), north |-> Bits(flags, 10, 1),
                    mcc |-> Num(c, 18, 20), mnc |-> c[21], lac |-> Num(c, 21, 23),
                    cell |-> Num(c, 23, 26)]
    [] protocol = 19 ->
         IF Len(c) # 5 THEN Bad
         ELSE [info |-> c[1], voltage |-> c[2], gsm |-> c[3], alarm |-> c[4], language |-> c[5]]
    [] OTHER -> [content |-> c]

Gt06Truncated(b, r) ==
  /\ Len(b) < r.frame_length /\ IsPrefix(Slice(b, 0, 2), <<120, 120>>)
  /\ Len(b) >= 3 => b[3] + 5 = r.frame_length

Gt06Whole(b, r) ==
  LET n == Len(b) IN
  /\ n >= 10 /\ Slice(b, 0, 2) = <<120, 120>> /\ Slice(b, n - 2, n) = <<13, 10>>
  /\ r.type = b[4] /\ Num(b, n - 6, n - 4) = r.counter
  /\ Xor16(Num(b, n - 4, n - 2), crc16_x25(Slice(b, 2, n - 4)))
       = (IF r.fault = "bad_checksum" THEN r.check_error ELSE 0)
  /\ IF r.fault = "length_disagreement" THEN b[3] = r.length_field /\ r.length_field # n - 5
     ELSE b[3] = n - 5
  /\ gt06_fields(b[4], Slice(b, 4, n - 6)) = r.fields

check_gt06(b, r) == IF r.fault = "truncated" THEN Gt06Truncated(b, r) ELSE Gt06Whole(b, r)

--------------------------------------------------------------------------------
(* check.py: JT808. An escape pair that no alphabet has reads as 256.      *)

PAIRS == Dict({<<<<230, 1>>, 230>>, <<<<230, 2>>, 231>>, <<<<62, 1>>, 62>>, <<<<62, 2>>, 61>>,
               <<<<125, 1>>, 125>>, <<<<125, 2>>, 126>>})

destuff(inner, delimiter) ==
  LET introducers == IF delimiter = 231 THEN {230, 62} ELSE {125}
      Out[i \in 1 .. Len(inner) + 2] ==
        IF i > Len(inner) THEN <<>>
        ELSE IF inner[i] \notin introducers THEN <<inner[i]>> \o Out[i + 1]
        ELSE (IF i < Len(inner) /\ Slice(inner, i - 1, i + 1) \in DOMAIN PAIRS
              THEN <<PAIRS[Slice(inner, i - 1, i + 1)]>> ELSE <<256>>) \o Out[i + 2]
  IN Out[1]

(* The items after the fixed bytes, -1 for one that is not there; -2 for   *)
(* each when they cannot be read.                                          *)
BadItems == [i \in DOMAIN ITEM_LENGTHS |-> -2]
Items(b) ==
  LET Read[i \in 0 .. Len(b) + 6] ==
        IF i >= Len(b) THEN IF i = Len(b) THEN [j \in DOMAIN ITEM_LENGTHS |-> -1] ELSE BadItems
        ELSE IF i + 1 = Len(b) \/ b[i + 1] \notin DOMAIN ITEM_LENGTHS THEN BadItems
        ELSE IF b[i + 2] # ITEM_LENGTHS[b[i + 1]] THEN BadItems
        ELSE LET rest == Read[i + 2 + b[i + 2]] IN
             IF rest[b[i + 1]] # -1 THEN rest
             ELSE [rest EXCEPT ![b[i + 1]] = Num(b, i + 2, i + 2 + b[i + 2])]
  IN Read[28]

location(b) ==
  IF Len(b) < 28 THEN Bad
  ELSE LET status == Num(b, 4, 8)
           items  == Items(b)
           high   == Num(b, 16, 18)
       IN IF status >= 16 \/ ~IsBcd(Slice(b, 22, 28)) \/ items = BadItems THEN Bad
          ELSE [alarm |-> Num(b, 0, 4), acc |-> Bits(status, 0, 1),
                positioned |-> Bits(status, 1, 1), south |-> Bits(status, 2, 1),
                west |-> Bits(status, 3, 1), lat |-> Num(b, 8, 12), lon |-> Num(b, 12, 16),
                altitude |-> IF high < 32768 THEN high ELSE high - 65536,
                speed |-> Num(b, 18, 20), course |-> Num(b, 20, 22),
                time |-> bcd_digits(Slice(b, 22, 28)), items |-> items]

location2(b) ==
  LET lon == SubSeq(bcd_digits(Slice(b, 10, 15)), 1, 9)
      date == bcd_digits(Slice(b, 0, 3))
  IN IF \/ Len(b) # 35 \/ ~IsBcd(Slice(b, 0, 10) \o Slice(b, 15, 16))
        \/ \E i \in DOMAIN lon : lon[i] > 9
     THEN Bad
     ELSE [time |-> SubSeq(date, 5, 6) \o SubSeq(date, 3, 4) \o SubSeq(date, 1, 2)
                    \o bcd_digits(Slice(b, 3, 6)),
           lat |-> Value(bcd_digits(Slice(b, 6, 10))), lon |-> Value(lon),
           valid |-> Bits(b[15], 0, 1), north |-> Bits(b[15], 1, 1), east |-> Bits(b[15], 2, 1),
           speed |-> Value(bcd_digits(Slice(b, 15, 16))), course |-> b[17], rssi |-> b[18],
           satellites |-> b[19], odometer |-> Num(b, 19, 23), battery |-> b[24],
           cid |-> Num(b, 24, 28), lac |-> Num(b, 28, 30), product |-> b[31],
           status |-> Num(b, 31, 33), alarm |-> Num(b, 33, 35)]

(* The records of a batch, from b[i] on; Bad among them if one is.         *)
Records(b) ==
  LET Read[i \in 3 .. Len(b) + 65540] ==
        IF i >= Len(b) THEN IF i = Len(b) THEN <<>> ELSE <<Bad>>
        ELSE LET n == Num(b, i, i + 2) IN <<location(Slice(b, i + 2, i + 2 + n))>> \o Read[i + 2 + n]
  IN Read[3]

jt808_fields(msg_type, body) ==
  CASE msg_type = 258   -> [code |-> body]
    [] msg_type = 512   -> location(body)
    [] msg_type = 1796  ->
         IF Len(body) < 3 THEN Bad
         ELSE LET records == Records(body) IN
              IF Num(body, 0, 2) # Len(records) THEN Bad
              ELSE [archive |-> body[3], records |-> records]
    [] msg_type = 21761 -> location2(body)
    [] OTHER            -> [body |-> body]

Jt808Header(d, conn, r) ==
  LET type == Num(d, 0, 2)
      attribute == Num(d, 2, 4)
      v2019 == conn.version = 2019
      n == IF v2019 THEN 10 ELSE IF conn.delimiter = 231 THEN 7 ELSE 6
      at == IF v2019 THEN 5 ELSE 4
      width == IF type \in {21761, 21762} THEN 1 ELSE 2
      body == Slice(d, at + n + width, Len(d) - 1)
  IN /\ Len(d) > at + n + width
     /\ r.type = type
     /\ (Bits(attribute, 14, 1) = 1) = (v2019 \/ r.fault = "flag_lying")
     /\ Bits(attribute, 10, 4) = 0 /\ Bits(attribute, 15, 1) = 0
     /\ v2019 => d[5] = 1
     /\ bcd_digits(Slice(d, at, at + n)) = [i \in 1 .. 2 * n - Len(conn.device) |-> 0] \o conn.device
     /\ Num(d, at + n, at + n + width) = r.counter
     /\ IF r.fault = "length_disagreement"
          THEN Bits(attribute, 0, 10) = r.length_field /\ r.length_field # Len(body)
          ELSE Bits(attribute, 0, 10) = Len(body)
     /\ jt808_fields(type, body) = r.fields

check_jt808(b, r, conn) ==
  LET inner == Slice(b, 1, Len(b) - 1)
      d     == destuff(inner, conn.delimiter)
      introducers == IF conn.delimiter = 231 THEN {230, 62} ELSE {125}
  IN /\ r.framing = <<conn.delimiter>> /\ b[1] = conn.delimiter
     /\ ~Contains(inner, conn.delimiter)
     /\ IF r.fault = "truncated"
          THEN Len(b) < r.frame_length /\ ~Contains(Tail(b), conn.delimiter)
          ELSE /\ b[Len(b)] = conn.delimiter
               /\ Cardinality({i \in DOMAIN inner : inner[i] \in introducers}) = r.escapes
               /\ Len(d) > 0 /\ ~Contains(d, 256)
               /\ Xored(d) = (IF r.fault = "bad_checksum" THEN r.check_error ELSE 0)
               /\ Jt808Header(d, conn, r)

check_sentence(b, r) ==
  LET text == <<40>> \o r.fields.text \o <<41>> IN
  IF r.fault = "truncated"
    THEN Len(b) < Len(text) /\ Len(text) = r.frame_length /\ IsPrefix(b, text) /\ ~Contains(b, 41)
    ELSE b = text /\ ~Contains(Front(b), 41)

(* No identifier in a stimulus may be a real one. *)
check_device(conn) ==
  LET device == conn.device
      Doubled(i) == device[i] * (IF (14 - i) % 2 = 1 THEN 1 ELSE 2)
      Plus(total, i) == total + (IF Doubled(i) > 9 THEN Doubled(i) - 9 ELSE Doubled(i))
  IN IF conn.protocol = "gt06"
       THEN /\ Len(device) = 15
            /\ (10 - (Through(Plus, 0, [i \in 1 .. 14 |-> i]) % 10)) % 10 # device[15]
       ELSE Len(device) = 12 /\ IsPrefix(<<0, 0, 0, 0, 0>>, device)

(* A garbage run keeps to its alphabet; a frame is read by its framing.    *)
Accepts(b, r, conn) ==
  IF r.kind = "garbage" THEN r.alphabet = "no_sync" => ToSet(b) \cap SYNC[conn.protocol] = {}
  ELSE CASE r.protocol = "gt06" -> check_gt06(b, r)
         [] r.framing = <<40>>  -> check_sentence(b, r)
         [] OTHER               -> check_jt808(b, r, conn)

--------------------------------------------------------------------------------
(* checksums.py: what the corpus counters say of one frame.                *)

gt06_corpus(b) ==
  LET n == Len(b)
      long_form == Slice(b, 0, 2) = <<121, 121>>
      length    == IF long_form THEN Num(b, 2, 4) ELSE b[3]
  IN IF n < 10 \/ Slice(b, n - 2, n) # <<13, 10>> \/ Slice(b, 0, 2) \notin {<<120, 120>>, <<121, 121>>}
     THEN [frame |-> FALSE, disagrees |-> FALSE, verifies |-> FALSE]
     ELSE [frame |-> TRUE, disagrees |-> n # (IF long_form THEN 4 ELSE 3) + length + 2,
           verifies |-> crc16_x25(Slice(b, 2, n - 4)) = Num(b, n - 4, n - 2)]

jt808_destuff(inner, alternative) ==
  SelectSeq(destuff(inner, IF alternative THEN 231 ELSE 126), LAMBDA v : v # 256)

jt808_corpus(b) ==
  LET d     == jt808_destuff(Slice(b, 1, Len(b) - 1), b[1] = 231)
      type  == Num(d, 0, 2)
      attr  == Num(d, 2, 4)
      v2019 == Bits(attr, 14, 1) = 1
      header == 2 + 2 + (IF v2019 THEN 1 + 10 ELSE IF b[1] = 231 THEN 7 ELSE 6)
                + (IF type \in {21761, 21762} THEN 1 ELSE 2)
  IN IF Len(b) < 2 \/ b[1] \notin {126, 231} \/ b[Len(b)] # b[1]
     THEN [frame |-> FALSE, disagrees |-> FALSE, verifies |-> FALSE]
     ELSE [frame |-> TRUE, disagrees |-> Len(d) - header - 1 # Bits(attr, 0, 10),
           verifies |-> Xored(d) = 0]
================================================================================
