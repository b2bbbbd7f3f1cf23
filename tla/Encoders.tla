------------------------------- MODULE Encoders --------------------------------
(***************************************************************************)
(* bench/stimulus's encoders: common.py, gt06.py and jt808.py. They turn   *)
(* the fields of a record into the bytes of a frame. A byte is a number, a *)
(* text a sequence of bytes, a digit string a sequence of digits, and the  *)
(* fields a record with the code's keys; a location's items are a function *)
(* from item to value, or -1. What fields are drawn from is a set of       *)
(* records. What to_bytes and bcd refuse is outside of it.                 *)
(***************************************************************************)
EXTENDS Bytes

Digit == 0 .. 9
Bit   == 0 .. 1

(* What prng.py's between(lo, hi) can draw. *)
between(lo, hi) == lo .. hi

(* The 32-bit fields, cut to what TLC's integers hold. *)
U32 == 0 .. 2147483647

Ascii(digits) == [i \in DOMAIN digits |-> 48 + digits[i]]

--------------------------------------------------------------------------------
(* common.py *)

bcd(digits) == [i \in 1 .. Len(digits) \div 2 |-> 16 * digits[2 * i - 1] + digits[2 * i]]

(* The Luhn check digit: from the right, every other digit doubled.        *)
luhn_digit(digits) ==
  LET Doubled(i) == digits[i] * (IF (Len(digits) - i) % 2 = 0 THEN 2 ELSE 1)
      Plus(total, i) == total + (IF Doubled(i) > 9 THEN Doubled(i) - 9 ELSE Doubled(i))
  IN (10 - (Through(Plus, 0, [i \in DOMAIN digits |-> i]) % 10)) % 10

(* The identifiers made from a drawn body: any last digit but Luhn's.      *)
fake_imei(body)     == {Append(body, (luhn_digit(body) + k) % 10) : k \in 1 .. 9}
fake_terminal(body) == <<0, 0, 0, 0, 0>> \o body

(* What clock_digits can return, but for the calendar: YYMMDDhhmmss. *)
Clocks == {t \in [1 .. 12 -> Digit] : t[1] = 2 /\ t[2] = 6}

--------------------------------------------------------------------------------
(* gt06.py *)

START == <<120, 120>>
STOP  == <<13, 10>>

GT06_UNKNOWN == {8, 58, 60, 61, 62, 63, 66, 67}

(* The reflected CRC-ITU table, polynomial 0x8408. *)
TABLE ==
  LET Crc(i) == LET f[k \in 0 .. 8] ==
                      IF k = 0 THEN i
                      ELSE LET c == f[k - 1] IN
                           IF c % 2 = 1 THEN Xor16(c \div 2, 33800) ELSE c \div 2
                IN f[8]
  IN <<>> \o [i \in 1 .. 256 |-> Crc(i - 1)]

crc_itu(data) ==
  LET Step(fcs, b) == Xor16(fcs \div 256, TABLE[Xor8(fcs % 256, b) + 1])
  IN 65535 - Through(Step, 65535, data)

gt06_frame(protocol, content, serial, length, crc_error) ==
  LET covered == <<length, protocol>> \o content \o Be(serial, 2)
  IN START \o covered \o Be(Xor16(crc_itu(covered), crc_error), 2) \o STOP

login_fields(imei) == [imei |-> imei]
login_content(f)   == bcd(<<0>> \o f.imei)

gt06_location_fields ==
  [time : Clocks, satellites : between(0, 15), lat : between(0, 162000000),
   lon : between(0, 324000000), speed : Byte, course : between(0, 360), differential : Bit,
   positioned : Bit, west : Bit, north : Bit, mcc : between(0, 999), mnc : Byte,
   lac : between(1, 65534), cell : between(0, 16777215)]

(* The flags and the course share no bits, so that | adds them. *)
gt06_location_content(f) ==
  [i \in 1 .. 6 |-> 10 * f.time[2 * i - 1] + f.time[2 * i]]
  \o <<192 + f.satellites>> \o Be(f.lat, 4) \o Be(f.lon, 4) \o <<f.speed>>
  \o Be(8192 * f.differential + 4096 * f.positioned + 2048 * f.west + 1024 * f.north + f.course, 2)
  \o Be(f.mcc, 2) \o <<f.mnc>> \o Be(f.lac, 2) \o Be(f.cell, 3)

(* The information byte: bits 5-3 hold an alarm of 0 to 4, the others any. *)
status_fields ==
  [info : {64 * a + 8 * b + c : a \in 0 .. 3, b \in 0 .. 4, c \in 0 .. 7},
   voltage : 0 .. 6, gsm : 0 .. 4, alarm : 0 .. 5, language : 1 .. 2]

status_content(f) == <<f.info, f.voltage, f.gsm, f.alarm, f.language>>

--------------------------------------------------------------------------------
(* jt808.py *)

STANDARD    == 126
ALTERNATIVE == 231

\* Mutant: 0xE7 is not escaped in its own alphabet.
ESCAPE_NoE7 ==
  [delimiter \in {STANDARD, ALTERNATIVE} |->
     Dict(IF delimiter = STANDARD THEN {<<125, <<125, 1>>>>, <<126, <<125, 2>>>>}
          ELSE {<<230, <<230, 1>>>>, <<62, <<62, 1>>>>, <<61, <<62, 2>>>>})]

ESCAPE ==
  [delimiter \in {STANDARD, ALTERNATIVE} |->
     Dict(IF delimiter = STANDARD THEN {<<125, <<125, 1>>>>, <<126, <<125, 2>>>>}
          ELSE {<<230, <<230, 1>>>>, <<231, <<230, 2>>>>, <<62, <<62, 1>>>>, <<61, <<62, 2>>>>})]

AUTH == 258
REPORT == 512
BATCH == 1796
REPORT2 == 21761
SHORT_INDEX == {21761, 21762}
JT808_UNKNOWN == 3840 .. 3855
VERSION_2019 == 1

ITEM_IDS == <<1, 2, 37, 43, 48, 49>>
ITEMS    == Dict({<<1, 4>>, <<2, 2>>, <<37, 4>>, <<43, 4>>, <<48, 1>>, <<49, 1>>})

ALNUM == (48 .. 57) \cup (65 .. 90)

id_length(delimiter, version_2019) ==
  IF version_2019 THEN 10 ELSE IF delimiter = ALTERNATIVE THEN 7 ELSE 6

escape(data, delimiter) ==
  LET table == ESCAPE[delimiter]
  IN FlattenSeq([i \in DOMAIN data |->
                   IF data[i] \in DOMAIN table THEN table[data[i]] ELSE <<data[i]>>])

(* terminal.rjust(2n, "0"). *)
Padded(terminal, n) == [i \in 1 .. 2 * n - Len(terminal) |-> 0] \o terminal

jt808_frame(msg_type, body, conn, index, flag_lie, body_length, check_error) ==
  LET v2019  == conn.version = 2019
      header == Be(msg_type, 2) \o Be(body_length + (IF v2019 \/ flag_lie THEN 16384 ELSE 0), 2)
                \o (IF v2019 THEN <<VERSION_2019>> ELSE <<>>)
                \o bcd(Padded(conn.device, id_length(conn.delimiter, v2019)))
                \o (IF msg_type \in SHORT_INDEX THEN <<index % 256>> ELSE Be(index % 65536, 2))
      raw    == header \o body
  IN <<conn.delimiter>> \o escape(Append(raw, Xor8(Xored(raw), check_error)), conn.delimiter)
     \o <<conn.delimiter>>

auth_fields == [code : Seq(ALNUM)]
auth_body(f) == f.code

(* An item that is not in the fields has the value -1. *)
ItemsLength(items) ==
  Through(LAMBDA n, i : n + (IF items[i] < 0 THEN 0 ELSE 2 + ITEMS[i]), 0, ITEM_IDS)

(* _choose_items: any items, each of any value of its width, or not there. *)
Fits(items) == \A i \in DOMAIN ITEMS : ITEMS[i] < 4 => items[i] < 256 ^ ITEMS[i]

(* Rule R11: never the item block that Traccar reads as a vendor format.   *)
jt808_location_fields(forbidden_items_length) ==
  {f \in [alarm : {0} \cup {2 ^ k : k \in 0 .. 30}, acc : Bit, positioned : Bit, south : Bit,
          west : Bit, lat : between(0, 90000000), lon : between(0, 180000000),
          altitude : between(-500, 6000), speed : between(0, 2000), course : between(0, 359),
          time : Clocks,
          items : [DOMAIN ITEMS -> between(-1, 2147483647)]] :
     Fits(f.items) /\ ItemsLength(f.items) # forbidden_items_length}

jt808_location_body(f) ==
  Be(f.alarm, 4) \o Be(f.acc + 2 * f.positioned + 4 * f.south + 8 * f.west, 4)
  \o Be(f.lat, 4) \o Be(f.lon, 4) \o Be(f.altitude % 65536, 2) \o Be(f.speed, 2)
  \o Be(f.course, 2) \o bcd(f.time)
  \o FlattenSeq([k \in DOMAIN ITEM_IDS |->
       LET i == ITEM_IDS[k] IN
       IF f.items[i] >= 0 THEN <<i, ITEMS[i]>> \o Be(f.items[i], ITEMS[i]) ELSE <<>>])

batch_fields == [archive : Bit, records : Seq(jt808_location_fields(20))]

batch_body(f) ==
  LET Body(k) == jt808_location_body(f.records[k])
  IN Be(Len(f.records), 2) \o <<f.archive>>
     \o FlattenSeq([k \in DOMAIN f.records |-> Be(Len(Body(k)), 2) \o Body(k)])

(* Degrees, minutes and ten-thousandths, as one decimal number. *)
location2_fields ==
  {f \in [time : Clocks, lat : between(0, 89599999), lon : between(0, 179599999), valid : Bit,
          north : Bit, east : Bit, speed : between(0, 99), course : between(0, 179),
          rssi : between(0, 31), satellites : between(0, 12), odometer : U32,
          battery : between(0, 100), cid : U32, lac : between(0, 65535), product : between(0, 3),
          status : between(0, 65535), alarm : between(0, 65535)] :
     (f.lat \div 10000) % 100 < 60 /\ (f.lon \div 10000) % 100 < 60}

(* The ninth digit of the longitude shares its byte with the flags. *)
location2_body(f) ==
  LET t == f.time
      lon == Decimal(f.lon, 9)
  IN bcd(SubSeq(t, 5, 6) \o SubSeq(t, 3, 4) \o SubSeq(t, 1, 2)) \o bcd(SubSeq(t, 7, 12))
     \o bcd(Decimal(f.lat, 8))
     \o bcd(SubSeq(lon, 1, 8)) \o <<16 * lon[9] + f.valid + 2 * f.north + 4 * f.east>>
     \o bcd(Decimal(f.speed, 2)) \o <<f.course, f.rssi, f.satellites>>
     \o Be(f.odometer, 4) \o <<f.battery>> \o Be(f.cid, 4) \o Be(f.lac, 2) \o <<f.product>>
     \o Be(f.status, 2) \o Be(f.alarm, 2)

BASE2  == <<66, 65, 83, 69, 44, 50, 44, 84, 73, 77, 69>>
RESULT == <<82, 69, 83, 85, 76, 84, 44>>

Commands ==
  {BASE2} \cup {c \in [1 .. 15 -> Byte] :
                  /\ SubSeq(c, 1, 7) = RESULT /\ c[8] \in 49 .. 57 /\ c[9] = 44
                  /\ \A i \in 10 .. 15 : c[i] \in 48 .. 57}

(* "ID,1,sequence,command"; 44 is the comma, 49 the digit 1. *)
sentence_fields(terminal, index, command) ==
  [text |-> Ascii(terminal) \o <<44, 49, 44>> \o Ascii(Decimal(index % 1000, 3)) \o <<44>> \o command]

sentence(f) == <<40>> \o f.text \o <<41>>
================================================================================
