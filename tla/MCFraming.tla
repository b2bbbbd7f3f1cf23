------------------------------- MODULE MCFraming -------------------------------
(***************************************************************************)
(* A "varied" connection sends one frame of any type with any fault, or a  *)
(* garbage run, and then a plain frame; a "long" one sends up to MaxLong   *)
(* segments, each plain, cut, or garbage without sync bytes.               *)
(***************************************************************************)
EXTENDS FramersProperties

CONSTANT MaxLong   \* the segments of a long stream, the session frame among them

Body == <<1, 2, 3, 4, 5, 6, 7, 8, 9, 0, 1, 2, 3, 4>>

Gt06Conn(device, plan) ==
  [protocol |-> "gt06", delimiter |-> 0, version |-> 0, device |-> device, code |-> <<>>, plan |-> plan]
Jt808Conn(delimiter, version, plan) ==
  [protocol |-> "jt808", delimiter |-> delimiter, version |-> version,
   device |-> fake_terminal(<<1, 2, 3, 4, 5, 6, 7>>), code |-> <<65, 49>>, plan |-> plan]

MCConns ==
  {Gt06Conn(i, "varied") : i \in fake_imei(Body)} \cup {Gt06Conn(Append(Body, 0), "long")}
  \cup {Jt808Conn(delimiter, 2013, plan) : delimiter \in {STANDARD, ALTERNATIVE}, plan \in {"varied", "long"}}
  \cup {Jt808Conn(delimiter, 2019, "varied") : delimiter \in {STANDARD, ALTERNATIVE}}

--------------------------------------------------------------------------------
(* Field values: plain ones, and ones whose bytes are a stop, delimiters,  *)
(* introducers or parentheses.                                             *)
Clock == <<2, 6, 0, 1, 3, 1, 2, 3, 5, 9, 0, 7>>

Gt06Plain == [time |-> Clock, satellites |-> 7, lat |-> 74565, lon |-> 305419896, speed |-> 60,
              course |-> 90, differential |-> 0, positioned |-> 1, west |-> 0, north |-> 1,
              mcc |-> 460, mnc |-> 1, lac |-> 4660, cell |-> 74565]
Gt06Rough == [Gt06Plain EXCEPT !.lat = 854648, !.course = 360, !.differential = 1, !.west = 1,
                               !.lac = 3338, !.cell = 854648]

Jt808Plain == [alarm |-> 0, acc |-> 1, positioned |-> 1, south |-> 0, west |-> 0, lat |-> 1193046,
               lon |-> 2236962, altitude |-> 100, speed |-> 600, course |-> 90, time |-> Clock,
               items |-> [i \in DOMAIN ITEMS |-> -1]]
Jt808Rough == [Jt808Plain EXCEPT !.alarm = 1073741824, !.lat = 75398440, !.lon = 171780097,
                 !.altitude = -386, !.items = 1 :> 1040653 @@ 2 :> 32126 @@ 37 :> 102688551
                                          @@ 43 :> 255 @@ 48 :> 231 @@ 49 :> 61]
Jt808E7 == [Jt808Plain EXCEPT !.lat = 82306622, !.items[48] = 41, !.items[49] = 40]

Location2 == [time |-> Clock, lat |-> 22330000, lon |-> 113595599, valid |-> 1, north |-> 1,
              east |-> 0, speed |-> 40, course |-> 125, rssi |-> 31, satellites |-> 12,
              odometer |-> 2112257341, battery |-> 100, cid |-> 65535, lac |-> 59367, product |-> 3,
              status |-> 15933, alarm |-> 40]

ASSUME SamplesAssumption ==
  /\ Append(Body, 0) \in fake_imei(Body)
  /\ {Gt06Plain, Gt06Rough} \subseteq gt06_location_fields
  /\ \A f \in {Jt808Plain, Jt808Rough, Jt808E7} :
       f \in jt808_location_fields(18) /\ f \in jt808_location_fields(20)
  /\ Location2 \in location2_fields

Rough == <<125, 1, 126, 230, 231, 62, 61, 40, 41, 13, 10>>

Types(c) ==
  IF c.protocol = "gt06"
    THEN {[name |-> "location", type |-> 0, fields |-> f] : f \in {Gt06Plain, Gt06Rough}}
         \cup {[name |-> "status", type |-> 0, fields |-> f] : f \in {g \in status_fields :
                 g.info \in {0, 231} /\ g.voltage = 6 /\ g.gsm = 4 /\ g.alarm \in {0, 5} /\ g.language = 1}}
         \cup {[name |-> "unknown", type |-> t, fields |-> [content |-> b]] :
                 t \in {8, 67}, b \in {<<>>, Rough}}
    ELSE {[name |-> "location", type |-> 0, fields |-> f] : f \in {Jt808Plain, Jt808Rough, Jt808E7}}
         \cup {[name |-> "batch", type |-> 0, fields |-> [archive |-> 1, records |-> s]] :
                 s \in {<<Jt808Plain>>, <<Jt808Rough, Jt808Plain>>}}
         \cup {[name |-> "location2", type |-> 0, fields |-> Location2]}
         \cup {[name |-> "unknown", type |-> 3855, fields |-> [body |-> b]] : b \in {<<>>, Rough}}
         \cup {[name |-> "sentence", type |-> 0, fields |-> [command |-> x]] :
                 x \in {y \in {BASE2, RESULT \o <<57, 44, 48, 48, 48, 48, 55, 49>>} : y \in Commands}}

With(t, fault, n) == t @@ [fault |-> fault, with |-> n]

(* The cuts tried: the first byte, the length, the middle, the last byte,  *)
(* and each that leaves half an escape.                                    *)
Cuts(c, whole) ==
  ({1, 2, 3, Len(whole) \div 2, Len(whole) - 1}
   \cup {i \in 2 .. Len(whole) - 2 : whole[i] \in {125, 230, 62} /\ whole[1] = c.delimiter})
  \cap FaultDraws(c, whole, "truncated")

Draws(c, fault, whole) ==
  CASE fault = "truncated"           -> Cuts(c, whole)
    [] fault = "length_disagreement" -> {-4, -1, 2} \cap FaultDraws(c, whole, fault)
    [] fault = "bad_checksum"        -> {1, 255} \cap FaultDraws(c, whole, fault)
    [] OTHER                         -> {0}

Faulty(c, counter, t) ==
  UNION {{With(t, fault, n) : n \in Draws(c, fault, whole)} :
         fault \in EligibleFaults(c, t.name), whole \in {Segment(c, counter, With(t, "none", 0)).whole}}

Garbage(data, alphabet) ==
  [name |-> "garbage", fault |-> "none", with |-> 0, alphabet |-> alphabet, data |-> data]

PlainType(c) == IF c.protocol = "gt06"
                  THEN [name |-> "status", type |-> 0,
                        fields |-> [info |-> 70, voltage |-> 6, gsm |-> 4, alarm |-> 0, language |-> 1]]
                  ELSE [name |-> "location", type |-> 0, fields |-> Jt808Plain]

Sentence == [name |-> "sentence", type |-> 0, fields |-> [command |-> BASE2]]

(* The garbage's third and fourth bytes are a length: with two status      *)
(* frames after it, that length ends where the second does.                *)
LongChoices(c) ==
  {With(PlainType(c), "none", 0), With(PlainType(c), "truncated", 8), Garbage(<<1, 2, 0, 30, 5, 6>>, "no_sync")}
  \cup (IF c.protocol = "gt06"
        THEN {With(PlainType(c), "truncated", 14), With(PlainType(c), "length_disagreement", 2)}
        ELSE {With(Sentence, "none", 0), With(Sentence, "truncated", 8)})

VariedChoices ==
  [c \in {x \in MCConns : x.plan = "varied"} |->
     UNION {Faulty(c, FirstCounter(c) + 1, t) : t \in Types(c)}
     \cup {Garbage(<<1, 2, 3>>, "no_sync"), Garbage(<<40, 13, 10, 126, 120>>, "any")}]

MCMaySend(c, s) ==
  IF c.plan = "long"
    THEN IF Len(s) < MaxLong THEN LongChoices(c) ELSE {}
    ELSE CASE Len(s) = 1 -> VariedChoices[c]
           [] Len(s) = 2 -> {With(PlainType(c), "none", 0)}
           [] OTHER      -> {}
================================================================================
