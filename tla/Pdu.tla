-------------------------------- MODULE Pdu --------------------------------
(***************************************************************************)
(* The short message as pdu.c writes and reads it, over the conversions of  *)
(* char_conv.c.  A text is the sequence of its code points, user data a      *)
(* sequence of octets, an address the sequence of its semi-octets; that      *)
(* octets and semi-octets travel as pairs of hexadecimal digits is left out. *)
(* A PDU is a record of its fields; its lengths are computed from them.      *)
(***************************************************************************)
EXTENDS Integers, Sequences

Octet     == 0..255
MaxCodePoint == 1114111
CodePoint == { c \in Nat : 0 < c /\ c <= MaxCodePoint }     \* a C string: no zero in it
Septet    == 0..127

(* What the other end may not read as it was written: the halves of          *)
(* characters beyond the basic plane.  iconv refuses them both ways.         *)
Surrogate   == 55296..57343
MaxBasic    == 65535
BasicPlane  == { c \in CodePoint : c <= MaxBasic /\ c \notin Surrogate }
Ascii       == 1..127

-----------------------------------------------------------------------------
(* char_to_hexstr_7bit: septet after septet, each octet the low bits of the  *)
(* next septet above what is left of this one.  The last octet is what is    *)
(* left of the last septet: nothing, when their number is a multiple of 8.   *)
Pow2(s) == << 1, 2, 4, 8, 16, 32, 64, 128, 256 >>[s + 1]

PackedLen(n) == IF n = 0 THEN 0 ELSE n - (n - 1) \div 8

Joined(a, b, s) == a \div Pow2(s) + ((b * Pow2(7 - s)) % 256)

PackedOctet(t, k) ==
  IF k = PackedLen(Len(t))
  THEN t[Len(t)] \div Pow2((Len(t) - 1) % 8)
  ELSE LET i == k + (k - 1) \div 7 IN Joined(t[i], t[i + 1], (k - 1) % 7)

(* Mutant: the eighth septet starts in the octet that is already full. *)
PackNoSkip(t) ==
  [k \in 1..PackedLen(Len(t)) |->
     IF k = PackedLen(Len(t)) THEN t[k] \div Pow2((k - 1) % 8)
     ELSE Joined(t[k], t[k + 1], (k - 1) % 7)]

Pack(t) == [k \in 1..PackedLen(Len(t)) |-> PackedOctet(t, k)]

(* hexstr_7bit_to_char: seven octets give eight septets, the eighth what was *)
(* carried over from the seventh octet.                                      *)
UnpackedLen(m) == m + m \div 7

Carried(o, s) == o \div Pow2(8 - s)     \* the bits octet o has for the septet after

UnpackedSeptet(o, j) ==
  LET s == (j - 1) % 8
      k == 7 * ((j - 1) \div 8) + s + 1
  IN  IF s = 7 THEN Carried(o[k - 1], 7)
      ELSE ((o[k] * Pow2(s + 1)) % 256) \div 2
           + (IF s = 0 THEN 0 ELSE Carried(o[k - 1], s))

Unpack(o) == [j \in 1..UnpackedLen(Len(o)) |-> UnpackedSeptet(o, j)]

(* utf8_to_hexstr_ucs2 and hexstr_ucs2_to_utf8: two octets a character.      *)
Ucs2(t) ==
  [k \in 1..2 * Len(t) |-> LET c == t[(k + 1) \div 2]
                           IN  IF k % 2 = 1 THEN c \div 256 ELSE c % 256]

FromUcs2(o) == [j \in 1..Len(o) \div 2 |-> 256 * o[2 * j - 1] + o[2 * j]]

(* get_encoding for a text to be sent: 7 bit unless a character is not ASCII. *)
IsAscii(t) == \A i \in DOMAIN t : t[i] \in Ascii

-----------------------------------------------------------------------------
(* Numbers.  pdu_digit2code, by which is_valid_phone_number judges too, and   *)
(* pdu_code2digit: "F" fills up, and other codes do not occur in a number.   *)
Digit == {"0", "1", "2", "3", "4", "5", "6", "7", "8", "9", "*", "#",
          "a", "b", "c", "A", "B", "C"}

Code == {"0", "1", "2", "3", "4", "5", "6", "7", "8", "9", "A", "B", "C", "D", "E", "F"}

Digit2Code(d) ==
  IF d = "*" THEN "A" ELSE IF d = "#" THEN "B"
  ELSE IF d \in {"a", "A"} THEN "C" ELSE IF d \in {"b", "B"} THEN "D"
  ELSE IF d \in {"c", "C"} THEN "E" ELSE d

Code2Digit(c) ==
  IF c = "A" THEN "*" ELSE IF c = "B" THEN "#"
  ELSE IF c = "C" THEN "A" ELSE IF c = "D" THEN "B" ELSE IF c = "E" THEN "C" ELSE c

Number == [plus : BOOLEAN, digits : Seq(Digit)]

RoundUp2(n) == 2 * ((n + 1) \div 2)

(* pdu_store_number: the codes of each two digits swapped, filled up with F.  *)
Swapped(i) == IF i % 2 = 1 THEN i + 1 ELSE i - 1

StoreNumber(d) ==
  [i \in 1..RoundUp2(Len(d)) |->
     IF Swapped(i) > Len(d) THEN "F" ELSE Digit2Code(d[Swapped(i)])]

(* pdu_parse_number, for an address that says it has n digits: only the last  *)
(* code of an odd number may be F, and one that is not is a digit too.        *)
NumberReadable(codes, n) ==
  /\ Len(codes) = RoundUp2(n)
  /\ \A i \in DOMAIN codes : codes[i] = "F" => n % 2 = 1 /\ i = Len(codes) - 1

ParsedDigits(codes, n) ==
  LET filled == n % 2 = 1 /\ codes[Len(codes) - 1] = "F"
  IN  [i \in 1..(IF filled THEN n ELSE RoundUp2(n)) |-> Code2Digit(codes[Swapped(i)])]

International == 145     \* 0x91

-----------------------------------------------------------------------------
(* pdu_relative_validity: minutes as the code of the shortest period that     *)
(* is not shorter.  Its values below 1 do not reach it.                       *)
DivUp(x, y) == (x + y - 1) \div y

RelativeValidity(minutes) ==
  IF      minutes <= 720    THEN DivUp(minutes, 5) - 1
  ELSE IF minutes <= 1440   THEN DivUp(minutes, 30) + 119
  ELSE IF minutes <= 43200  THEN DivUp(minutes, 1440) + 166
  ELSE IF minutes <= 635040 THEN DivUp(minutes, 10080) + 192
  ELSE 255

(* The minutes a code stands for, from the table above pdu_relative_validity. *)
ValidityMinutes(vp) ==
  IF      vp <= 143 THEN (vp + 1) * 5
  ELSE IF vp <= 167 THEN 720 + (vp - 143) * 30
  ELSE IF vp <= 196 THEN (vp - 166) * 1440
  ELSE (vp - 192) * 10080

-----------------------------------------------------------------------------
(* pdu_build: an SMS-SUBMIT with a relative validity period, its number always *)
(* international, its text in septets or, if they do not do, in UCS-2.         *)
Dcs7Bit == 0
Dcs8Bit == 4
DcsUcs2 == 8

SubmitType(srr) == 17 + (IF srr THEN 32 ELSE 0)

UserData(text) == IF IsAscii(text) THEN Pack(text) ELSE Ucs2(text)

PduBuild(number, text, minutes, srr) ==
  [type   |-> SubmitType(srr),
   digits |-> Len(number.digits),
   toa    |-> International,
   codes  |-> StoreNumber(number.digits),
   pid    |-> 0,
   dcs    |-> IF IsAscii(text) THEN Dcs7Bit ELSE DcsUcs2,
   vp     |-> RelativeValidity(minutes),
   udl    |-> IF IsAscii(text) THEN Len(text) ELSE Len(UserData(text)),
   ud     |-> UserData(text)]

(* The octets of the TPDU; the service centre's address is left empty.        *)
SubmitLen(p) == 8 + Len(p.codes) \div 2 + Len(p.ud)

(* Neither pdu_build nor at_enque_pdu refuses: every character has a code,     *)
(* the user data and the TPDU have room, the number's length fits its octet.   *)
(* The check of the buffer (-ENOMEM) refuses nothing that these let pass.       *)
Sendable(number, text) ==
  /\ IsAscii(text) \/ \A i \in DOMAIN text : text[i] \in BasicPlane
  /\ Len(UserData(text)) <= 160
  /\ SubmitLen(PduBuild(number, text, 1, FALSE)) <= 178
  /\ Len(number.digits) <= 255

-----------------------------------------------------------------------------
(* pdu_parse of an SMS-DELIVER, and the decoding at_response_cmgr adds.        *)
Mti(type)       == type % 4
HasHeader(type) == (type \div 64) % 2 = 1
Alphabet(dcs)   == 4 * ((dcs \div 4) % 4)

(* The octets of user data that its length field stands for. *)
UdOctets(p) == IF Alphabet(p.dcs) = Dcs7Bit THEN ((p.udl + 1) * 7) \div 8 ELSE p.udl

(* The user data after a header: whole octets are skipped, even before septets. *)
Body(p) == IF HasHeader(p.type) THEN SubSeq(p.ud, p.ud[1] + 2, Len(p.ud)) ELSE p.ud

BodyReadable(p) ==
  Alphabet(p.dcs) = DcsUcs2 =>
    /\ Len(Body(p)) % 2 = 0
    /\ \A j \in DOMAIN FromUcs2(Body(p)) : FromUcs2(Body(p))[j] \notin Surrogate

Readable(p) ==
  /\ Mti(p.type) = 0
  /\ p.digits > 0 /\ NumberReadable(p.codes, p.digits)
  /\ p.pid = 0
  /\ p.dcs \div 32 = 0 /\ Alphabet(p.dcs) \in {Dcs7Bit, Dcs8Bit, DcsUcs2}
  /\ UdOctets(p) = Len(p.ud)
  /\ HasHeader(p.type) => p.ud # << >> /\ p.ud[1] < Len(p.ud)
  /\ BodyReadable(p)

Decoded(p) ==
  IF Alphabet(p.dcs) = Dcs7Bit THEN Unpack(Body(p))
  ELSE IF Alphabet(p.dcs) = DcsUcs2 THEN FromUcs2(Body(p)) ELSE Body(p)

(* A variable of the dialplan or a line of the manager ends at the first zero. *)
CString(t) ==
  LET zeros == { i \in DOMAIN t : t[i] = 0 }
  IN  IF zeros = {} THEN t
      ELSE SubSeq(t, 1, (CHOOSE i \in zeros : \A j \in zeros : i <= j) - 1)

(* What the network makes of an SMS-SUBMIT: an SMS-DELIVER from its number, the   *)
(* user data cut to the octets its length stands for.                             *)
Deliver(p) ==
  [type |-> 0, digits |-> p.digits, toa |-> p.toa, codes |-> p.codes, pid |-> p.pid,
   dcs |-> p.dcs, udl |-> p.udl, ud |-> SubSeq(p.ud, 1, UdOctets(p))]

(* What pdu_parse and str_recode make of it; the handler of +CMGR passes the   *)
(* text on as a C string, and to the last character as base64.                *)
Parsed(p) ==
  [number |-> [plus |-> p.toa = International, digits |-> ParsedDigits(p.codes, p.digits)],
   text   |-> Decoded(p)]

=============================================================================
