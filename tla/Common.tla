------------------------------- MODULE Common -------------------------------
(***************************************************************************)
(* The conversions of wpa_ctrl/src/common.c as operators.  A C string is a  *)
(* sequence of character codes without its final zero, a byte array a        *)
(* sequence of bytes, and Fail what the code reports as NULL or -1.          *)
(***************************************************************************)
EXTENDS Integers, SequencesExt

CONSTANTS ETH_ALEN,      \* the bytes of an address
          SSID_MAX_LEN   \* the bytes of a network name

ASSUME CommonAssumption == ETH_ALEN \in Nat \ {0} /\ SSID_MAX_LEN \in Nat

Byte == 0..255
Fail == <<-1>>

\* Reading at the end of a string gives the zero that ends it.
At(s, p) == IF p \in DOMAIN s THEN s[p] ELSE 0

\* The first n characters of s, or all of them.
Cut(s, n) == SubSeq(s, 1, Min({n, Len(s)}))

Quote == 34       \* '"'
Apostrophe == 39  \* '\''
Colon == 58
Backslash == 92
Slash == 47
Blank == 32
LetterP == 80
LetterX == 120
White == {9, 10, 11, 12, 13, Blank}

-----------------------------------------------------------------------------
(* Hexadecimal digits.                                                       *)

hex2num(c) ==
    CASE c \in 48..57  -> c - 48
      [] c \in 97..102 -> c - 87
      [] c \in 65..70  -> c - 55
      [] OTHER         -> -1

\* The byte whose two digits are at p, or -1.
hex2byte(s, p) ==
    LET a == hex2num(At(s, p))
        b == hex2num(At(s, p + 1))
    IN  IF a < 0 \/ b < 0 THEN -1 ELSE 16 * a + b

Digit(n) == IF n < 10 THEN 48 + n ELSE 87 + n

\* "%02x".
Hex(b) == <<Digit(b \div 16), Digit(b % 16)>>

\* The text and what the function returns: a last byte that does not fit leaves
\* its first digit behind, which the function does not count.
wpa_snprintf_hex(data, size) ==
    LET text == FlattenSeq([n \in DOMAIN data |-> Hex(data[n])])
        fits == 2 * ((size - 1) \div 2)
    IN  IF size = 0 THEN [text |-> <<>>, ret |-> 0]
        ELSE [text |-> Cut(text, size - 1),
              ret  |-> IF Len(text) < size THEN Len(text) ELSE fits]

hexstr2bin(hex, len) ==
    LET bin == [n \in 1..len |-> hex2byte(hex, 2 * n - 1)]
    IN  IF \E n \in 1..len : bin[n] < 0 THEN Fail ELSE bin

-----------------------------------------------------------------------------
(* Addresses.                                                                *)

\* The address at p, with colons, and the place after it.
hwaddr_parse(txt, p) ==
    LET place(n) == p + 3 * (n - 1)
    IN  IF \A n \in 1..ETH_ALEN :
                /\ hex2byte(txt, place(n)) >= 0
                /\ n < ETH_ALEN => At(txt, place(n) + 2) = Colon
        THEN [addr |-> [n \in 1..ETH_ALEN |-> hex2byte(txt, place(n))],
              next |-> p + 3 * ETH_ALEN - 1]
        ELSE [addr |-> Fail, next |-> 0]

hwaddr_aton(txt) == hwaddr_parse(txt, 1).addr

NoMask == [n \in 1..ETH_ALEN |-> 255]

\* An address and its mask.
hwaddr_masked_aton(txt, maskable) ==
    LET r == hwaddr_parse(txt, 1)
        c == At(txt, r.next)
    IN  IF r.addr = Fail THEN <<Fail, Fail>>
        ELSE IF c \in White \cup {0} THEN <<r.addr, NoMask>>
        ELSE IF maskable /\ c = Slash /\ hwaddr_parse(txt, r.next + 1).addr # Fail
             THEN <<r.addr, hwaddr_parse(txt, r.next + 1).addr>>
        ELSE <<Fail, Fail>>

\* hwaddr_compact_aton(), with 6 for ETH_ALEN.
hwaddr_compact_aton(txt) == hexstr2bin(txt, ETH_ALEN)

Separators == {Colon, 46, 45}

\* Any number of separators may come before each byte.
hwaddr_aton2(txt) ==
    LET skip(p) == CHOOSE q \in p..(Len(txt) + 1) :
                    /\ \A r \in p..(q - 1) : txt[r] \in Separators
                    /\ At(txt, q) \notin Separators
        place[n \in 1..ETH_ALEN] ==
            IF n = 1 THEN skip(1)
            ELSE IF hex2byte(txt, place[n - 1]) < 0 THEN place[n - 1]
            ELSE skip(place[n - 1] + 2)
        addr == [n \in 1..ETH_ALEN |-> hex2byte(txt, place[n])]
    IN  IF \E n \in 1..ETH_ALEN : addr[n] < 0 THEN Fail ELSE addr

MacText(addr) == Tail(FlattenSeq([n \in DOMAIN addr |-> <<Colon>> \o Hex(addr[n])]))

hwaddr_mask_txt(len, addr, mask) ==
    LET text == IF mask = NoMask THEN MacText(addr)
                ELSE MacText(addr) \o <<Slash>> \o MacText(mask)
    IN  IF Len(text) >= len THEN Fail ELSE text

-----------------------------------------------------------------------------
(* Printable text.                                                           *)

\* The letters that stand for a byte after a backslash.
Letter == [b \in {Quote, Backslash, 27, 10, 13, 9} |->
            CASE b = 27 -> 101 [] b = 10 -> 110 [] b = 13 -> 114 [] b = 9 -> 116 [] OTHER -> b]

Escaped(b) ==
    IF b \in DOMAIN Letter THEN <<Backslash, Letter[b]>>
    ELSE IF b \in 32..126 THEN <<b>>
    ELSE <<Backslash, LetterX>> \o Hex(b)

\* Mutant: room for the longest byte, and none for the end.
printf_encodeFull(maxlen, data) ==
    LET written[n \in 0..Len(data)] ==
            IF n = 0 THEN <<>>
            ELSE LET txt == written[n - 1]
                 IN  IF Len(txt) + 4 > maxlen THEN txt ELSE txt \o Escaped(data[n])
    IN  written[Len(data)]

\* A byte is written while there is room for the longest one and the end.
printf_encode(maxlen, data) ==
    LET written[n \in 0..Len(data)] ==
            IF n = 0 THEN <<>>
            ELSE LET txt == written[n - 1]
                 IN  IF Len(txt) + 4 >= maxlen THEN txt ELSE txt \o Escaped(data[n])
    IN  written[Len(data)]

\* What the text at p stands for, at most one byte, and how much of it that takes.
Unit(str, p) ==
    LET c == At(str, p + 1)
        x == hex2byte(str, p + 2)
        octal(q) == At(str, q) \in 48..55
        digits == IF octal(p + 2) THEN IF octal(p + 3) THEN 3 ELSE 2 ELSE 1
        digit(q) == At(str, q) - 48
        value == CASE digits = 1 -> digit(p + 1)
                   [] digits = 2 -> 8 * digit(p + 1) + digit(p + 2)
                   [] OTHER -> 64 * digit(p + 1) + 8 * digit(p + 2) + digit(p + 3)
    IN  IF str[p] # Backslash THEN [out |-> <<str[p]>>, used |-> 1]
        ELSE IF \E b \in DOMAIN Letter : Letter[b] = c
             THEN [out |-> <<CHOOSE b \in DOMAIN Letter : Letter[b] = c>>, used |-> 2]
        ELSE IF c = LetterX /\ x >= 0
             THEN [out |-> <<x>>, used |-> 4]
        ELSE IF c = LetterX /\ hex2num(At(str, p + 2)) >= 0
             THEN [out |-> <<hex2num(At(str, p + 2))>>, used |-> 3]
        ELSE IF c = LetterX
             THEN [out |-> <<>>, used |-> 2]
        ELSE IF c \in 48..55
             THEN [out |-> <<value % 256>>, used |-> 1 + digits]
        ELSE [out |-> <<>>, used |-> 1]

\* One turn of the loop, which has read str up to the place p.
DecodeTurn(maxlen, str, was) ==
    IF was.p > Len(str) \/ Len(was.buf) + 1 >= maxlen THEN was
    ELSE LET unit == Unit(str, was.p)
         IN  [p |-> was.p + unit.used, buf |-> was.buf \o unit.out]

\* Each turn reads a character, so that there are no more turns than characters.
printf_decode(maxlen, str) ==
    LET read[n \in 0..Len(str)] ==
            IF n = 0 THEN [p |-> 1, buf |-> <<>>] ELSE DecodeTurn(maxlen, str, read[n - 1])
    IN  read[Len(str)].buf

wpa_ssid_txt(ssid) == printf_encode(SSID_MAX_LEN * 4 + 1, ssid)

has_newline(str) == \E n \in DOMAIN str : str[n] \in {10, 13}

\* The text between the quotes, if the last of them ends the value.
Unquoted(value) ==
    IF value # <<>> /\ Last(value) = Quote THEN Front(value) ELSE Fail

wpa_config_parse_string(value) ==
    IF At(value, 1) = Quote THEN Unquoted(Tail(value))
    ELSE IF At(value, 1) = LetterP /\ At(value, 2) = Quote
         THEN LET str == Unquoted(SubSeq(value, 3, Len(value)))
              IN  IF str = Fail THEN Fail ELSE printf_decode(Len(str) + 1, str)
    ELSE IF Len(value) % 2 = 1 THEN Fail
    ELSE hexstr2bin(value, Len(value) \div 2)

\* The place of the first c from p on, or of the end.
Find(s, p, c) == Min({n \in p..Len(s) : s[n] = c} \cup {Len(s) + 1})

\* Mutant: the longest name is refused.
ssid_parseShort(buf) ==
    LET end == IF At(buf, 1) = Quote THEN Find(buf, 2, Quote) ELSE Find(buf, 1, Blank) - 1
        res == wpa_config_parse_string(Cut(buf, end))
    IN  IF res = Fail \/ res = <<>> \/ Len(res) >= SSID_MAX_LEN THEN Fail ELSE res

\* The name at the head of a line of arguments; an empty one is refused.
ssid_parse(buf) ==
    LET end == IF At(buf, 1) = Quote THEN Find(buf, 2, Quote) ELSE Find(buf, 1, Blank) - 1
        res == wpa_config_parse_string(Cut(buf, end))
    IN  IF res = Fail \/ res = <<>> \/ Len(res) > SSID_MAX_LEN THEN Fail ELSE res

-----------------------------------------------------------------------------
(* Text between apostrophes.                                                 *)

\* Text that does not fit gives nothing.
utf8_escape(inp, out_size) ==
    LET out == FlattenSeq([n \in DOMAIN inp |->
                    IF inp[n] \in {Backslash, Apostrophe} THEN <<Backslash, inp[n]>>
                    ELSE <<inp[n]>>])
    IN  IF Len(out) > out_size THEN <<>> ELSE out

\* One turn of the loop, which ends where p is beyond the text.
UnescapeTurn(inp, out_size, was) ==
    LET p == was.p
        ends(outp) == [p |-> Len(inp) + 1, outp |-> outp]
    IN  IF p > Len(inp) THEN was
        ELSE IF Len(was.outp) >= out_size THEN ends(<<>>)
        ELSE IF inp[p] = Apostrophe THEN ends(was.outp)
        ELSE IF inp[p] # Backslash THEN [p |-> p + 1, outp |-> Append(was.outp, inp[p])]
        ELSE IF p = Len(inp) THEN ends(<<>>)
        ELSE [p |-> p + 2, outp |-> Append(was.outp, inp[p + 1])]

utf8_unescape(inp, out_size) ==
    LET read[n \in 0..Len(inp)] ==
            IF n = 0 THEN [p |-> IF At(inp, 1) = Apostrophe THEN 2 ELSE 1, outp |-> <<>>]
            ELSE UnescapeTurn(inp, out_size, read[n - 1])
    IN  read[Len(inp)].outp

-----------------------------------------------------------------------------
(* Tokens, lists of numbers and ranges of frequencies.                       *)

\* The token after last, from its first character to its last, or nothing at
\* the end of the text.
cstr_token(str, delim, last) ==
    LET starts == {n \in (last + 1)..Len(str) : str[n] \notin delim}
        ends == {n \in Min(starts)..Len(str) : n = Len(str) \/ str[n + 1] \in delim}
    IN  IF starts = {} THEN <<>> ELSE <<Min(starts), Min(ends)>>

\* freq_cmp() and qsort(): the lists end in a zero, which they do not hold.
Sorted(a) == SortSeq(a, LAMBDA x, y : x < y)

\* Mutant: the list is not sorted first.
int_array_unique(a) ==
    FoldLeft(LAMBDA res, x : IF res # <<>> /\ Last(res) = x THEN res ELSE Append(res, x),
             <<>>, a)

\* A number is kept when it differs from the last one kept.
int_array_sort_unique(a) ==
    FoldLeft(LAMBDA res, x : IF res # <<>> /\ Last(res) = x THEN res ELSE Append(res, x),
             <<>>, Sorted(a))

int_array_concat(res, a) == res \o a

int_array_add_unique(res, a) == IF a \in Range(res) THEN res ELSE Append(res, a)

Dash == -2
Comma == -3

\* The text as numbers, dashes and commas.
freq_range_list_str(list) ==
    FlattenSeq([n \in DOMAIN list |->
        (IF n = 1 THEN <<>> ELSE <<Comma>>)
        \o (IF list[n].min = list[n].max THEN <<list[n].min>>
            ELSE <<list[n].min, Dash, list[n].max>>)])

\* One turn of the loop: the range at p, up to the next comma.
RangeTurn(value, was) ==
    LET p == was.p
        comma == Find(value, p, Comma)
        dash == Find(value, p, Dash)
        max == IF dash < comma THEN value[dash + 1] ELSE value[p]
    IN  IF p > Len(value) THEN was
        ELSE [p |-> comma + 1, range |-> Append(was.range, [min |-> value[p], max |-> max])]

freq_range_list_parse(value) ==
    LET read[n \in 0..Len(value)] ==
            IF n = 0 THEN [p |-> 1, range |-> <<>>] ELSE RangeTurn(value, read[n - 1])
    IN  read[Len(value)].range

freq_range_list_includes(list, freq) ==
    \E n \in DOMAIN list : freq >= list[n].min /\ freq <= list[n].max

=============================================================================
