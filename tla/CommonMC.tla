------------------------------ MODULE CommonMC ------------------------------
(* Every short byte array and every short text, for the operators of Common and *)
(* Support that write something down and read it back.                           *)
EXTENDS Support

CONSTANTS Bytes, MaxData, Chars, MaxText

ASSUME CommonMCAssumption == Bytes \subseteq Byte /\ MaxData \in Nat /\ Chars \subseteq 1..255

VARIABLES data,   \* a byte array
          text    \* a text of an address, or of tokens

vars == <<data, text>>

Init == data = <<>> /\ text = <<>>

AppendByte(b) ==
    /\ text = <<>> /\ Len(data) < MaxData
    /\ data' = Append(data, b)
    /\ UNCHANGED text

AppendChar(c) ==
    /\ data = <<>> /\ Len(text) < MaxText
    /\ text' = Append(text, c)
    /\ UNCHANGED data

Next ==
    \/ \E b \in Bytes : AppendByte(b)
    \/ \E c \in Chars : AppendChar(c)

Spec == Init /\ [][Next]_vars

-----------------------------------------------------------------------------
Wrapped(before, str, after) == <<before>> \o str \o <<after>>

(* Data is read back from what it is written as.                             *)

\* Printable text holds no line break and is read back as the bytes it stands
\* for: as many as have room, and all of them in a buffer of 4 for each byte and
\* 1, which is what wpa_ssid_txt() has; and so is P"...", a string of the
\* configuration, and hexadecimal text, whose length never counts half a byte.
PrintedIsReadBack ==
    /\ \A room \in 1..(4 * MaxData + 1) :
        LET txt == printf_encode(room, data)
            read == printf_decode(Len(txt) + 2, txt)
            hex == wpa_snprintf_hex(data, room)
        IN  /\ Len(txt) < room \/ txt = <<>>
            /\ ~has_newline(txt) /\ ~is_hex(txt) /\ ~has_ctrl_char(txt)
            /\ IsPrefix(read, data)
            /\ room > 4 * Len(data) => read = data
            /\ wpa_config_parse_string(<<LetterP>> \o Wrapped(Quote, txt, Quote)) = read
            /\ IsPrefix(hexstr2bin(SubSeq(hex.text, 1, hex.ret), hex.ret \div 2), data)
            /\ room > 2 * Len(data) => wpa_config_parse_string(hex.text) = data
    /\ Len(data) <= SSID_MAX_LEN =>
        printf_decode(4 * Len(data) + 1, wpa_ssid_txt(data)) = data

\* Escaped text is read back, with or without the apostrophes around it, and
\* what does not fit gives nothing.
EscapedIsReadBack ==
    LET all == utf8_escape(data, 2 * Len(data))
    IN  \A room \in 0..(2 * MaxData) :
        /\ utf8_escape(data, room) = IF Len(all) <= room THEN all ELSE <<>>
        /\ utf8_unescape(all, room) = IF Len(data) <= room THEN data ELSE <<>>
        /\ room > Len(data) => utf8_unescape(Wrapped(Apostrophe, all, Apostrophe), room) = data

\* A name is parsed from hexadecimal text, which a blank may end, or from between
\* quotes, whatever follows it; a longer one is refused, and so is an empty one.
NameIsReadBack ==
    LET expected == IF Len(data) \in 1..SSID_MAX_LEN THEN data ELSE Fail
        hex == wpa_snprintf_hex(data, 2 * Len(data) + 1).text
    IN  \A rest \in {<<>>, <<Blank, Quote, 97>>} :
        /\ ssid_parse(hex \o rest) = expected
        /\ {0, Quote} \cap Range(data) = {} =>
            ssid_parse(Wrapped(Quote, data, Quote) \o rest) = expected

\* hwaddr_aton2(), "in any known format", reads what the other formats are as
\* they do; a mask that is not given is all ones; and what hwaddr_mask_txt()
\* writes is read back.
AddressFormatsAgree ==
    /\ \A aton \in {hwaddr_aton(text), hwaddr_compact_aton(text)} :
        aton # Fail => hwaddr_aton2(text) = aton
    /\ LET masked == hwaddr_masked_aton(text, TRUE)
       IN  masked # <<Fail, Fail>> => masked[1] = hwaddr_aton(text)
    /\ Len(data) = 2 * ETH_ALEN =>
        LET addr == SubSeq(data, 1, ETH_ALEN)
            mask == SubSeq(data, ETH_ALEN + 1, 2 * ETH_ALEN)
            txt == hwaddr_mask_txt(6 * ETH_ALEN, addr, mask)
        IN  /\ hwaddr_masked_aton(txt, TRUE) = <<addr, mask>>
            /\ hwaddr_masked_aton(txt, FALSE) = <<Fail, Fail>> <=> mask # NoMask

\* The ranges a list of numbers stands for when each two are the ends of one.
Ranges == [n \in 1..(Len(data) \div 2) |-> [min |-> data[2 * n - 1], max |-> data[2 * n]]]

\* What freq_range_list_str() writes of them is read back.
RangesAreReadBack == freq_range_list_parse(freq_range_list_str(Ranges)) = Ranges

\* Whatever is encoded is read back.
EncodedIsReadBack ==
    /\ PrintedIsReadBack /\ EscapedIsReadBack /\ NameIsReadBack
    /\ AddressFormatsAgree /\ RangesAreReadBack

\* A time less an earlier one is the time between them, which alone decides whether
\* one is before the other and whether it has expired.
TimesAddUp(times, limits) ==
    \A a, b \in times :
        LET age == os_reltime_sub(a, b)
            micros == Million * (a.sec - b.sec) + a.usec - b.usec
        IN  /\ age.usec \in 0..(Million - 1) /\ Million * age.sec + age.usec = micros
            /\ os_reltime_before(a, b) <=> micros < 0
            /\ \A n \in limits : os_reltime_expired(a, b, n) <=> micros > Million * n

-----------------------------------------------------------------------------
(* Lists.                                                                    *)

\* Item n is added behind the list, at its end or behind the item before it, or the
\* item before it is taken out again: as the n-th byte says.
Listed(n) ==
    LET kind == data[n] % 4
    IN  IF kind = 3 /\ n > 1 THEN "del"
        ELSE IF kind = 2 /\ n > 1 THEN "behind" ELSE IF kind = 1 THEN "tail" ELSE "head"

\* The links, and what the list should be, after one more step.
ListStep(n, before) ==
    LET has == n - 1 \in Range(before.items)
        at == CHOOSE i \in DOMAIN before.items : before.items[i] = n - 1
    IN  CASE Listed(n) = "tail" -> [l |-> dl_list_add_tail(before.l, 0, n),
                                    items |-> Append(before.items, n)]
          [] Listed(n) = "behind" /\ has -> [l |-> dl_list_add(before.l, n - 1, n),
                                             items |-> InsertAt(before.items, at + 1, n)]
          [] Listed(n) = "del" /\ has -> [l |-> dl_list_del(before.l, n - 1),
                                          items |-> RemoveAt(before.items, at)]
          [] Listed(n) = "head" -> [l |-> dl_list_add(before.l, 0, n),
                                    items |-> <<n>> \o before.items]
          [] OTHER -> before

\* And after the steps that data stands for.
Linked ==
    LET after[n \in 0..Len(data)] ==
            IF n = 0 THEN [l |-> dl_list_init, items |-> <<>>] ELSE ListStep(n, after[n - 1])
    IN  after[Len(data)]

\* A list is the same from both of its ends, whatever was put in and taken out.
LinksAreLists ==
    LET now == Linked
    IN  /\ dl_list_for_each(now.l) = now.items
        /\ dl_list_for_each_reverse(now.l) = Reverse(now.items)
        /\ dl_list_len(now.l) = Len(now.items)
        /\ dl_list_empty(now.l) <=> now.items = <<>>

-----------------------------------------------------------------------------
(* What is printed.                                                          *)

BytesOf(printed) == FlattenSeq([n \in DOMAIN printed |-> printed[n].bytes])
LinesOf(printed) == IF printed = <<>> THEN <<>> ELSE printed[1].lines

\* Every byte of a buffer is in its dump once, and in order, on full lines but the
\* last, whose columns are as wide; of a key, no byte is unless keys are to be shown.
BuffersAreDumped ==
    \A d, level \in Levels : \A show \in BOOLEAN :
        LET all == IF level >= d THEN data ELSE <<>>
            key == wpa_hexdump_key(d, show, level, data)
            ascii == LinesOf(wpa_hexdump_ascii_key(d, show, level, data))
        IN  /\ BytesOf(wpa_hexdump(d, level, data)) = all
            /\ BytesOf(LinesOf(wpa_hexdump_ascii(d, level, data))) = all
            /\ BytesOf(key) = (IF show THEN all ELSE <<>>) /\ BytesOf(ascii) = BytesOf(key)
            /\ \A n \in DOMAIN ascii :
                /\ n < Len(ascii) => Len(ascii[n].bytes) = line_len
                /\ 4 * Len(ascii[n].bytes) + ascii[n].blanks = 4 * line_len
                /\ \A i \in DOMAIN ascii[n].chars : ascii[n].chars[i] \in 32..126
            /\ BytesOf(wpa_hexdump(d, level, Missing)) = <<>>
            /\ LinesOf(wpa_hexdump_ascii(d, level, Missing)) = <<>>

\* A message below the level is not printed, and reaches the callback once, the ones
\* for the control interface that only; what is logged is printed or handed on.
MessagesAreHanded ==
    \A d, level \in Levels : \A cb \in BOOLEAN :
        LET printed == {wpa_msg(d, level, cb, <<>>, data), wpa_msg_global(d, level, cb, data),
                        wpa_msg_no_global(d, level, cb, data),
                        wpa_msg_global_only(d, level, cb, data)}
            handed == {wpa_msg_ctrl(cb), wpa_msg_global_ctrl(cb)}
            logged == hostapd_logger(d, cb, data)
        IN  /\ \A m \in printed : m.out # <<>> <=> level >= d
            /\ \A m \in handed : m.out = <<>>
            /\ \A m \in printed \cup handed : cb <=> Len(m.cb) = 1
            /\ MSG_DEBUG >= d => Len(logged.out) + Len(logged.cb) = 1

\* What is printed is the whole of it, and levels have names that are read back.
DumpsAreWhole ==
    /\ BuffersAreDumped
    /\ MessagesAreHanded
    /\ \A level \in Levels : str_to_debug_level(debug_level_str(level)) = level
=============================================================================
