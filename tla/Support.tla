------------------------------ MODULE Support -------------------------------
(***************************************************************************)
(* The support code of wpa_ctrl as operators: byte arrays and times          *)
(* (common.c, os.h, os_unix.c), lists (list.h), the command line              *)
(* (edit_simple.c, os_unix.c, wpa.cpp), and what is printed (wpa_debug.c).    *)
(***************************************************************************)
EXTENDS Common

CONSTANTS CMD_BUF_LEN,  \* the bytes of the command line
          MAX_ARG,      \* the arguments of a program, with its name
          PathBuf,      \* the first buffer for the working directory
          PathLimit,    \* and what it may not exceed
          line_len      \* the bytes on a line of a dump

ASSUME SupportAssumption ==
    /\ {CMD_BUF_LEN, MAX_ARG, PathBuf, line_len} \subseteq Nat \ {0}
    /\ PathLimit \in Nat

-----------------------------------------------------------------------------
(* Byte arrays.                                                              *)

\* From the last byte on, until one does not become zero.
inc_byte_array(counter) ==
    LET len == Len(counter)
        carries(n) == \A i \in (n + 1)..len : counter[i] = 255
    IN  [n \in 1..len |-> IF carries(n) THEN (counter[n] + 1) % 256 ELSE counter[n]]

merge_byte_arrays(res_len, src1, src2) ==
    LET len == Min({Len(src1), res_len})
    IN  IF Len(src1) >= res_len THEN Cut(src1, res_len)
        ELSE src1 \o Cut(src2, res_len - len)

os_strlcpy(src, siz) ==
    [dest |-> Cut(src, IF siz = 0 THEN 0 ELSE siz - 1), ret |-> Len(src)]

str_starts(str, start) == Cut(str, Len(start)) = start

\* The text of some data, without its last separator, and what the function returns,
\* which counts that one: what does not fit is left behind and is not counted.
wpa_snprintf_hex_sep(data, size, sep) ==
    LET text == FlattenSeq([n \in DOMAIN data |-> Append(Hex(data[n]), sep)])
    IN  IF size = 0 THEN [text |-> <<>>, ret |-> 0]
        ELSE IF Len(text) < size THEN [text |-> Front(text), ret |-> Len(text)]
        ELSE [text |-> Cut(text, size - 1), ret |-> 3 * ((size - 1) \div 3)]

is_hex(data) == \E b \in Range(data) : b \notin 32..126
has_ctrl_char(data) == \E b \in Range(data) : b < 32 \/ b = 127

\* A token ends in a zero in the text itself, which the next one begins behind.
str_token(str, delim, context) ==
    LET token == cstr_token(str, delim, context)
    IN  IF token = <<>> THEN [token |-> Fail, str |-> str, context |-> context]
        ELSE LET ends == token[2] = Len(str)
             IN  [token   |-> SubSeq(str, token[1], token[2]),
                  str     |-> IF ends THEN str ELSE [str EXCEPT ![token[2] + 1] = 0],
                  context |-> IF ends THEN token[2] ELSE token[2] + 1]

-----------------------------------------------------------------------------
(* Times.                                                                    *)

Million == 1000000

os_reltime_before(a, b) == a.sec < b.sec \/ (a.sec = b.sec /\ a.usec < b.usec)

\* Mutant: what is borrowed is not paid back.
os_reltime_subBorrow(a, b) ==
    [sec |-> a.sec - b.sec, usec |-> a.usec - b.usec + IF a.usec < b.usec THEN Million ELSE 0]

os_reltime_sub(a, b) ==
    LET borrows == a.usec < b.usec
    IN  [sec  |-> a.sec - b.sec - IF borrows THEN 1 ELSE 0,
         usec |-> a.usec - b.usec + IF borrows THEN Million ELSE 0]

os_reltime_expired(now, ts, timeout_secs) ==
    LET age == os_reltime_sub(now, ts)
    IN  age.sec > timeout_secs \/ (age.sec = timeout_secs /\ age.usec > 0)

\* gmtime(), and its inverse, which takes a day that a month does not have for one
\* of the next month.
LeapsUpTo(y) == y \div 4 - y \div 100 + y \div 400
MonthDays == <<0, 31, 59, 90, 120, 151, 181, 212, 243, 273, 304, 334>>
Day(y, m, d) ==
    365 * (y - 1970) + MonthDays[m] + d - 1 +
        (IF m > 2 THEN LeapsUpTo(y) ELSE LeapsUpTo(y - 1)) - LeapsUpTo(1969)
Seconds(tm) == 86400 * Day(tm.year, tm.month, tm.day) + 3600 * tm.hour + 60 * tm.min + tm.sec

os_gmtime(t) ==
    LET day == t \div 86400
        year == CHOOSE y \in 1970..2037 : Day(y, 1, 1) <= day /\ day < Day(y + 1, 1, 1)
        month == CHOOSE m \in 1..12 :
                    /\ Day(year, m, 1) <= day
                    /\ m = 12 \/ day < Day(year, m + 1, 1)
    IN  [year |-> year, month |-> month, day |-> day - Day(year, month, 1) + 1,
         hour |-> (t % 86400) \div 3600, min |-> (t % 3600) \div 60, sec |-> t % 60]

\* mktime() is for the time of a zone, without daylight saving; zone is the
\* seconds it is ahead.
mktime(tm, zone) == Seconds(tm) - zone

os_mktime(tm, zone) ==
    LET t_local == mktime(tm, zone)
        t2 == mktime(os_gmtime(t_local), zone)
        tz_offset == t2 - t_local
    IN  IF \/ tm.year < 1970 \/ tm.month \notin 1..12 \/ tm.day \notin 1..31
           \/ tm.hour \notin 0..23 \/ tm.min \notin 0..59 \/ tm.sec \notin 0..60
        THEN -1 ELSE t_local - tz_offset

-----------------------------------------------------------------------------
(* Lists: next and prev of every item, and of the list itself, which is 0.   *)

None == -1

dl_list_init == [next |-> [i \in {0} |-> 0], prev |-> [i \in {0} |-> 0]]

\* Behind an item, or the list itself.
dl_list_add(l, list, item) ==
    LET after == l.next[list]
        with(f, x, y) == [i \in DOMAIN f \cup {x} |-> IF i = x THEN y ELSE f[i]]
    IN  [next |-> with(with(l.next, item, after), list, item),
         prev |-> with(with(l.prev, item, list), after, item)]

dl_list_add_tail(l, list, item) == dl_list_add(l, l.prev[list], item)

\* Mutant: the item behind is not told.
dl_list_delHalf(l, item) == [l EXCEPT !.next[l.prev[item]] = l.next[item]]

dl_list_del(l, item) ==
    [next |-> [l.next EXCEPT ![l.prev[item]] = l.next[item], ![item] = None],
     prev |-> [l.prev EXCEPT ![l.next[item]] = l.prev[item], ![item] = None]]

dl_list_empty(l) == l.next[0] = 0

\* The items along f, from the list until it is there again.
Walk(f) ==
    LET most == Cardinality(DOMAIN f)
        pos[n \in 0..most] == IF n = 0 THEN 0 ELSE f[pos[n - 1]]
        last == CHOOSE n \in 1..most : pos[n] = 0 /\ \A k \in 1..(n - 1) : pos[k] # 0
    IN  [n \in 1..(last - 1) |-> pos[n]]

dl_list_for_each(l) == Walk(l.next)
dl_list_for_each_reverse(l) == Walk(l.prev)
dl_list_len(l) == Len(dl_list_for_each(l))

-----------------------------------------------------------------------------
(* Command lines.                                                            *)

edit_init == [cmdbuf |-> <<>>, cmds |-> <<>>]

\* A character typed: the commands are what edit_cmd_cb() has been called with.
edit_read_char(e, c) ==
    IF c \in {10, 13} THEN [cmdbuf |-> <<>>, cmds |-> Append(e.cmds, e.cmdbuf)]
    ELSE IF c = 8 THEN [e EXCEPT !.cmdbuf = IF @ = <<>> THEN @ ELSE Front(@)]
    ELSE IF c >= 32 /\ Len(e.cmdbuf) < CMD_BUF_LEN - 1 THEN [e EXCEPT !.cmdbuf = Append(@, c)]
    ELSE e

Edited(e, typed) == FoldLeft(edit_read_char, e, typed)

\* os_exec(): one turn of the loop, which looks for an argument from the place p on;
\* the name of the program is the first.
ArgTurn(arg, was) ==
    LET start == Min({q \in was.p..Len(arg) : arg[q] # Blank} \cup {Len(arg) + 1})
        end == Find(arg, start, Blank)
    IN  IF start > Len(arg) \/ Len(was.argv) + 1 >= MAX_ARG THEN was
        ELSE [p |-> end + 1, argv |-> Append(was.argv, SubSeq(arg, start, end - 1))]

os_exec_args(arg) ==
    LET read[n \in 0..Len(arg)] ==
            IF n = 0 THEN [p |-> 1, argv |-> <<>>] ELSE ArgTurn(arg, read[n - 1])
    IN  read[Len(arg)].argv

\* The buffers are twice as long each, as long as that is no more than PathLimit.
PathBufs == {PathBuf} \cup {PathBuf * 2 ^ k : k \in {n \in 1..8 : PathBuf * 2 ^ n <= PathLimit}}

os_rel2abs_path(cwd, rel_path) ==
    IF At(rel_path, 1) = Slash THEN rel_path
    ELSE IF \A len \in PathBufs : len <= Len(cwd) THEN Fail
    ELSE cwd \o <<Slash>> \o rel_path

\* The file as it was when its length was taken, and when it was read.
os_readfile(was, is) == IF Len(is) < Len(was) THEN Fail ELSE Cut(is, Len(was))

\* The lines of a text, the last of them with or without its end.
Split(text, sep) ==
    LET seps == {n \in DOMAIN text : text[n] = sep}
        ends == SetToSortSeq(IF text = <<>> \/ Last(text) = sep THEN seps
                             ELSE seps \cup {Len(text) + 1}, LAMBDA m, n : m < n)
    IN  [k \in DOMAIN ends |->
            SubSeq(text, IF k = 1 THEN 1 ELSE ends[k - 1] + 1, ends[k] - 1)]

Newline == 10
Tab == 9

\* The names of the rows with 5 fields, without the first row, and the last.
parse_to_wifi_name(buffer) ==
    LET rows == Split(buffer, Newline)
        names == [i \in 2..(Len(rows) - 1) |-> Split(rows[i], Tab)]
    IN  {names[i][5] : i \in {j \in DOMAIN names : Len(names[j]) = 5}}

check_status(buffer, ssid) ==
    \E line \in Range(Split(buffer, Newline)) :
        Len(line) > 4 /\ SubSeq(line, 6, Min({Len(line), 5 + Len(ssid)})) = ssid

-----------------------------------------------------------------------------
(* What is printed, and what is handed to the callbacks.                     *)

LevelNames == <<"EXCESSIVE", "MSGDUMP", "DEBUG", "INFO", "WARNING", "ERROR">>
MSG_DEBUG == 2
Levels == 0..5

\* Names are compared in any case: one stands for all its spellings.
debug_level_str(level) == IF level \in Levels THEN LevelNames[level + 1] ELSE "?"
str_to_debug_level(s) ==
    IF s \in Range(LevelNames) THEN (CHOOSE n \in DOMAIN LevelNames : LevelNames[n] = s) - 1
    ELSE -1

wpa_printf(debug_level, level, what) == IF level >= debug_level THEN <<what>> ELSE <<>>

\* A buffer that is missing.
Missing == Fail

\* Mutant: keys are shown when the level is low enough to debug.
_wpa_hexdumpLevel(debug_level, level, buf, show) ==
    wpa_printf(debug_level, level,
        IF buf = Missing THEN [word |-> "NULL", bytes |-> <<>>]
        ELSE IF show \/ debug_level <= MSG_DEBUG THEN [word |-> "", bytes |-> buf]
        ELSE [word |-> "REMOVED", bytes |-> <<>>])

\* The bytes, or a word for them.
_wpa_hexdump(debug_level, level, buf, show) ==
    wpa_printf(debug_level, level,
        IF buf = Missing THEN [word |-> "NULL", bytes |-> <<>>]
        ELSE IF show THEN [word |-> "", bytes |-> buf]
        ELSE [word |-> "REMOVED", bytes |-> <<>>])

wpa_hexdump(debug_level, level, buf) == _wpa_hexdump(debug_level, level, buf, TRUE)
wpa_hexdump_key(debug_level, show_keys, level, buf) ==
    _wpa_hexdump(debug_level, level, buf, show_keys)

\* isprint().
Shown(b) == IF b \in 32..126 THEN b ELSE 95

\* Lines of line_len bytes, with their characters; each column has its width.
DumpLine(line) ==
    [bytes |-> line, chars |-> [n \in DOMAIN line |-> Shown(line[n])],
     blanks |-> 4 * (line_len - Len(line))]

DumpLines(buf) ==
    [k \in 1..((Len(buf) + line_len - 1) \div line_len) |->
        DumpLine(SubSeq(buf, (k - 1) * line_len + 1, Min({k * line_len, Len(buf)})))]

\* The title, which may say why there is no more, and the lines.
_wpa_hexdump_ascii(debug_level, level, buf, show) ==
    LET title(word, lines) == [word |-> word, lines |-> lines]
    IN  wpa_printf(debug_level, level,
            IF ~show THEN title("REMOVED", <<>>)
            ELSE IF buf = Missing THEN title("NULL", <<>>)
            ELSE title("", DumpLines(buf)))

wpa_hexdump_ascii(debug_level, level, buf) == _wpa_hexdump_ascii(debug_level, level, buf, TRUE)
wpa_hexdump_ascii_key(debug_level, show_keys, level, buf) ==
    _wpa_hexdump_ascii(debug_level, level, buf, show_keys)

\* A message: what is printed, and the type the callback gets it with, if one is
\* registered.
Message(out, cb, type) == [out |-> out, cb |-> IF cb THEN <<type>> ELSE <<>>]

wpa_msg(d, level, cb, ifname, m) ==
    Message(wpa_printf(d, level, ifname \o m), cb, "PER_INTERFACE")
wpa_msg_ctrl(cb) == Message(<<>>, cb, "PER_INTERFACE")
wpa_msg_global(d, level, cb, m) == Message(wpa_printf(d, level, m), cb, "GLOBAL")
wpa_msg_global_ctrl(cb) == Message(<<>>, cb, "GLOBAL")
wpa_msg_no_global(d, level, cb, m) == Message(wpa_printf(d, level, m), cb, "NO_GLOBAL")
wpa_msg_global_only(d, level, cb, m) == Message(wpa_printf(d, level, m), cb, "ONLY_GLOBAL")

\* The logger prints only what no callback takes.
hostapd_logger(d, cb, m) ==
    Message(IF cb THEN <<>> ELSE wpa_printf(d, MSG_DEBUG, m), cb, "LOGGER")
=============================================================================
