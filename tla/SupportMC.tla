------------------------------ MODULE SupportMC ------------------------------
(* The other operators of Common and Support, and those of ByteArrays, for the   *)
(* same data and texts.                                                          *)
EXTENDS CommonMC, ByteArrays

CONSTANT SepChars

-----------------------------------------------------------------------------
\* Numbers of some bytes are read as they were written, the other way round as well;
\* a counter of bytes counts; two arrays have the same bytes exactly when no
\* difference is found; and an address that is drawn is no group's.
BytesAreReadBack ==
    LET len == Len(data)
    IN  /\ len \in 1..3 =>
            /\ WPA_PUT_BE(WPA_GET_BE(data), len) = data
            /\ WPA_PUT_LE(WPA_GET_LE(data), len) = data
            /\ WPA_PUT_LE(WPA_GET_BE(data), len) = Reverse(data)
            /\ WPA_GET_BE(inc_byte_array(data)) = (WPA_GET_BE(data) + 1) % 256 ^ len
        /\ \A n \in 0..len :
            /\ merge_byte_arrays(n, Cut(data, 2), SubSeq(data, 3, len)) = Cut(data, n)
            /\ os_memcmp_const(data, Reverse(data), n) = 0 <=>
                Cut(data, n) = Cut(Reverse(data), n)
            /\ LET copy == os_strlcpy(data, n)
               IN  copy.ret < n <=> copy.dest = data /\ n > 0
        /\ len = 2 * ETH_ALEN =>
            LET old == Cut(data, ETH_ALEN)
                drawn == SubSeq(data, ETH_ALEN + 1, len)
                txt(size) == wpa_snprintf_hex_sep(old, size, Colon)
            IN  /\ \A addr \in {random_mac_addr(drawn), random_mac_addr_keep_oui(old, drawn)} :
                    /\ ~is_multicast_ether_addr(addr)
                    /\ ~is_zero_ether_addr(addr) /\ ~is_broadcast_ether_addr(addr)
                /\ hwaddr_aton(txt(3 * ETH_ALEN + 1).text) = old
                /\ \A size \in 1..(3 * ETH_ALEN) :
                    Len(txt(size).text) < size /\ txt(size).ret <= Len(txt(size).text)

Times == [sec: 0..2, usec: {0, 1, Million - 1}]
Zones == {-39600, 0, 5400, 50400}
Stamps == [year: {1972, 1999, 2000, 2023}, month: 0..13, day: {0, 1, 28, 29, 31, 32},
           hour: {0, 23, 24}, min: {0, 59}, sec: {0, 60, 61}]

LastDay(tm) == IF tm.month = 12 THEN 31 ELSE Day(tm.year, tm.month + 1, 1) - Day(tm.year, tm.month, 1)

\* Times add up; and the seconds of a date, that is one, are those of the same date
\* in any zone, and give the date back.
TimesAreReadBack ==
    /\ TimesAddUp(Times, 0..2)
    /\ \A tm \in Stamps : \A zone \in Zones :
        LET t == os_mktime(tm, zone)
            real == /\ tm.month \in 1..12 /\ tm.day \in 1..LastDay(tm)
                    /\ tm.hour < 24 /\ tm.sec < 60
        IN  real => t = os_mktime(tm, 0) /\ os_gmtime(t) = tm

-----------------------------------------------------------------------------
(* Text is taken apart as it was meant.                                      *)

\* The tokens up to the end of the text.
RECURSIVE Tokens(_, _, _)
Tokens(str, delim, last) ==
    LET token == cstr_token(str, delim, last)
    IN  IF token = <<>> THEN {} ELSE {token} \cup Tokens(str, delim, token[2])

\* What str_token() gives, one after the other.
RECURSIVE Pieces(_, _, _)
Pieces(str, delim, context) ==
    LET r == str_token(str, delim, context)
    IN  IF r.token = Fail THEN <<>> ELSE <<r.token>> \o Pieces(r.str, delim, r.context)

\* Calling cstr_token() again gives each longest run of characters that are no
\* delimiters once, and so does calling str_token(), which cuts the text up.
TokensAreRuns ==
    /\ Range(Pieces(text, SepChars, 0)) =
        {SubSeq(text, run[1], run[2]) : run \in Tokens(text, SepChars, 0)}
    /\ Len(Pieces(text, SepChars, 0)) = Cardinality(Tokens(text, SepChars, 0))
    /\ Tokens(text, SepChars, 0) =
        {run \in (1..Len(text)) \X (1..Len(text)) :
            /\ run[1] <= run[2]
            /\ \A n \in run[1]..run[2] : text[n] \notin SepChars
            /\ run[1] = 1 \/ text[run[1] - 1] \in SepChars
            /\ run[2] = Len(text) \/ text[run[2] + 1] \in SepChars}

\* The words of a command line are its arguments, as many as there is room for.
ArgumentsAreWords ==
    LET words == {run \in (1..Len(text)) \X (1..Len(text)) :
                    /\ run[1] <= run[2]
                    /\ \A n \in run[1]..run[2] : text[n] # Blank
                    /\ run[1] = 1 \/ text[run[1] - 1] = Blank
                    /\ run[2] = Len(text) \/ text[run[2] + 1] = Blank}
        args == os_exec_args(text)
    IN  /\ Len(args) = Min({MAX_ARG - 1, Cardinality(words)})
        /\ \A n \in DOMAIN args : \E run \in words :
            /\ args[n] = SubSeq(text, run[1], run[2])
            /\ Cardinality({w \in words : w[1] < run[1]}) = n - 1

\* Each line typed is a command: without a backspace, its characters as far as there
\* is room; a backspace takes back what came before it while there was room; and no
\* line has to do with the ones before.
LinesAreCommands ==
    LET e == Edited(edit_init, text)
        breaks == {n \in DOMAIN text : text[n] = Newline}
        line == IF breaks = {} THEN text ELSE SubSeq(text, Max(breaks) + 1, Len(text))
    IN  /\ Len(e.cmds) = Cardinality(breaks)
        /\ Len(e.cmdbuf) < CMD_BUF_LEN
        /\ Edited(edit_init, line).cmdbuf = e.cmdbuf
        /\ 8 \notin Range(line) =>
            e.cmdbuf = Cut(SelectSeq(line, LAMBDA c : c >= 32), CMD_BUF_LEN - 1)
        /\ Len(e.cmdbuf) < CMD_BUF_LEN - 1 => Edited(e, <<Slash, 8>>) = e

\* A path is absolute, or the working directory was too long for every buffer; a
\* file is read as far as it was long, or not at all; the name of a network is
\* found in the line for it.
PathsAreAbsolute ==
    LET cwd == <<Slash>> \o SelectSeq(text, LAMBDA c : c # Blank)
        path == os_rel2abs_path(cwd, text)
    IN  /\ path = Fail <=> Len(cwd) >= Max(PathBufs) /\ At(text, 1) # Slash
        /\ path # Fail => path[1] = Slash
        /\ \A n \in 0..Len(text) :
            /\ os_readfile(Cut(text, n), text) = Cut(text, n)
            /\ n < Len(text) => os_readfile(text, Cut(text, n)) = Fail
        /\ Newline \notin Range(text) => \A n \in 0..Len(text) :
            /\ check_status(<<Tab, Newline>> \o <<1, 2, 3, 4, 5>> \o text, Cut(text, n))
            /\ Len(text) < 5 => ~check_status(text, <<Newline>>)

\* Of a table of two networks the name of the first is shown, unless it is hidden;
\* the last row is taken for what follows the last line, which getline() gives no
\* row.
AllButTheLastAreShown ==
    (\A n \in DOMAIN data : data[n] \notin {Tab, Newline}) => \A n \in 0..Len(data) :
        LET fields == FlattenSeq([i \in 1..4 |-> <<97, Tab>>])
            first == Cut(data, n)
            second == SubSeq(data, n + 1, Len(data))
            table == <<97, Newline>> \o fields \o first \o <<Newline>> \o fields \o second
        IN  /\ parse_to_wifi_name(table) = parse_to_wifi_name(Append(table, Newline))
            /\ parse_to_wifi_name(table) = IF first = <<>> THEN {} ELSE {first}

-----------------------------------------------------------------------------
(* Lists.                                                                    *)

\* Lists of numbers are kept as sets: sorted and without a double, whichever way
\* they are put together; and a list of ranges includes what is in one of them.
NumbersAreSets ==
    LET list == SelectSeq(data, LAMBDA x : x # 0)
        unique == int_array_sort_unique(list)
        added == FoldLeft(int_array_add_unique, <<>>, list)
    IN  /\ Range(unique) = Range(list)
        /\ \A n \in 1..(Len(unique) - 1) : unique[n] < unique[n + 1]
        /\ int_array_sort_unique(added) = unique /\ Len(added) = Len(unique)
        /\ int_array_sort_unique(int_array_concat(added, list)) = unique
        /\ \A f \in Bytes : freq_range_list_includes(Ranges, f) <=>
            \E n \in DOMAIN Ranges : f \in Ranges[n].min..Ranges[n].max

-----------------------------------------------------------------------------
\* What a user, a file or the network gives is understood as it was meant, and as far
\* as it goes.  What has nothing to do with the data is looked at once.
InputIsUnderstood ==
    /\ BytesAreReadBack /\ NumbersAreSets /\ TokensAreRuns /\ AllButTheLastAreShown
    /\ data = <<>> => ArgumentsAreWords /\ LinesAreCommands /\ PathsAreAbsolute
    /\ data = <<>> /\ text = <<>> => TimesAreReadBack
=============================================================================
