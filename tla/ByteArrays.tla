----------------------------- MODULE ByteArrays -----------------------------
(***************************************************************************)
(* What common.h, common.c and os_unix.c do with the bits of a byte array:   *)
(* byte order, comparison in constant time, and the kinds of addresses.      *)
(***************************************************************************)
EXTENDS Common

LOCAL INSTANCE Bitwise

\* Numbers of two to four bytes, the first of them the highest, or the lowest.
WPA_GET_BE(a) == FoldLeft(LAMBDA n, b : 256 * n + b, 0, a)
WPA_GET_LE(a) == WPA_GET_BE(Reverse(a))

WPA_PUT_BE(val, len) == [n \in 1..len |-> shiftR(val, 8 * (len - n)) & 255]
WPA_PUT_LE(val, len) == Reverse(WPA_PUT_BE(val, len))

\* Zero when no byte of a differs from its byte of b.
os_memcmp_const(a, b, len) ==
    FoldLeft(LAMBDA res, n : res | (a[n] ^^ b[n]), 0, [n \in 1..len |-> n])

is_zero_ether_addr(a) == FoldLeft(LAMBDA x, b : x | b, 0, a) = 0
is_broadcast_ether_addr(a) == FoldLeft(LAMBDA x, b : x & b, 255, a) = 255
is_multicast_ether_addr(a) == (a[1] & 1) = 1

\* Whatever bytes are drawn, the address is unicast and locally administered.
random_mac_addr(drawn) == [drawn EXCEPT ![1] = (@ & 254) | 2]

\* The first half of the address, which names its maker, is kept but for that.
random_mac_addr_keep_oui(addr, drawn) ==
    random_mac_addr(Cut(addr, ETH_ALEN \div 2) \o SubSeq(drawn, ETH_ALEN \div 2 + 1, ETH_ALEN))
=============================================================================
