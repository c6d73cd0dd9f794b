------------------------------ MODULE Checksum ------------------------------
(***************************************************************************)
(* The Internet checksum (checksum16 and checksum_peso of xnet_sys.c):     *)
(* words are added and the carries are added at the other end until none   *)
(* is left, which is addition modulo Base - 1.                             *)
(***************************************************************************)
EXTENDS Integers, Sequences

CONSTANT Base   \* the number of values of a word: 2^16 in the code

ASSUME BaseAssumption == Base \in Nat /\ Base > 2

Word == 0 .. Base - 1

\* The sum after each round of the loop over the words.  A packet has less than
\* Base words, so that the sum fits into two of them (uint32_t checksum).
Sums(buf) == LET sum[n \in 0 .. Len(buf)] == IF n = 0 THEN 0 ELSE sum[n - 1] + buf[n]
             IN  sum

Total(buf) == Sums(buf)[Len(buf)]

\* Wrong: the carries are left where they are.
Carried_Not(sum) == sum

\* Wrong: the carry is added once, and what that carries is lost.
Carried_Once(sum) == ((sum \div Base) + (sum % Base)) % Base

\* The loop that adds the carries.
AddCarry[sum \in Nat] ==
    IF sum < Base THEN sum ELSE AddCarry[(sum \div Base) + (sum % Base)]

Carried(sum) == AddCarry[sum]

checksum16(buf, pre_sum, complement) ==
    LET sum == Carried(pre_sum + Total(buf))
    IN  IF complement THEN Base - 1 - sum ELSE sum

\* Wrong: the length is left out of the pseudo header.
checksum_peso_NoLength(src_ip, dest_ip, protocol, buf, len) ==
    LET sum == checksum16(src_ip \o dest_ip \o <<protocol>>, 0, FALSE)
    IN  checksum16(SubSeq(buf, 1, len), sum, TRUE)

\* The pseudo header, part by part, then the first len words of buf.
checksum_peso(src_ip, dest_ip, protocol, buf, len) ==
    LET from  == checksum16(src_ip, 0, FALSE)
        hosts == checksum16(dest_ip, from, FALSE)
        kind  == checksum16(<<protocol>>, hosts, FALSE)
    IN  checksum16(SubSeq(buf, 1, len), checksum16(<<len>>, kind, FALSE), TRUE)

\* tcp_send, xtcp_in and xudp_in, where zero stands for no checksum.
NonZero(sum) == IF sum = 0 THEN Base - 1 ELSE sum
=============================================================================
