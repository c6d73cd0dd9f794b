------------------------------ MODULE TcpOptions ------------------------------
(***************************************************************************)
(* The options of a SYN.  The sender puts together a list of options, each *)
(* a sequence of bytes that begins with its kind; tcp_read_mss looks for   *)
(* the MSS in the bytes, without knowing where an option ends.             *)
(***************************************************************************)
EXTENDS Naturals, Sequences

KindEnd == 0      \* XTCP_KIND_END
KindMss == 2      \* XTCP_KIND_MSS

Word(high, low) == 256 * high + low

\* Wrong: the test of the length is left out and the length byte is taken
\* for the first byte of the value.
tcp_read_mss_NoLength(bytes, default) ==
    LET from[i \in 1 .. Len(bytes) + 1] ==
          IF i > Len(bytes) \/ bytes[i] = KindEnd THEN default
          ELSE IF bytes[i] = KindMss THEN Word(bytes[i + 1], bytes[i + 2])
          ELSE from[i + 1]
    IN  from[1]

\* The loop of tcp_read_mss, from the byte i on.  It moves on by one byte, or
\* by two behind a byte that looks like the kind of an MSS option, which may
\* take it past the end.
ReadFrom(bytes, default) ==
    LET from[i \in 1 .. Len(bytes) + 2] ==
          IF i > Len(bytes) \/ bytes[i] = KindEnd THEN default
          ELSE IF bytes[i] # KindMss THEN from[i + 1]
          ELSE IF bytes[i + 1] # 4 THEN from[i + 2]
          ELSE Word(bytes[i + 2], bytes[i + 3])
    IN  from

\* Without an MSS the block keeps the default, which xtcp_alloc has set.
tcp_read_mss(bytes, default) == ReadFrom(bytes, default)[1]

\* What the sender says: the value of its MSS option, if it has one.
Announced(options, default) ==
    IF \E i \in DOMAIN options : options[i][1] = KindMss
      THEN LET mss == CHOOSE i \in DOMAIN options : options[i][1] = KindMss
           IN  Word(options[mss][3], options[mss][4])
      ELSE default

\* The bytes of the first n options, one behind the other.
Joined(options) ==
    LET joined[n \in 0 .. Len(options)] ==
          IF n = 0 THEN <<>> ELSE joined[n - 1] \o options[n]
    IN  joined

Bytes(options) == Joined(options)[Len(options)]

\* Lists that the loop reads as they are meant: one MSS option at most, and
\* in what comes before it no byte that looks like a kind the loop knows.
\* What comes behind it does not matter.
Plain(option) == \A i \in DOMAIN option : option[i] \notin {KindEnd, KindMss}

IsMss(option) == Len(option) = 4 /\ option[1] = KindMss /\ option[2] = 4

Readable(options) ==
    /\ options \in Seq(Seq(Nat) \ {<<>>})
    /\ \/ \A i \in DOMAIN options : Plain(options[i])
       \/ \E k \in DOMAIN options :
            /\ IsMss(options[k])
            /\ \A i \in 1 .. k - 1 : Plain(options[i])
            /\ \A i \in DOMAIN options : options[i][1] = KindMss => i = k
=============================================================================
