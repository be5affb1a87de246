----------------------------- MODULE UbootOutput -----------------------------
(***************************************************************************)
(* src/uboot-ddr-init/ddr_print.c: what U-Boot prints of the controller's  *)
(* registers and of memory.  It keeps nothing but a print level, and is    *)
(* modelled as functions of what it prints: the timing registers, which    *)
(* ddr_timing_init of ddr_init.c packs four to a word, and the lines of a  *)
(* dump, by their length.                                                  *)
(*                                                                         *)
(* A register is its bytes, the most significant first.  Timings take at   *)
(* most two bytes.  Digits is how many an address is printed with.         *)
(***************************************************************************)
EXTENDS Integers, Sequences, Bitwise

Unused == "unused"

\* The registers at 0x10, 0x14 and 0x18, and what is packed in each byte of them.
TimingRegisters ==
  << <<"tCL", "tRCD", "tRP", "tRAS">>, <<"tRFC", "tRRD", "tWTR", "tFAW">>,
     <<Unused, "tWR", "tRTP", "tCWL">> >>

TimingNames == {TimingRegisters[r][k] : r \in 1..3, k \in 1..4} \ {Unused}

Low(n)  == n % 256
High(n) == n \div 256

\* What the timings t put in byte k: that of the byte, and what does not fit that of the next.
Packed(t, names, k) ==
  LET own   == IF names[k] = Unused THEN 0 ELSE Low(t[names[k]])
      spill == IF k = 4 THEN 0 ELSE High(t[names[k + 1]])
  IN  own | spill

ddr_timing_init(t) ==
  [r \in 1..3 |-> [k \in 1..4 |-> Packed(t, TimingRegisters[r], k)]]

\* The timings that ddr_print_timing_table reads back.
ddr_print_timing_table(registers) ==
  [n \in TimingNames |->
     LET at == CHOOSE rk \in (1..3) \X (1..4) : TimingRegisters[rk[1]][rk[2]] = n
     IN  registers[at[1]][at[2]]]

----------------------------------------------------------------------------
LineBuffer == 80
PerLine    == 16

Least(a, b) == IF a < b THEN a ELSE b

\* The prefix, 0x and the address, a colon, the bytes in three columns each or as much space,
\* and the bytes as characters.
LineLength(prefix, digits, shown) == prefix + (2 + digits + 2) + 3 * PerLine + 1 + shown

\* The lines of a dump of size bytes: where each starts, how many bytes it shows, its length.
ddr_print_hexdump(size, prefix, digits) ==
  [i \in 1 .. (size + PerLine - 1) \div PerLine |->
     LET from  == PerLine * (i - 1)
         shown == Least(PerLine, size - from)
     IN  [from |-> from, shown |-> shown, length |-> LineLength(prefix, digits, shown)]]

=============================================================================
