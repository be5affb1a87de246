---------------------------- MODULE MCMemoryUtils ----------------------------
(* MemoryUtils with two threads, an address that is tracked up to twice, two slots for pools,
   memory that is not aligned as pools are and a size that wraps; and what the functions without
   state compute, compared with what they are said to compute, for addresses of four bits and
   bytes of four bits. *)
EXTENDS MemoryUtils, MemoryAlgorithms, TLC

MCSizeOf == [a \in Addresses |-> 2]

MCAlignedUp == [a \in Words |-> memory_utils_align_up(a, Align)]

\* A short name, and a long one.
MCOverlays == {[count |-> 7, current |-> n, blocks |-> n] : n \in {0, 9}}

Interchangeable == Permutations(Threads) \cup Permutations(Memories)

Powers == {2 ^ i : i \in 0 .. Width - 1}
Texts(n) == SeqOf(Characters, n)
Memory(n) == SeqOf({0, 1, 15}, n)

(* Aligning gives the nearest multiple, above or below, for alignments that are powers of two
   and as long as there is one above: past the last the address wraps to 0. *)
ASSUME Aligned ==
  \A addr \in Words, align \in Powers :
    LET up == memory_utils_align_up(addr, align)
        down == memory_utils_align_down(addr, align)
    IN  /\ down = align * (addr \div align)
        /\ up = Wrap(align * ((addr + align - 1) \div align))
        /\ up >= addr \/ up = 0
        /\ memory_utils_is_aligned(addr, align) <=> addr % align = 0

(* An alignment that is no power of two gives addresses that are no multiples of it, but none
   before the address it was given or so far behind it that a multiple was passed over. *)
ASSUME AnyAlignment ==
  /\ \E addr \in Words : memory_utils_align_up(addr, 3) % 3 # 0
  /\ \A align \in Words \ {0} : \A addr \in 0 .. AddressSpace - align :
       memory_utils_align_up(addr, align) \in addr .. addr + align - 1

(* The next power of two is the least one that is enough; the search for it never ends for more
   than half the address space. *)
ASSUME PowersOfTwo ==
  /\ \A n \in Words : memory_utils_is_power_of_two(n) <=> n \in Powers
  /\ \A n \in Words :
       IF n <= 2 ^ (Width - 1)
       THEN LET p == memory_utils_next_power_of_two(n)
            IN  p \in Powers /\ p >= n /\ \A q \in Powers : q >= n => p <= q
       ELSE ~ NextPowerEnds(n)

(* A search finds the first place, and only when there is one. *)
ASSUME SearchFindsFirst ==
  \A h \in Memory(4) \ {<< >>}, n \in Memory(2) \ {<< >>} :
    LET places == {i \in 0 .. Len(h) - 1 : IsPrefix(n, SubSeq(h, i + 1, Len(h)))}
    IN  memory_utils_memfind(h, n) =
          IF places = {} THEN NOT_FOUND ELSE Found(CHOOSE i \in places : \A j \in places : i <= j)

(* What was filled compares equal, and nothing else does. *)
ASSUME FillCompares ==
  \A m \in Memory(3) \ {<< >>}, p \in {0, 1, 15} :
    /\ memory_utils_memcheck(memory_utils_memfill(m, p), p) = SUCCESS
    /\ memory_utils_memcheck(m, p) = SUCCESS => m = memory_utils_memfill(m, p)

Sound == [b \in Bytes |-> b]
Stuck(bit, high) ==
  [b \in Bytes |-> IF high THEN b | 2 ^ bit ELSE b & (2 ^ ByteBits - 1 - 2 ^ bit)]

(* Two iterations of the memory test find any bit that is stuck, one only those that are high,
   none nothing. *)
ASSUME StuckBitsFound ==
  \A bit \in 0 .. ByteBits - 1, high \in BOOLEAN, n \in 0 .. 7 :
    /\ memory_utils_memtest(<<Sound, Stuck(bit, high)>>, n) = IO_ERROR
         <=> (n >= 2 \/ (n = 1 /\ high))
    /\ memory_utils_memtest(<<Sound, Sound>>, n) = SUCCESS

(* A string is converted when it is pairs of digits; but a space or a sign passes for the first
   digit, and a refused string may have been converted in part. *)
ASSUME StringsConvert ==
  \A s \in Texts(4), max \in 0 .. 2 :
    LET r == memory_utils_str_to_hex(s, max)
    IN  /\ r.ret \in Nat => 2 * r.ret = Len(s) /\ Len(r.bytes) = r.ret
        /\ \A i \in DOMAIN r.bytes : r.bytes[i] \in Bytes
        /\ Len(r.bytes) <= max
        /\ s \in Seq(Digits) /\ Len(s) = 2 * max =>
             /\ r.ret = max
             /\ \A i \in 1 .. max : r.bytes[i] = Base * s[2 * i - 1] + s[2 * i]

(* A copy is the string, or as much of it as was asked for, and ends where its zero is. *)
ASSUME CopiesAreStrings ==
  \A s \in Texts(3), n \in 0 .. 4 :
    LET whole == memory_utils_strdup(s)
        part  == memory_utils_strndup(s, n)
    IN  /\ IsPrefix(Front(part), whole) /\ Len(part) <= n + 1
        /\ part[Len(part)] = Nul /\ \A i \in 1 .. Len(part) - 1 : part[i] # Nul
        /\ n >= Len(s) => part = whole

(* A dump by lines shows every byte, and no address makes a line too long for its buffer. *)
ASSUME MemdumpFits ==
  \A size \in 0 .. 40, digits \in 4 .. 16 :
    LET lines == memory_utils_memdump(size, digits)
    IN  /\ FoldSeq(LAMBDA l, sum : l.shown + sum, 0, lines) = size
        /\ \A i \in DOMAIN lines : lines[i].length < LineBuffer

(* A dump fits the buffer with the end of the string, shows as many bytes as fit, and cannot be
   read back: the spaces are in the way. *)
ASSUME DumpsFit ==
  \A m \in Memory(3), size \in 1 .. 12 :
    LET text == memory_utils_hexdump_to_str(m, size)
    IN  /\ Len(text) <= 3 * Len(m)
        /\ Len(text) # 0 => Len(text) + 1 <= size
        /\ size > 3 * Len(m) => Len(text) = 3 * Len(m)
        /\ text # << >> => memory_utils_str_to_hex(text, 12).ret = INVALID

=============================================================================
