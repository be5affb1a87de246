-------------------------- MODULE MemoryAlgorithms --------------------------
(***************************************************************************)
(* The functions of user-space/libraries/libmemory_utils/memory_utils.c    *)
(* that keep no state: arithmetic on addresses, tests and searches of      *)
(* memory, and the conversions between bytes and text.                     *)
(*                                                                         *)
(* size_t and uintptr_t have Width bits and wrap; a byte has ByteBits bits *)
(* and is written with two digits.  Memory is a sequence of bytes.  Null   *)
(* pointers and messages are left out.                                     *)
(***************************************************************************)
EXTENDS Integers, Sequences, SequencesExt, Bitwise

CONSTANTS Width, ByteBits

ASSUME AlgorithmsAssumption == Width \in Nat \ {0} /\ ByteBits \in {2, 4, 6, 8}

Words == 0 .. 2 ^ Width - 1
Bytes == 0 .. 2 ^ ByteBits - 1

SUCCESS == 0
INVALID == -1
IO_ERROR == -4
NOT_FOUND == -6
OVERFLOW == -5

(***************************************************************************)
(* Alignment                                                               *)
(***************************************************************************)

Wrap(n) == n % 2 ^ Width
Complement(n) == 2 ^ Width - 1 - n

OrOne(align) == IF align = 0 THEN 1 ELSE align

memory_utils_align_up(addr, align) ==
  Wrap(addr + OrOne(align) - 1) & Complement(OrOne(align) - 1)

memory_utils_align_down(addr, align) == addr & Complement(OrOne(align) - 1)

memory_utils_is_aligned(addr, align) == align = 0 \/ (addr & (align - 1)) = 0

memory_utils_is_power_of_two(n) == n # 0 /\ (n & (n - 1)) = 0

\* The powers the loop shifts through: when the last one, 0, is still less than n, it never ends.
Shifted == [i \in 0 .. Width |-> Wrap(2 ^ i)]

NextPowerEnds(n) == \E i \in 0 .. Width : Shifted[i] >= n

memory_utils_next_power_of_two(n) ==
  Shifted[CHOOSE i \in 0 .. Width :
            Shifted[i] >= n /\ \A j \in 0 .. i - 1 : Shifted[j] < n]

(***************************************************************************)
(* Tests and searches                                                      *)
(***************************************************************************)

\* Not for an empty memory, which it refuses.
memory_utils_memfill(memory, pattern) ==
  [i \in DOMAIN memory |-> pattern]

memory_utils_memcmp_pattern(memory, pattern) ==
  IF memory = << >> THEN INVALID
  ELSE IF \E i \in DOMAIN memory : memory[i] # pattern THEN IO_ERROR ELSE SUCCESS

memory_utils_memcheck(memory, pattern) == memory_utils_memcmp_pattern(memory, pattern)

\* 0x00, 0xFF, 0xAA, 0x55, 0x33, 0xCC
Patterns ==
  LET ones == 2 ^ ByteBits - 1
  IN  << 0, ones, 2 * (ones \div 3), ones \div 3, 51 % 2 ^ ByteBits, 204 % 2 ^ ByteBits >>

\* memory: what each address reads back when the whole of it was written with a byte.
memory_utils_memtest(memory, iterations) ==
  IF memory = << >> THEN INVALID
  ELSE IF \E i \in 0 .. iterations - 1, j \in DOMAIN memory :
            LET pattern == Patterns[(i % Len(Patterns)) + 1] IN memory[j][pattern] # pattern
       THEN IO_ERROR ELSE SUCCESS

\* SUCCESS comes with the offset.
Found(i) == [offset |-> i]

memory_utils_memfind(haystack, needle) ==
  LET last == Len(haystack) - Len(needle)
      At(i) == \A j \in 1 .. Len(needle) : haystack[i + j] = needle[j]
  IN  IF haystack = << >> \/ needle = << >> THEN INVALID
      ELSE IF \A i \in 0 .. last : ~ At(i) THEN NOT_FOUND
      ELSE Found(CHOOSE i \in 0 .. last : At(i) /\ \A k \in 0 .. i - 1 : ~ At(k))

(***************************************************************************)
(* Text                                                                    *)
(***************************************************************************)

Base == 2 ^ (ByteBits \div 2)
Digits == 0 .. Base - 1
Space == Base
Minus == Base + 1
Plus == Base + 2
Letter == Base + 3     \* any other character
Characters == 0 .. Letter

\* strtol skips white space and takes a sign; the byte keeps the low bits of the value.
PairIsNumber(a, b) == b \in Digits /\ a \in Digits \cup {Space, Minus, Plus}

PairValue(a, b) ==
  IF a \in Digits THEN Base * a + b
  ELSE IF a = Minus THEN (0 - b) % 2 ^ ByteBits ELSE b

Pairs(str) == [i \in 1 .. Len(str) \div 2 |-> <<str[2 * i - 1], str[2 * i]>>]

\* The bytes, as far as they are converted, and what is returned.
memory_utils_str_to_hex(str, max_bytes) ==
  LET pairs == Pairs(str)
      bad == {i \in DOMAIN pairs : ~ PairIsNumber(pairs[i][1], pairs[i][2])}
      values == [i \in DOMAIN pairs |-> PairValue(pairs[i][1], pairs[i][2])]
      Refuse(why, written) == [ret |-> why, bytes |-> written]
  IN  IF Len(str) % 2 # 0 THEN Refuse(INVALID, << >>)
      ELSE IF Len(pairs) > max_bytes THEN Refuse(OVERFLOW, << >>)
      ELSE IF bad # {}
           THEN Refuse(INVALID, SubSeq(values, 1, (CHOOSE i \in bad : \A j \in bad : i <= j) - 1))
           ELSE [ret |-> Len(pairs), bytes |-> values]

\* The copies that memory_utils_strdup and strndup return, with the zero that ends them.
Nul == Letter + 1
Copied(chars) == Append(chars, Nul)

memory_utils_strdup(str) == Copied(str)

memory_utils_strndup(str, n) == Copied(SubSeq(str, 1, IF Len(str) > n THEN n ELSE Len(str)))

\* The lines of a dump of size bytes, by the bytes they show and their length: the address of
\* digits characters, at least four, then three columns a byte, then a character a byte.
PerLine    == 16
LineBuffer == 128

memory_utils_memdump(size, digits) ==
  [i \in 1 .. (size + PerLine - 1) \div PerLine |->
     LET left  == size - PerLine * (i - 1)
         shown == IF left < PerLine THEN left ELSE PerLine
     IN  [shown |-> shown, length |-> (2 + digits + 2) + 3 * PerLine + 1 + shown]]

\* Three characters a byte, as long as more than three would be left; buffer_size is not 0.
memory_utils_hexdump_to_str(memory, buffer_size) ==
  LET fitting == IF buffer_size <= 3 THEN 0 ELSE (buffer_size - 3 + 2) \div 3
      shown == SubSeq(memory, 1, IF fitting < Len(memory) THEN fitting ELSE Len(memory))
  IN  FlattenSeq([i \in DOMAIN shown |-> <<shown[i] \div Base, shown[i] % Base, Space>>])

=============================================================================
