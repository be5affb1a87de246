---------------------------- MODULE MCDdrLayout ----------------------------
(* DdrLayout with two callers and nine layouts: two that are right, and one for each thing a
   layout can have wrong. *)
EXTENDS DdrLayout, TLC

\* The address space ends well past 8 GB, so that a region may end past the memory and wrap.
MCAddrSpace == 1024

\* The layouts of two boards with the bootloader off address zero.
Moved(l) == [l EXCEPT !.bootloader = Region(1, 1), !.uboot = Region(2, 1), !.kernel = Region(3, 13)]

Good      == Moved(edge2_layout)
Secured   == [Moved(orange5_layout) EXCEPT !.system = Region(80, 100), !.secure = Region(180, 8)]

MCCandidates ==
  { Good, Secured,
    [Good EXCEPT !.gpu = Region(36, 8)],          \* the accelerators overlap
    [Good EXCEPT !.gpu = Region(36, 2)],          \* one is inside the other
    [Good EXCEPT !.secure = Region(100, 8)],      \* the secure region is inside the system region
    [Good EXCEPT !.dtb = Region(16, 0)],          \* an empty region
    [Good EXCEPT !.system = Region(64, 1000)],    \* the system region wraps
    [Good EXCEPT !.system = Region(64, 960)],     \* and ends where the space does
    [Good EXCEPT !.secure = Region(1000, 60)] }   \* a region wraps that is not validated

\* A small block, one as large as the system region of Good, one larger, one that wraps.
MCBlockSizes == {1, 192, 193, 1000}

(* What the defaults of the boards are: no two regions overlap; all of them fail validation, for
   the bootloader starts at zero; one ends past the board's memory; the row cycle time of one is
   shorter than its parts; and each default setting is within the limits reported for it. *)
ASSUME DefaultsOfBoards ==
  \A b \in Boards :
    LET l == DefaultLayout(b)
        c == DefaultConfig(b)
        i == BoardInfo(b)
    IN  /\ ddr_layout_check_overlap(l)
        /\ ~ ddr_layout_validate(l) /\ ddr_layout_validate(Moved(l))
        /\ (16 * (l.system.start + l.system.size) <= c.size_mb) <=> b # "rock3b"
        /\ (c.timings.tRC >= c.timings.tRAS + c.timings.tRP) <=> b = "edge2"
                                                             \/ b = "rock3b"
        /\ i.min_freq <= c.frequency_mhz /\ i.min_voltage <= c.voltage_mv

(* What is printed of a right layout is what is reserved: every line's end is its start and size,
   no line runs into another, and a layout that prints like it differs from it only in regions
   that have no line. *)
ASSUME PrintShowsLayout ==
  \A l \in {Good, Secured} :
    LET lines == ddr_layout_print(l)
    IN  /\ \A n \in DOMAIN lines : lines[n].start + lines[n].size = lines[n].end
        /\ \A m, n \in DOMAIN lines :
             m # n => lines[m].end <= lines[n].start \/ lines[n].end <= lines[m].start
        /\ \A k \in MCCandidates :
             ddr_layout_print(k) = lines => \A n \in RegionNames :
                 k[n] # l[n] => n \in {"reserved", "secure", "dma", "user"}

Interchangeable == Permutations(Threads) \cup Permutations(Objects)

=============================================================================
