------------------------------- MODULE BootMap -------------------------------
(***************************************************************************)
(* memory_init of kernel/mem/memory_init.c: from the memory map the boot   *)
(* loader left to the bitmap of free physical pages.                       *)
(*                                                                         *)
(* The bitmap is the set of the pages whose bit is set.  BITS bits share a *)
(* byte, 8 in the code.  PAGE is the size of a page; the addresses of a    *)
(* size_t are those of MAX_RAM_PAGE pages.  A 64-bit number of the map is  *)
(* [hi, lo], its two halves.                                               *)
(***************************************************************************)
EXTENDS Integers, Sequences, SequencesExt

CONSTANTS MAX_RAM_PAGE, PAGE, BITS

ASSUME BootMapAssumption ==
    /\ {MAX_RAM_PAGE, PAGE, BITS} \subseteq Nat \ {0}
    /\ MAX_RAM_PAGE % BITS = 0

Pages == 0..(MAX_RAM_PAGE - 1)

\* ACCESS_BITMAP_BY_ADDR: the pages whose bits share the byte of page p.
byte_of(p) == {q \in Pages : q \div BITS = (p % MAX_RAM_PAGE) \div BITS}

\* A page the region has only a part of counts.
init_mm_bitmap_rounds_up(free, start, len) ==
    LET n == (len + PAGE - 1) \div PAGE
    IN  free \cup {(start \div PAGE + k) % MAX_RAM_PAGE : k \in 0..(n - 1)}

\* Bit by bit until a multiple of BITS pages is left, then byte by byte, from
\* wherever the first loop has got to.
init_mm_bitmap(free, start, len) ==
    LET page == start \div PAGE
        n    == len \div PAGE
        odd  == n % BITS
    IN  free \cup {(page + k) % MAX_RAM_PAGE : k \in 0..(odd - 1)}
             \cup UNION {byte_of(page + odd + BITS * k) : k \in 0..(n \div BITS - 1)}

\* The two halves are added, in a size_t.
folded(n) == (n.lo + n.hi) % (MAX_RAM_PAGE * PAGE)

\* The first memory map among the tags, each of its available regions.
memory_init_grub(tags) ==
    LET maps == SelectSeq(tags, LAMBDA t : t.type = "mmap")
        all  == IF maps = <<>> THEN <<>> ELSE Head(maps).entries
    IN  FoldLeft(LAMBDA free, r : IF r.type = "available"
                                  THEN init_mm_bitmap(free, folded(r.addr), folded(r.len))
                                  ELSE free,
                 {}, all)

\* From the page of its first byte to the one its end is aligned up to.
kernel_pages(start, end) == (start \div PAGE)..((end + PAGE - 1) \div PAGE - 1)

memory_init_reserv_kernel(free, start, end) == free \ kernel_pages(start, end)

\* A wrong magic number or an unaligned structure is a panic.
memory_init(magic, aligned, tags, start, end) ==
    [panic |-> ~magic \/ ~aligned,
     free |-> IF ~magic \/ ~aligned THEN {}
              ELSE memory_init_reserv_kernel(memory_init_grub(tags), start, end)]
=============================================================================
