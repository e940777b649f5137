-------------------------------- MODULE Cpio --------------------------------
(***************************************************************************)
(* Looking up a file in a cpio archive in the newc format:                 *)
(* kernel/common/cpio.c, which user/lib/cpio.c repeats.                    *)
(*                                                                         *)
(* An archive is a sequence of cells, one for each byte.  A header stands  *)
(* in its first cell and a name in its first cell; what follows them up to *)
(* their size is filler.                                                   *)
(***************************************************************************)
EXTENDS Naturals, Sequences

CONSTANTS ENOENT,     \* ERR_PTR(-ENOENT)
          Trailer     \* the name "TRAILER!!!"

HeaderSize == 110     \* sizeof(struct cpio_newc_header)

\* hex8_u64(): eight digits, as character codes.
hex8_u64(s) ==
    LET Digit(c) == IF c \in 65..70 THEN c - 65 + 10 ELSE c - 48
        u[k \in 0..8] == IF k = 0 THEN 0 ELSE u[k - 1] * 16 + Digit(s[k])
    IN  u[8]

\* The fields of the header that anybody reads.  A cell that is not the start of a
\* header with the magic number 070701 is under BUG_ON.
cpio_parse_header(cell) ==
    [c_filesize |-> hex8_u64(cell.c_filesize), c_namesize |-> hex8_u64(cell.c_namesize)]

ALIGN4_UP(x) == (x \div 4) * 4 + (IF x % 4 # 0 THEN 4 ELSE 0)

\* An entry whose header is at address p of an archive that starts at addr, which
\* is what ALIGN4_UP() works on.
NameAt(p) == p + HeaderSize
DataAt(archive, addr, p) ==
    ALIGN4_UP(NameAt(p) + cpio_parse_header(archive[p - addr + 1]).c_namesize)
NextAt(archive, addr, p) ==
    ALIGN4_UP(DataAt(archive, addr, p) + cpio_parse_header(archive[p - addr + 1]).c_filesize)

\* cpio_extract_single(): the contents of the first file called target, or ENOENT.
cpio_extract_single(archive, addr, target) ==
    LET found[p \in addr..(addr + Len(archive) - 1)] ==
            LET name == archive[NameAt(p) - addr + 1]
                data == DataAt(archive, addr, p)
            IN  IF name = Trailer THEN ENOENT
                ELSE IF name = target
                THEN SubSeq(archive, data - addr + 1,
                            data - addr + cpio_parse_header(archive[p - addr + 1]).c_filesize)
                ELSE found[NextAt(archive, addr, p)]
    IN  found[addr]

-----------------------------------------------------------------------------
\* The copy in user/lib/cpio.c.
user_cpio_parse_header(cell) == cpio_parse_header(cell)
user_cpio_extract_single(archive, addr, target) == cpio_extract_single(archive, addr, target)
=============================================================================
