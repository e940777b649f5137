-------------------------------- MODULE Elf ---------------------------------
(***************************************************************************)
(* The ELF parser of the kernel (kernel/common/elf.c) and its copy in the  *)
(* user library (user/lib/elf.c): files of both classes and both byte      *)
(* orders are turned into the 64-bit structures of elf.h.                  *)
(*                                                                         *)
(* A file is a sequence of bytes; offset 0 is the first.                   *)
(***************************************************************************)
EXTENDS Naturals, Sequences

CONSTANTS Byte,      \* the number of values of a byte: 256
          ElfError   \* ERR_PTR(-EINVAL), which is no result

IdentSize == 16
PT_LOAD == 1
PF_X == 1
PF_W == 2
PF_R == 4

\* ei_class and ei_data
ELF_BITS_32 == 1
ELF_BITS_64 == 2
ELF_ENDIAN_LE == 1
ELF_ENDIAN_BE == 2

\* A structure: its fields and their sizes in order.  addr is the size of the
\* fields that are u32 in the 32-bit format and u64 in the other.
HeaderLayout(addr) ==
    << <<"e_type", 2>>, <<"e_machine", 2>>, <<"e_version", 4>>,
       <<"e_entry", addr>>, <<"e_phoff", addr>>, <<"e_shoff", addr>>,
       <<"e_flags", 4>>, <<"e_ehsize", 2>>, <<"e_phentsize", 2>>, <<"e_phnum", 2>>,
       <<"e_shentsize", 2>>, <<"e_shnum", 2>>, <<"e_shstrndx", 2>> >>

ProgramHeader64 ==
    << <<"p_type", 4>>, <<"p_flags", 4>>, <<"p_offset", 8>>, <<"p_vaddr", 8>>,
       <<"p_paddr", 8>>, <<"p_filesz", 8>>, <<"p_memsz", 8>>, <<"p_align", 8>> >>

ProgramHeader32 ==
    << <<"p_type", 4>>, <<"p_offset", 4>>, <<"p_vaddr", 4>>, <<"p_paddr", 4>>,
       <<"p_filesz", 4>>, <<"p_memsz", 4>>, <<"p_flags", 4>>, <<"p_align", 4>> >>

SectionLayout(addr) ==
    << <<"sh_name", 4>>, <<"sh_type", 4>>, <<"sh_flags", addr>>, <<"sh_addr", addr>>,
       <<"sh_offset", addr>>, <<"sh_size", addr>>, <<"sh_link", 4>>, <<"sh_info", 4>>,
       <<"sh_addralign", addr>>, <<"sh_entsize", addr>> >>

AddrSize(class) == IF class = ELF_BITS_32 THEN 4 ELSE 8

-----------------------------------------------------------------------------
\* The number of width bytes at offset at: le16_to_cpu() to be64_to_cpu().
Field(code, at, width, data) ==
    LET value[k \in 0..width] ==
            IF k = 0 THEN 0
            ELSE value[k - 1] * Byte
                 + code[at + IF data = ELF_ENDIAN_BE THEN k ELSE width + 1 - k]
    IN  value[width]

\* The structure at offset at, as a record.
Struct(code, at, layout, data) ==
    LET start[k \in 1..Len(layout)] ==
            IF k = 1 THEN at ELSE start[k - 1] + layout[k - 1][2]
        Index(field) == CHOOSE k \in DOMAIN layout : layout[k][1] = field
    IN  [field \in {layout[k][1] : k \in DOMAIN layout} |->
            Field(code, start[Index(field)], layout[Index(field)][2], data)]

is_elf_magic(code) == SubSeq(code, 1, 4) = <<127, 69, 76, 70>>

\* The part of e_indent that the parsers look at.
Ident(code) == [ei_class |-> code[5], ei_data |-> code[6]]
Known(ident) == /\ ident.ei_class \in {ELF_BITS_32, ELF_BITS_64}
                /\ ident.ei_data \in {ELF_ENDIAN_LE, ELF_ENDIAN_BE}

parse_elf_header(code) ==
    IF ~is_elf_magic(code) \/ ~Known(Ident(code)) THEN ElfError
    ELSE Struct(code, IdentSize, HeaderLayout(AddrSize(code[5])), code[6])

\* In the two classes p_flags is in different places.
parse_elf_program_header(code, at, ident) ==
    Struct(code, at, IF ident.ei_class = ELF_BITS_32 THEN ProgramHeader32
                                                     ELSE ProgramHeader64, ident.ei_data)

parse_elf_section_header(code, at, ident) ==
    Struct(code, at, SectionLayout(AddrSize(ident.ei_class)), ident.ei_data)

\* struct elf_file.  The header has been found good when the tables are parsed, so
\* that no later step fails.
ElfFile(code, header) ==
    [header    |-> header,
     p_headers |-> [i \in 1..header.e_phnum |-> parse_elf_program_header(code,
                        header.e_phoff + header.e_phentsize * (i - 1), Ident(code))],
     s_headers |-> [i \in 1..header.e_shnum |-> parse_elf_section_header(code,
                        header.e_shoff + header.e_shentsize * (i - 1), Ident(code))]]

elf_parse_file(code) ==
    IF parse_elf_header(code) = ElfError THEN ElfError
    ELSE ElfFile(code, parse_elf_header(code))

-----------------------------------------------------------------------------
(* The copy in user/lib/elf.c, function by function.  It differs in where   *)
(* the tables are: arrays of MAX_P_HEADERS and MAX_S_HEADERS in the         *)
(* caller's struct, which nothing checks the counts against.                *)

user_parse_elf_header(code) == parse_elf_header(code)
user_parse_elf_program_header(code, at, ident) == parse_elf_program_header(code, at, ident)
user_parse_elf_section_header(code, at, ident) == parse_elf_section_header(code, at, ident)

user_elf_parse_file(code) ==
    LET header == user_parse_elf_header(code)
    IN  IF header = ElfError THEN ElfError ELSE ElfFile(code, header)
=============================================================================
