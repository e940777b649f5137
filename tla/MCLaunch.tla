------------------------------ MODULE MCLaunch ------------------------------
(***************************************************************************)
(* Small instances of Launch for TLC: a ramdisk with programs of both      *)
(* classes and both byte orders.  The files are put together here from the *)
(* ELF and cpio formats, field by field, and not with the layouts of Elf.  *)
(***************************************************************************)
EXTENDS Launch, TLC

CONSTANTS
    pRoot, pServer, pChild, pLone, pMissing,     \* paths
    fRoot, fServer, fChild, fLone, fMissing,     \* the same without the slash
    Filler                                       \* a byte nobody looks at

FileNames == pRoot :> fRoot @@ pServer :> fServer @@ pChild :> fChild
             @@ pLone :> fLone @@ pMissing :> fMissing

\* The programs: where their parts are, what the files hold of them, how much memory
\* they take.  The data of the first has its last bytes in a page of their own.
Part(vaddr, bytes, memsz, perm) ==
    [vaddr |-> vaddr, bytes |-> bytes, memsz |-> memsz, perm |-> perm]
ReadExec == VMR_READ + VMR_EXEC
ProgramTable ==
    pRoot :> [entry |-> 70, parts |-> {Part(69, <<1, 2, 3>>, 3, ReadExec),
                                        Part(130, <<4, 5>>, 70, VMR_RW)}]
    @@ pServer :> [entry |-> 258, parts |-> {Part(256, <<6, 7, 8, 9>>, 4, ReadExec),
                                             Part(383, <<10>>, 4, VMR_RW)}]
    @@ pChild :> [entry |-> 64, parts |-> {Part(64, <<11, 12>>, 2, ReadExec),
                                           Part(200, <<13, 14, 15>>, 9, VMR_READ)}]
    @@ pLone :> [entry |-> 64, parts |-> {Part(64, <<16>>, 1, ReadExec)}]

\* A number as bytes in a byte order.
Bytes(value, width, data) ==
    [i \in 1..width |->
        LET place == IF data = ELF_ENDIAN_LE THEN i - 1 ELSE width - i
        IN  IF place > 2 THEN 0 ELSE (value \div 256^place) % 256]

\* A file: header, three program headers at most (one of them no PT_LOAD), a section
\* header, contents.
ElfFileOf(prog, class, data) ==
    LET H(v)  == Bytes(v, 2, data)
        W(v)  == Bytes(v, 4, data)
        A(v)  == Bytes(v, IF class = ELF_BITS_32 THEN 4 ELSE 8, data)
        is32  == class = ELF_BITS_32
        ehdr  == IF is32 THEN 52 ELSE 64
        phdr  == IF is32 THEN 32 ELSE 56
        shdr  == IF is32 THEN 40 ELSE 64
        parts == CHOOSE s \in [1..Cardinality(prog.parts) -> prog.parts] :
                    {s[i] : i \in DOMAIN s} = prog.parts
        n     == Len(parts)
        body  == ehdr + (n + 1) * phdr + shdr
        start[i \in 1..n] == IF i = 1 THEN body ELSE start[i - 1] + Len(parts[i - 1].bytes)
        Flag(perm, of, is) == IF (perm \div of) % 2 = 1 THEN is ELSE 0
        Flags(perm) == Flag(perm, 1, 4) + Flag(perm, 2, 2) + Flag(perm, 4, 1)
        Program(type, flags, off, vaddr, filesz, memsz) ==
            IF is32 THEN W(type) \o W(off) \o W(vaddr) \o W(vaddr) \o W(filesz) \o W(memsz)
                         \o W(flags) \o W(4)
            ELSE W(type) \o W(flags) \o A(off) \o A(vaddr) \o A(vaddr) \o A(filesz)
                 \o A(memsz) \o A(8)
        heads[i \in 0..n] ==
            IF i = 0 THEN <<>>
            ELSE heads[i - 1] \o Program(1, Flags(parts[i].perm), start[i], parts[i].vaddr,
                                          Len(parts[i].bytes), parts[i].memsz)
        content[i \in 0..n] == IF i = 0 THEN <<>> ELSE content[i - 1] \o parts[i].bytes
    IN  <<127, 69, 76, 70, class, data, 1>> \o [i \in 1..9 |-> 0]
        \o H(2) \o H(183) \o W(1) \o A(prog.entry) \o A(ehdr) \o A(ehdr + (n + 1) * phdr)
        \o W(5) \o H(ehdr) \o H(phdr) \o H(n + 1) \o H(shdr) \o H(1) \o H(0)
        \o Program(4, 4, body, 64, 2, 2) \o heads[n]
        \o W(1) \o W(1) \o A(0) \o A(0) \o A(body) \o A(2) \o W(0) \o W(0) \o A(1) \o A(0)
        \o content[n]

\* An entry of a newc archive that starts at a multiple of 4.
Hex(value) ==
    [i \in 1..8 |-> LET d == IF i < 5 THEN 0 ELSE (value \div 16^(8 - i)) % 16
                    IN  IF d < 10 THEN 48 + d ELSE 55 + d]
Fill(n)   == [i \in 1..n |-> Filler]
Pad(n)    == Fill((4 - (n % 4)) % 4)
Entry(name, namesize, contents) ==
    <<[c_filesize |-> Hex(Len(contents)), c_namesize |-> Hex(namesize)]>> \o Fill(109)
    \o <<name>> \o Fill(namesize - 1) \o Pad(110 + namesize) \o contents \o Pad(Len(contents))

Archive ==
    Entry(fLone, 5, ElfFileOf(ProgramTable[pLone], ELF_BITS_32, ELF_ENDIAN_LE))
    \o Entry(fServer, 14, ElfFileOf(ProgramTable[pServer], ELF_BITS_64, ELF_ENDIAN_BE))
    \o Entry(fRoot, 7, ElfFileOf(ProgramTable[pRoot], ELF_BITS_64, ELF_ENDIAN_LE))
    \o Entry(fChild, 12, ElfFileOf(ProgramTable[pChild], ELF_BITS_32, ELF_ENDIAN_BE))
    \o Entry(Trailer, 11, <<>>)

Req(path, info) == [path |-> path, info |-> info]
SomeRequests == {Req(pServer, FALSE), Req(pChild, TRUE), Req(pRoot, TRUE), Req(pLone, FALSE),
                 Req(pMissing, FALSE)}
Message == <<84, 104>>
=============================================================================
