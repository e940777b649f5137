------------------------------- MODULE Launch -------------------------------
(***************************************************************************)
(* From a file in the ramdisk to a running program.  The kernel makes the  *)
(* root process (kernel/process/process.c, thread.c, thread_env.c); the    *)
(* root process launches others with spawn() of the user library           *)
(* (user/lib/liblauncher.c, spawn.c), one system call after another.       *)
(* Children run the main() of user/lab4/spawn_child.c while the root       *)
(* process, that of spawn_info.c, goes on.                                 *)
(*                                                                         *)
(* A cell of memory holds a byte of a program or a word of the environment *)
(* page.  Process 0 is the root process.                                   *)
(***************************************************************************)
EXTENDS Elf, Cpio, Objects, FiniteSets

CONSTANTS
    Ramdisk, RamdiskAddr,     \* the archive in the kernel, binary_cpio_bin_start
    RootPath, FileName,       \* the program of the root process; path + 1
    Programs,                 \* what each file in the archive was made from
    Requests, MaxSpawns,      \* what the root process launches, and how often it tries
    StrSize,                  \* the 64 bytes kept for a string
    StackBase, StackSize,     \* MAIN_THREAD_STACK_BASE and _SIZE
    TmpVaddr, CpioBin,        \* 0xc00000 and CPIO_BIN
    InfoVaddr, SharedInfo,    \* CHILD_INFO_VADDR, and 0x100000000 in a child
    SharedVaddr,              \* SHARED_PAGE_VADDR + PAGE_SIZE
    Plat, Msg                 \* the string "aarch64", the message to the child

VARIABLES k,         \* what the kernel keeps: memory objects, capabilities, regions, threads
          job,       \* the launch the root process is in
          app,       \* where the main() of each process is
          launched   \* what each process was launched with

vars == <<k, job, app, launched>>

Procs == 0..MaxSpawns

\* PFLAGS2VMRFLAGS(): the two sets of flags number the bits in different orders.
PFLAGS2VMRFLAGS(flags) ==
    LET Set(f) == (flags \div f) % 2
    IN  Set(PF_X) * VMR_EXEC + Set(PF_W) * VMR_WRITE + Set(PF_R) * VMR_READ

-----------------------------------------------------------------------------
(* Processes and threads                                                     *)

\* sys_create_process(): the new process has itself and its space as capabilities
NewProcess(kk, q) ==
    [kk EXCEPT !.caps[q] = <<[type |-> "process", id |-> q], [type |-> "vmspace", id |-> q]>>,
               !.next = q + 1]
CreateProcess(kk, p) == WithCap(NewProcess(kk, kk.next), p, "process", kk.next)

\* sys_create_thread(): capabilities for the target and for the caller
CreateThread(kk, p, target, sp, pc) ==
    LET q == Obj(kk, p, target, "process")
        made == WithCap([kk EXCEPT !.main[q] = [sp |-> sp, pc |-> pc]], q, "thread", q)
    IN  CapCopy(made[1], q, p, made[2])

-----------------------------------------------------------------------------
(* The environment page                                                      *)

\* struct process_metadata
Meta(elf) ==
    [phdr_addr |-> elf.p_headers[1].p_vaddr + elf.header.e_phoff,
     phentsize |-> elf.header.e_phentsize, phnum |-> elf.header.e_phnum,
     flags |-> elf.header.e_flags, entry |-> elf.header.e_entry]

AT_NULL == 0
AT_PLATFORM == 15
AT_HWCAP == 16
AT_RANDOM == 25

\* From AT_SECURE to AT_CLKTCK.
AuxHead(meta) ==
    <<23, 0, 6, PageSize, 3, meta.phdr_addr, 4, meta.phentsize, 5, meta.phnum,
      8, meta.flags, 9, meta.entry, 11, 1000, 12, 1000, 13, 1000, 14, 1000, 17, 100>>

\* A page of these words, with the name and the platform at its end.
EnvPage(words, path) ==
    [i \in 1..PageSize |->
        IF i \in DOMAIN words THEN words[i]
        ELSE IF i = PageSize - StrSize + 1 THEN path
        ELSE IF i = PageSize - 2 * StrSize + 1 THEN Plat
        ELSE 0]

\* prepare_env() of the kernel
prepare_env(top, meta, path) ==
    EnvPage(<<1, top - StrSize, 0, 0>> \o AuxHead(meta)
            \o <<AT_HWCAP, 0, AT_PLATFORM, top - 2 * StrSize,
                 AT_RANDOM, top - StrSize, AT_NULL, 0>>, path)

\* construct_init_env() of the user library.  The word after AT_HWCAP is written
\* twice (spawn.c:170 and 172), so that what follows is one word early.
construct_init_env(top, meta, path, reqs, caps) ==
    EnvPage(<<1, top - StrSize, 0>>
            \o (IF reqs = <<>> THEN <<0>> ELSE [i \in DOMAIN reqs |-> reqs[i].addr])
            \o caps \o <<0>>
            \o AuxHead(meta)
            \o <<AT_HWCAP, AT_PLATFORM, top - 2 * StrSize,
                 AT_RANDOM, top - StrSize, AT_NULL, 0>>, path)

-----------------------------------------------------------------------------
(* The root process                                                          *)

\* PT_LOAD headers of a parsed file, and how many bytes one maps.
Loadable(elf) == SelectSeq(elf.p_headers, LAMBDA ph : ph.p_type = PT_LOAD)
MapSize(ph)   == ROUND_UP(ph.p_memsz + ph.p_vaddr) - ROUND_DOWN(ph.p_vaddr)
FileBytes(code, ph) == SubSeq(code, ph.p_offset + 1, ph.p_offset + ph.p_filesz)

\* struct info_page: where its fields are
ReadyFlag == 0
ExitFlag == 1
NrArgs == 2
Args == 3

-----------------------------------------------------------------------------
(* What the programs rely on and nothing checks.                             *)

\* The archive as LoadCpio leaves it, and what the walks through it find.
Archived == [i \in 1..ROUND_UP(Len(Ramdisk)) |->
                IF i \in DOMAIN Ramdisk THEN Ramdisk[i] ELSE Junk]
FileOf(path) == user_cpio_extract_single(Archived, CpioBin, FileName[path])
RootCode     == cpio_extract_single(Ramdisk, RamdiskAddr, FileName[RootPath])

Apart(a, n, b, m) == a + n <= b \/ b + m <= a
RootAreas  == {<<StackBase, StackSize>>, <<CpioBin, Len(Archived)>>, <<InfoVaddr, PageSize>>}
ChildAreas == {<<StackBase, StackSize>>, <<SharedInfo, PageSize>>, <<SharedVaddr, PageSize>>}

\* A file is parsed to what its program was made from, and the segments have pages of
\* their own, which no area of the loader or of main() needs.
PartOf(code, ph) == [vaddr |-> ph.p_vaddr, bytes |-> FileBytes(code, ph),
                     memsz |-> ph.p_memsz, perm |-> PFLAGS2VMRFLAGS(ph.p_flags)]
MadeFrom(code, elf, program, areas) ==
    LET ph     == Loadable(elf)
        Begin(i) == ROUND_DOWN(ph[i].p_vaddr)
    IN  /\ ph \in Seq([p_type : Nat, p_flags : Nat, p_offset : Nat, p_vaddr : Nat,
                       p_paddr : Nat, p_filesz : Nat, p_memsz : Nat \ {0}, p_align : Nat])
        /\ elf.header.e_entry = program.entry
        /\ program.parts = {PartOf(code, ph[i]) : i \in DOMAIN ph}
        /\ \A i \in DOMAIN ph :
              /\ FileBytes(code, ph[i]) \in Seq(Nat)
              /\ Len(FileBytes(code, ph[i])) <= ph[i].p_memsz
              /\ \A j \in DOMAIN ph \ {i} :
                    Apart(Begin(i), MapSize(ph[i]), Begin(j), MapSize(ph[j]))
              /\ \A area \in areas : Apart(Begin(i), MapSize(ph[i]), area[1], area[2])

\* spawn() maps two segments, however many a file has.
ASSUME FilesAssumption ==
    /\ Len(Ramdisk) \in Nat \ {0} /\ DOMAIN Ramdisk = 1..Len(Ramdisk)
    /\ MadeFrom(RootCode, elf_parse_file(RootCode), Programs[RootPath], RootAreas)
    /\ \A req \in Requests : FileOf(req.path) # ENOENT =>
          LET elf == user_elf_parse_file(FileOf(req.path))
          IN  /\ MadeFrom(FileOf(req.path), elf, Programs[req.path], ChildAreas)
              /\ Len(Loadable(elf)) <= 2

\* The addresses are those of pages, the areas of a process are apart, and the words of
\* the environment page, and the message, fit.
ASSUME AddressesAssumption ==
    /\ PageSize \in Nat /\ StrSize \in Nat \ {0} /\ 40 + 2 * StrSize <= PageSize
    /\ StackSize \in Nat /\ ROUND_UP(StackSize) = StackSize /\ 2 * PageSize <= StackSize
    /\ \A addr \in {StackBase, TmpVaddr, CpioBin, InfoVaddr, SharedInfo, SharedVaddr} :
          addr \in Nat /\ ROUND_DOWN(addr) = addr
    /\ \A areas \in {RootAreas, ChildAreas} : \A one, other \in areas :
          one # other => Apart(one[1], one[2], other[1], other[2])
    /\ CpioBin \notin {StackBase, InfoVaddr} /\ SharedInfo \notin {SharedVaddr, 0}
    /\ Msg \in Seq(Int) /\ Args + Len(Msg) + 1 <= PageSize

\* A request says which program, and whether it gets the page.
ASSUME RequestsAssumption ==
    /\ Requests \subseteq [path : {req.path : req \in Requests}, info : BOOLEAN]
    /\ MaxSpawns \in Nat /\ Nobody \notin Nat \cup Requests

-----------------------------------------------------------------------------
\* load_binary(): what a segment has in memory beyond the file is left as it is.
\* A segment in another one's pages is under BUG_ON, which stops the kernel.
load_binary(kk, code, elf) ==
    LET ph == Loadable(elf)
        loaded[i \in 0..Len(ph)] ==
            IF i = 0 THEN kk
            ELSE LET made == CreatePmo(loaded[i - 1], 0, MapSize(ph[i]))[1]
                     pmo  == Len(made.pmos)
                     at   == ROUND_DOWN(ph[i].p_vaddr)
                     full == WriteObject(made, pmo, ph[i].p_vaddr - at,
                                         FileBytes(code, ph[i]))
                 IN  IF Clashes(full, 0, at, MapSize(ph[i])) THEN [full EXCEPT !.halted = TRUE]
                     ELSE MapRange(full, 0, at, PFLAGS2VMRFLAGS(ph[i].p_flags), pmo)
    IN  loaded[Len(ph)]

StackTop == StackBase + StackSize

\* thread_create_main(): the thread starts below the environment page.
thread_create_main(kk, code, elf) ==
    LET stack  == CreatePmo(kk, 0, StackSize)[1]
        pmo    == Len(stack.pmos)
        loaded == load_binary(MapRange(stack, 0, StackBase, VMR_RW, pmo), code, elf)
        ready  == WriteObject(loaded, pmo, StackSize - PageSize,
                              prepare_env(StackTop, Meta(elf), RootPath))
    IN  WithCap([ready EXCEPT !.main[0] = [sp |-> StackTop - PageSize,
                                           pc |-> elf.header.e_entry]], 0, "thread", 0)[1]

\* process_create_root(), with ramdisk_read_file().
CreateRoot ==
    /\ app[0] = "none"
    /\ \E archive \in {Ramdisk} : \E code \in {cpio_extract_single(archive, RamdiskAddr, FileName[RootPath])} :
          \E elf \in {elf_parse_file(code)} :
             k' = thread_create_main(NewProcess(k, 0), code, elf)
    /\ app' = [app EXCEPT ![0] = IF k'.halted THEN "halted" ELSE "main"]
    /\ launched' = [launched EXCEPT ![0] = [path |-> RootPath, info |-> FALSE]]
    /\ UNCHANGED job

\* usys_fs_load_cpio(CPIO_BIN)
LoadCpio ==
    /\ app[0] = "main"
    /\ \E archive \in {Ramdisk} :
          LET made == CreatePmo(k, 0, Len(archive))[1]
              pmo  == Len(made.pmos)
          IN  k' = WriteObject(MapIgnored(made, 0, CpioBin, VMR_READ, pmo), pmo, 0, archive)
    /\ app' = [app EXCEPT ![0] = "info"]
    /\ UNCHANGED <<job, launched>>

\* Mutant: the end of the string is not counted.
PrepareInfoShort ==
    /\ app[0] = "info"
    /\ LET made == CreatePmo(k, 0, PageSize)
           mine == MapPmo(made[1], 0, 0, made[2], InfoVaddr, VMR_RW)[1]
       IN  /\ k' = Store(mine, 0, InfoVaddr, <<0, 0, Len(Msg)>> \o Msg \o <<0>>)
           /\ job' = [job EXCEPT !.info = made[2]]
    /\ app' = [app EXCEPT ![0] = "launches"]
    /\ UNCHANGED launched

\* main() of spawn_info.c makes the page it shares with a child.  NrArgs counts the
\* end of the string.
PrepareInfo ==
    /\ app[0] = "info"
    /\ LET made == CreatePmo(k, 0, PageSize)
           mine == MapPmo(made[1], 0, 0, made[2], InfoVaddr, VMR_RW)[1]
       IN  /\ k' = Store(mine, 0, InfoVaddr, <<0, 0, Len(Msg) + 1>> \o Msg \o <<0>>)
           /\ job' = [job EXCEPT !.info = made[2]]
    /\ app' = [app EXCEPT ![0] = "launches"]
    /\ UNCHANGED launched

\* What main() gives to spawn(): the info page, to map and as a capability, or nothing.
pmo_map_reqs ==
    IF job.req.info THEN <<[pmo_cap |-> job.info, addr |-> SharedInfo, perm |-> VMR_RW]>>
    ELSE <<>>
caps_to_send == IF job.req.info THEN <<job.info>> ELSE <<>>

Launching(step) == app[0] = "launches" /\ job.step = step
Continue(step) == job' = [job EXCEPT !.step = step] /\ UNCHANGED app

\* spawn() returns an error to main(), which is under fail_cond(), or is itself at a
\* usys_exit(-1); a BUG_ON() of the user library loops for ever.
Ends(how) == /\ job' = [job EXCEPT !.step = "idle"]
             /\ app' = [app EXCEPT ![0] = how]
Fails == Ends("exited")

TheArchive == k.pmos[(CHOOSE vmr \in k.maps[0] : vmr.start = CpioBin).pmo]
Binary == user_cpio_extract_single(TheArchive, CpioBin, FileName[job.req.path])

\* The root process launches one program with the info page and any without it.
Spawn(req) ==
    /\ Launching("idle")
    /\ k.next <= MaxSpawns
    /\ req.info => \A p \in Procs : launched[p] # Nobody => ~launched[p].info
    /\ job' = [job EXCEPT !.step = "read", !.req = req, !.segs = <<>>]
    /\ UNCHANGED <<k, app, launched>>

\* readelf_from_kernel_cpio(), up to the segments
ReadElf ==
    /\ Launching("read")
    /\ \E binary \in {Binary} :
          IF binary = ENOENT THEN Fails
          ELSE /\ job' = [job EXCEPT !.step = "segments", !.elf = user_elf_parse_file(binary)]
               /\ UNCHANGED app
    /\ UNCHANGED <<k, launched>>

\* Mutant: without the memset().
SegmentCellsUncleared(binary, ph) ==
    LET at    == ph.p_vaddr % PageSize
        bytes == FileBytes(binary, ph)
    IN  [i \in 1..MapSize(ph) |-> IF (i - at) \in DOMAIN bytes THEN bytes[i - at] ELSE Junk]

\* memset() and memcpy()
SegmentCells(binary, ph) ==
    LET at    == ph.p_vaddr % PageSize
        bytes == FileBytes(binary, ph)
    IN  [i \in 1..MapSize(ph) |-> IF (i - at) \in DOMAIN bytes THEN bytes[i - at] ELSE 0]

\* parse_elf_from_binary(): a round of its loop.  The segment is mapped in the caller
\* while it is filled.
LoadSegment ==
    /\ Launching("segments")
    /\ Len(job.segs) < Len(Loadable(job.elf))
    /\ \E ph \in {Loadable(job.elf)[Len(job.segs) + 1]}, binary \in {Binary} :
          LET made   == CreatePmo(k, 0, MapSize(ph))
              mapped == MapPmo(made[1], 0, 0, made[2], TmpVaddr, VMR_RW)
          IN  IF mapped[2] < 0 THEN k' = mapped[1] /\ Ends("hangs")
              ELSE /\ k' = UnmapPmo(Store(mapped[1], 0, TmpVaddr, SegmentCells(binary, ph)),
                                    0, TmpVaddr)
                   /\ job' = [job EXCEPT !.segs = Append(@, [elf_pmo |-> made[2],
                                 p_vaddr |-> ph.p_vaddr, flags |-> PFLAGS2VMRFLAGS(ph.p_flags)])]
                   /\ UNCHANGED app
    /\ UNCHANGED launched

-----------------------------------------------------------------------------
(* launch_process_with_pmos_caps(), call by call.  Memory never runs out.    *)

NewProcessCap ==
    /\ Launching("segments")
    /\ Len(job.segs) = Len(Loadable(job.elf))
    /\ LET made == CreateProcess(k, 0)
       IN  /\ k' = made[1]
           /\ job' = [job EXCEPT !.step = "map", !.child = made[2], !.mapped = 0]
    /\ launched' = [launched EXCEPT ![k.next] = job.req]
    /\ UNCHANGED app

\* Both segments are mapped, whether the file has two or not.
MapSegment ==
    /\ Launching("map") /\ job.mapped < 2
    /\ LET i      == job.mapped + 1
           mapped == MapPmo(k, 0, job.child, job.segs[i].elf_pmo, job.segs[i].p_vaddr,
                            job.segs[i].flags)
       IN  IF i \notin DOMAIN job.segs THEN Fails /\ UNCHANGED k
           ELSE /\ k' = mapped[1]
                /\ IF mapped[2] < 0 THEN Fails
                   ELSE job' = [job EXCEPT !.mapped = i] /\ UNCHANGED app
    /\ UNCHANGED launched

CreateStack ==
    /\ Launching("map") /\ job.mapped = 2
    /\ LET made == CreatePmo(k, 0, StackSize)
       IN  /\ k' = made[1]
           /\ job' = [job EXCEPT !.step = "caps", !.stack = made[2]]
    /\ UNCHANGED <<app, launched>>

\* Step A.  With nothing to transfer there is no call.
TransferToChild ==
    /\ Launching("caps")
    /\ LET copied == TransferCaps(k, 0, job.child, caps_to_send)
       IN  /\ k' = copied[1]
           /\ job' = [job EXCEPT !.step = "shared", !.copies = copied[2]]
    /\ UNCHANGED <<app, launched>>

\* Step B
MapShared ==
    /\ Launching("shared")
    /\ k' = MapPmos(k, 0, job.child, pmo_map_reqs)
    /\ Continue("env")
    /\ UNCHANGED launched

WriteEnv ==
    /\ Launching("env")
    /\ LET wrote == WritePmo(k, 0, job.stack, StackSize - PageSize,
                             construct_init_env(StackTop, Meta(job.elf), job.req.path,
                                                pmo_map_reqs, job.copies))
       IN  k' = wrote[1] /\ IF wrote[2] # 0 THEN Fails ELSE Continue("stack")
    /\ UNCHANGED launched

MapStack ==
    /\ Launching("stack")
    /\ k' = MapPmos(k, 0, job.child,
                    <<[pmo_cap |-> job.stack, addr |-> StackBase, perm |-> VMR_RW]>>)
    /\ Continue("thread")
    /\ UNCHANGED launched

StartChild ==
    /\ Launching("thread")
    /\ LET made == CreateThread(k, 0, job.child, StackTop - PageSize, job.elf.header.e_entry)
       IN  IF made[2] < 0 THEN k' = made[1] /\ Fails
           ELSE /\ k' = made[1]
                /\ job' = [job EXCEPT !.step = "idle"]
                /\ app' = [app EXCEPT ![Obj(k, 0, job.child, "process")] = "main"]
    /\ UNCHANGED launched

Launch == NewProcessCap \/ MapSegment \/ CreateStack \/ TransferToChild \/ MapShared
          \/ WriteEnv \/ MapStack \/ StartChild

\* main() goes on with its child, or ends if that knows nothing of the page.
HasInfoChild == \E p \in Procs : launched[p] # Nobody /\ launched[p].info
Finish ==
    /\ Launching("idle")
    /\ HasInfoChild => Load(k, 0, InfoVaddr + ReadyFlag) = 1
    /\ k' = IF HasInfoChild THEN Store(k, 0, InfoVaddr + ExitFlag, <<1>>) ELSE k
    /\ app' = [app EXCEPT ![0] = "done"]
    /\ UNCHANGED <<job, launched>>

-----------------------------------------------------------------------------
(* A child, whatever program it is: main() of spawn_child.c.                 *)

\* _start_c(): a word of the page the stack pointer is at, and main()'s arguments.
Word(p, i) == Load(k, p, k.main[p].sp + i)
argc(p)    == Word(p, 0)
argv(p, i) == Word(p, 1 + i)
envp(p, i) == Word(p, 3 + i)

Children == Procs \ {0}

\* It adds one to each character; without a page it ends.
ReadInfo(p) ==
    /\ app[p] = "main"
    /\ IF envp(p, 0) = 0 THEN app' = [app EXCEPT ![p] = "done"] /\ UNCHANGED k
       ELSE LET args == envp(p, 0) + Args
                nr   == Load(k, p, envp(p, 0) + NrArgs)
            IN  /\ nr # Unmapped
                /\ k' = Store(k, p, args, [i \in 1..(nr - 1) |-> Load(k, p, args + i - 1) + 1])
                /\ app' = [app EXCEPT ![p] = "maps"]
    /\ UNCHANGED <<job, launched>>

\* The page again, with the capability that came with the arguments
MapAgain(p) ==
    /\ app[p] = "maps"
    /\ LET mapped == MapPmo(k, p, 0, envp(p, 1), SharedVaddr, VMR_RW)
       IN  /\ k' = mapped[1]
           /\ app' = [app EXCEPT ![p] = IF mapped[2] < 0 THEN "exited" ELSE "reads"]
    /\ UNCHANGED <<job, launched>>

BecomeReady(p) ==
    /\ app[p] = "reads"
    /\ k' = Store(UnmapPmo(k, p, SharedVaddr), p, envp(p, 0) + ReadyFlag, <<1>>)
    /\ app' = [app EXCEPT ![p] = "waits"]
    /\ UNCHANGED <<job, launched>>

WaitForExit(p) ==
    /\ app[p] = "waits"
    /\ Load(k, p, envp(p, 0) + ExitFlag) = 1
    /\ app' = [app EXCEPT ![p] = "done"]
    /\ UNCHANGED <<k, job, launched>>

Child(p) == ReadInfo(p) \/ MapAgain(p) \/ BecomeReady(p) \/ WaitForExit(p)

-----------------------------------------------------------------------------
Init ==
    /\ k = [pmos |-> <<>>, caps |-> [p \in Procs |-> <<>>], maps |-> [p \in Procs |-> {}],
            main |-> [p \in Procs |-> Nobody], next |-> 0, halted |-> FALSE]
    /\ job = [step |-> "idle", req |-> Nobody, elf |-> Nobody, segs |-> <<>>, mapped |-> 0,
              child |-> -1, stack |-> -1, copies |-> <<>>, info |-> -1]
    /\ app = [p \in Procs |-> "none"]
    /\ launched = [p \in Procs |-> Nobody]

Root == CreateRoot \/ LoadCpio \/ PrepareInfo \/ (\E req \in Requests : Spawn(req))
        \/ ReadElf \/ LoadSegment \/ Launch \/ Finish

Next == Root \/ \E p \in Children : Child(p)

\* Every process goes on, as the scheduler promises.
Spec == Init /\ [][Next]_vars /\ WF_vars(Root) /\ \A p \in Children : WF_vars(Child(p))

-----------------------------------------------------------------------------
(* What a launch promises                                                    *)

Runs(p) == k.main[p] # Nobody

\* Process p may use the address as perm says.
PermAt(p, addr) == {vmr.perm : vmr \in RegionsAt(k, p, addr)}

\* The thread of a process starts at the entry point of its program with each of the
\* program's segments in place: the bytes of the file, zeros up to the segment's size
\* in memory (in a child: the kernel's load_binary() leaves that part of the root
\* process as it finds it), the file's permissions and no others.  It takes the
\* archive walk, the parser for the file's class and byte order, the loader and the
\* system calls of a launch together.
ImageExact ==
    \A p \in Procs : Runs(p) =>
        /\ k.main[p].pc = Programs[launched[p].path].entry
        /\ \A part \in Programs[launched[p].path].parts : \A i \in 1..part.memsz :
              /\ PermAt(p, part.vaddr + i - 1) = {part.perm}
              /\ i \in DOMAIN part.bytes => Load(k, p, part.vaddr + i - 1) = part.bytes[i]
              /\ p # 0 /\ i \notin DOMAIN part.bytes => Load(k, p, part.vaddr + i - 1) = 0

\* main() finds its arguments as libmain.c and spawn_child.c read them: its name, then
\* the address of the shared page, then a capability that names the same object as
\* the region at that address, which is the one the parent mapped; and it has a stack
\* to go on with.  The parent wrote them as capability numbers of another process, into
\* an object it never maps.
ArgumentsReachMain ==
    \A p \in Procs : Runs(p) =>
        /\ argc(p) = 1 /\ Load(k, p, argv(p, 0)) = launched[p].path /\ argv(p, 1) = 0
        /\ \A below \in 1..PageSize : PermAt(p, k.main[p].sp - below) = {VMR_RW}
        /\ IF ~launched[p].info THEN envp(p, 0) = 0
           ELSE /\ {vmr.pmo : vmr \in RegionsAt(k, p, envp(p, 0))}
                     = {vmr.pmo : vmr \in RegionsAt(k, 0, InfoVaddr)}
                /\ PermAt(p, envp(p, 0)) = {VMR_RW}
                /\ Obj(k, p, envp(p, 1), "pmo") = Obj(k, 0, job.info, "pmo")
                /\ envp(p, 2) = 0

\* What the child reads by the capability it was given is the parent's message as the
\* child itself changed it by the address it was given, and the parent sees it too.
MessageShared ==
    \A p \in Children : app[p] \in {"reads", "waits"} =>
        LET Changed(q, page) == \A i \in DOMAIN Msg : Load(k, q, page + Args + i - 1) = Msg[i] + 1
        IN  /\ app[p] = "reads" => Changed(p, SharedVaddr)
            /\ Changed(0, InfoVaddr)

\* A file spawn() can launch: two segments in pages of their own, away from the stack.
Pages(part) == ROUND_DOWN(part.vaddr)..(ROUND_UP(part.vaddr + part.memsz) - 1)
Launchable(path) ==
    /\ path \in DOMAIN Programs
    /\ Cardinality(Programs[path].parts) = 2
    /\ \A one, other \in Programs[path].parts : one # other => Pages(one) \cap Pages(other) = {}
    /\ \A part \in Programs[path].parts : Pages(part) \cap (StackBase..(StackTop - 1)) = {}

\* The root process comes to its end and every child it has launched to its own, both
\* sides of the handshake included, whatever was launched before; only a file that
\* cannot be launched stops the root process half-way.
EveryLaunchCompletes ==
    <>[](\/ app[0] = "done" /\ \A p \in Children : launched[p] # Nobody => app[p] = "done"
         \/ app[0] = "exited" /\ ~Launchable(job.req.path))
=============================================================================
