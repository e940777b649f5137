---------------------------- MODULE LaunchProofs ----------------------------
(***************************************************************************)
(* Proofs about Launch, for every ramdisk, every layout of the addresses   *)
(* and every number of launches that the module's assumptions allow.       *)
(*                                                                         *)
(* Objects are numbered in the order they are made, and that is what the   *)
(* invariant is built on: the stack of the root process, its segments, the *)
(* archive and the info page come first, then for each launch the child's  *)
(* segments and its stack.  A launch only ever works on the last ones, so  *)
(* that nothing it does, and nothing another child does but write the info *)
(* page, reaches what has been made for a process that runs.               *)
(***************************************************************************)
EXTENDS Launch, DataLemmas

-----------------------------------------------------------------------------
(* The invariant                                                             *)

IsSeq(s) == Len(s) \in Nat /\ s = [i \in 1..Len(s) |-> s[i]]

CapTypes == {"process", "vmspace", "thread", "pmo"}
Cap      == [type : CapTypes, id : Nat]
Regions  == [start : Nat, size : Nat, perm : Nat, pmo : Nat]

\* What the kernel keeps, but for what is in the cells.
Kernel(kk) ==
    /\ kk = [pmos |-> kk.pmos, caps |-> kk.caps, maps |-> kk.maps, main |-> kk.main,
             next |-> kk.next, halted |-> kk.halted]
    /\ IsSeq(kk.pmos) /\ \A i \in 1..Len(kk.pmos) : IsSeq(kk.pmos[i])
    /\ kk.caps \in [Procs -> Seq(Cap)]
    /\ kk.maps \in [Procs -> SUBSET Regions]
    /\ kk.main = [p \in Procs |-> kk.main[p]]
    /\ kk.next \in 0..(MaxSpawns + 1)

Names(kk, p, cap, type, id) ==
    /\ cap \in Nat /\ cap + 1 \in 1..Len(kk.caps[p])
    /\ kk.caps[p][cap + 1] = [type |-> type, id |-> id]

RootElf    == elf_parse_file(RootCode)
RootPh     == Loadable(RootElf)
NR         == Len(RootPh)
ArchivePmo == NR + 2
InfoPmo    == NR + 3

ElfOf(path) == user_elf_parse_file(FileOf(path))
Ph(path)    == Loadable(ElfOf(path))

Region(start, size, perm, pmo) == [start |-> start, size |-> size, perm |-> perm, pmo |-> pmo]
SegmentAt(ph, pmo) ==
    Region(ROUND_DOWN(ph.p_vaddr), MapSize(ph), PFLAGS2VMRFLAGS(ph.p_flags), pmo)

\* The regions of the root process when it is at a step.
RootImage   == {SegmentAt(RootPh[i], i + 1) : i \in 1..NR}
RootRegions(step) ==
    RootImage \cup {Region(StackBase, StackSize, VMR_RW, 1)}
    \cup (IF step = "main" THEN {} ELSE {Region(CpioBin, Len(Archived), VMR_READ, ArchivePmo)})
    \cup (IF step \in {"main", "info"} THEN {}
          ELSE {Region(InfoVaddr, PageSize, VMR_RW, InfoPmo)})

\* The regions of a child whose objects are the ones after b.
ChildRegions(path, b, m, info, stack, again) ==
    {SegmentAt(Ph(path)[i], b + i) : i \in 1..m}
    \cup (IF info THEN {Region(SharedInfo, PageSize, VMR_RW, InfoPmo)} ELSE {})
    \cup (IF stack THEN {Region(StackBase, StackSize, VMR_RW, b + 3)} ELSE {})
    \cup (IF again THEN {Region(SharedVaddr, PageSize, VMR_RW, InfoPmo)} ELSE {})

\* The regions of a child in the making, when the launch is at a step.
SoFar(req, b, step, m) ==
    ChildRegions(req.path, b, m, req.info /\ step \in {"env", "stack", "thread"},
                 step = "thread", FALSE)

\* The last page of a stack.
EnvAt(kk, pmo, env) ==
    /\ Len(kk.pmos[pmo]) = StackSize
    /\ \A i \in 1..PageSize : kk.pmos[pmo][StackSize - PageSize + i] = env[i]

ChildEnv(req, cap) ==
    construct_init_env(StackTop, Meta(ElfOf(req.path)), req.path,
        IF req.info THEN <<[pmo_cap |-> 0, addr |-> SharedInfo, perm |-> VMR_RW]>> ELSE <<>>,
        IF req.info THEN <<cap>> ELSE <<>>)

SegmentsLoaded(kk, path, b, n) ==
    \A i \in 1..n : kk.pmos[b + i] = SegmentCells(FileOf(path), Ph(path)[i])

RootLoaded(kk) ==
    \A i \in 1..NR :
        LET ph == RootPh[i]
            bytes == FileBytes(RootCode, ph)
        IN  \A j \in DOMAIN bytes :
               kk.pmos[i + 1][ph.p_vaddr - ROUND_DOWN(ph.p_vaddr) + j] = bytes[j]

\* The root process at a step of its main().
RootAt(kk, step) ==
    /\ kk.next >= 1
    /\ kk.maps[0] = RootRegions(step)
    /\ kk.main[0] = [sp |-> StackTop - PageSize, pc |-> RootElf.header.e_entry]
    /\ RootLoaded(kk)
    /\ EnvAt(kk, 1, prepare_env(StackTop, Meta(RootElf), RootPath))
    /\ step = "main" => Len(kk.pmos) = NR + 1
    /\ step = "info" => Len(kk.pmos) = NR + 2
    /\ step \notin {"main", "info"} => Len(kk.pmos) >= NR + 3
    /\ step # "main" => kk.pmos[ArchivePmo] = Archived

\* A child that runs, or is about to.
ChildAt(kk, p, req, b, cap, again) ==
    /\ req \in Requests /\ FileOf(req.path) # ENOENT /\ Len(Ph(req.path)) = 2
    /\ b \in Nat /\ InfoPmo <= b /\ b + 3 <= Len(kk.pmos)
    /\ kk.maps[p] = ChildRegions(req.path, b, 2, req.info, TRUE, again)
    /\ SegmentsLoaded(kk, req.path, b, 2)
    /\ EnvAt(kk, b + 3, ChildEnv(req, cap))
    /\ req.info => Names(kk, p, cap, "pmo", InfoPmo)

RootSteps  == {"none", "main", "info", "launches", "done", "exited", "hangs"}
ChildSteps == {"none", "main", "maps", "reads", "waits", "done", "exited"}
JobSteps   == {"idle", "read", "segments", "map", "caps", "shared", "env", "stack", "thread"}

Typed ==
    /\ Kernel(k)
    /\ app = [p \in Procs |-> app[p]] /\ app[0] \in RootSteps
    /\ \A p \in Children : app[p] \in ChildSteps
    /\ launched = [p \in Procs |-> launched[p]]
    /\ \A p \in Children : launched[p] \in Requests \cup {Nobody}
    /\ job = [step |-> job.step, req |-> job.req, elf |-> job.elf, segs |-> job.segs,
              mapped |-> job.mapped, child |-> job.child, stack |-> job.stack,
              copies |-> job.copies, info |-> job.info]
    /\ job.step \in JobSteps /\ (app[0] # "launches" => job.step = "idle")

\* A process has itself as its first capability; one that is not made yet has nothing.
Unmade ==
    /\ \A p \in Procs : p < k.next => Names(k, p, 0, "process", p)
    /\ \A p \in Procs : p >= k.next =>
        /\ k.caps[p] = <<>> /\ k.maps[p] = {} /\ k.main[p] = Nobody
        /\ app[p] = "none" /\ launched[p] = Nobody

RootOk ==
    IF app[0] = "none" THEN k.next = 0 /\ k.pmos = <<>> /\ ~k.halted
    ELSE /\ RootAt(k, app[0])
         /\ launched[0] = [path |-> RootPath, info |-> FALSE]
         /\ app[0] \notin {"main", "info"} => Names(k, 0, job.info, "pmo", InfoPmo)
         /\ app[0] \in {"main", "info"} => k.next = 1

\* A child runs when it is complete.  Its objects are not above the highest that is done.
ChildGood(kk, p, step, req, top) ==
    /\ step = "none" => kk.main[p] = Nobody
    /\ step # "none" =>
          /\ req \in Requests
          /\ kk.main[p] = [sp |-> StackTop - PageSize, pc |-> ElfOf(req.path).header.e_entry]
          /\ \E b \in 0..Len(kk.pmos), cap \in 0..Len(kk.caps[p]) :
                b + 3 <= top /\ ChildAt(kk, p, req, b, cap, step = "reads")
          /\ step \in {"maps", "reads", "waits"} => req.info
\* One child has the page, and has it changed when it is past main()'s loop.
Informed(p) == launched[p] # Nobody /\ launched[p].info
Changed == \E p \in Children : Informed(p) /\ app[p] \notin {"none", "main"}
InfoOk ==
    /\ \A p, q \in Children : Informed(p) /\ Informed(q) => p = q
    /\ job.step \in {"read", "segments"} /\ job.req.info => \A p \in Children : ~Informed(p)
    /\ app[0] \notin {"none", "main", "info"} =>
          LET page == k.pmos[InfoPmo]
          IN  /\ Len(page) = PageSize /\ page[NrArgs + 1] = Len(Msg) + 1
              /\ \A i \in 1..Len(Msg) : page[Args + i] = IF Changed THEN Msg[i] + 1 ELSE Msg[i]

\* What the job has done so far.  The objects of the child are the last ones.
Base == Len(k.pmos) - (Len(job.segs) + IF job.step \in {"segments", "map"} THEN 0 ELSE 1)
Newest == k.next - 1
Top == IF job.step \in {"idle", "read"} THEN Len(k.pmos) ELSE Base
ChildrenOk == \A p \in Children : ChildGood(k, p, app[p], launched[p], Top)

Segments ==
    \A i \in 1..Len(job.segs) :
        /\ job.segs[i].p_vaddr = Ph(job.req.path)[i].p_vaddr
        /\ job.segs[i].flags = PFLAGS2VMRFLAGS(Ph(job.req.path)[i].p_flags)
        /\ Names(k, 0, job.segs[i].elf_pmo, "pmo", Base + i)
Beginning ==
    job.step # "idle" => job.req \in Requests /\ (job.step = "read" => job.segs = <<>>)
Loading ==
    job.step \notin {"idle", "read"} =>
        /\ FileOf(job.req.path) # ENOENT /\ job.elf = ElfOf(job.req.path)
        /\ IsSeq(job.segs) /\ Len(job.segs) <= Len(Ph(job.req.path))
        /\ Base >= InfoPmo
        /\ Segments
        /\ SegmentsLoaded(k, job.req.path, Base, Len(job.segs))
Making ==
    job.step \notin {"idle", "read", "segments"} =>
        /\ Len(job.segs) = Len(Ph(job.req.path))
        /\ Newest \in Children /\ launched[Newest] = job.req /\ app[Newest] = "none"
        /\ Names(k, 0, job.child, "process", Newest)
        /\ job.mapped \in 0..2 /\ job.mapped <= Len(job.segs)
        /\ job.step # "map" => job.mapped = 2
        /\ k.maps[Newest] = SoFar(job.req, Base, job.step, job.mapped)
Stacked ==
    job.step \in {"caps", "shared", "env", "stack", "thread"} =>
        /\ Names(k, 0, job.stack, "pmo", Base + 3)
        /\ Len(k.pmos[Base + 3]) = StackSize
Sent ==
    job.step \in {"shared", "env", "stack", "thread"} =>
        IF job.req.info THEN /\ job.copies = <<job.copies[1]>>
                             /\ Names(k, Newest, job.copies[1], "pmo", InfoPmo)
        ELSE job.copies = <<>>
Environed ==
    job.step \in {"stack", "thread"} => EnvAt(k, Base + 3, ChildEnv(job.req, job.copies[1]))
Room == job.step \in {"read", "segments"} => k.next <= MaxSpawns

JobOk == Beginning /\ Loading /\ Making /\ Stacked /\ Sent /\ Environed /\ Room

Inv == Typed /\ Unmade /\ RootOk /\ ChildrenOk /\ InfoOk /\ JobOk
-----------------------------------------------------------------------------
(* Sequences of anything                                                     *)

\* A sequence, whatever is in it: its domain, and what it is a sequence of.
LEMMA SequenceIs ==
  ASSUME NEW s, IsSeq(s)
  PROVE  /\ Len(s) \in Nat /\ DOMAIN s = 1..Len(s)
         /\ \A S : (\A i \in 1..Len(s) : s[i] \in S) => s \in Seq(S)
<1>1. DOMAIN s = 1..Len(s) /\ Len(s) \in Nat
  BY DEF IsSeq
<1>2. ASSUME NEW S, \A i \in 1..Len(s) : s[i] \in S PROVE s \in Seq(S)
  <2>1. s \in [1..Len(s) -> S]
    BY <1>2 DEF IsSeq
  <2> QED
    BY <1>1, <2>1, SeqDef
<1> QED
  BY <1>1, <1>2

\* A function on 1..n is a sequence.
LEMMA SequenceOf ==
  ASSUME NEW n \in Nat, NEW s, s = [i \in 1..n |-> s[i]]
  PROVE  IsSeq(s) /\ Len(s) = n
<1>1. s \in [1..n -> {s[i] : i \in 1..n}]
  OBVIOUS
<1>2. s \in Seq({s[i] : i \in 1..n})
  BY <1>1, SeqDef
<1>3. Len(s) = n
  BY <1>1, <1>2, LenProperties
<1> QED
  BY <1>3 DEF IsSeq

\* What Append() gives.
LEMMA Appended ==
  ASSUME NEW s, IsSeq(s), NEW x
  PROVE  /\ IsSeq(Append(s, x)) /\ Len(Append(s, x)) = Len(s) + 1
         /\ Append(s, x)[Len(s) + 1] = x
         /\ \A i \in 1..Len(s) : Append(s, x)[i] = s[i]
<1> DEFINE S == {s[i] : i \in 1..Len(s)} \cup {x}
           t == Append(s, x)
<1>1. s \in Seq(S) /\ x \in S /\ Len(s) \in Nat
  BY SequenceIs
<1> HIDE DEF S
<1>2. /\ t \in Seq(S) /\ Len(t) = Len(s) + 1 /\ t[Len(s) + 1] = x
      /\ \A i \in 1..Len(s) : t[i] = s[i]
  BY <1>1, AppendProperties
<1> HIDE DEF t
<1>3. t = [i \in 1..Len(t) |-> t[i]]
  BY <1>2, IsASeq, LenProperties
<1> QED
  BY <1>1, <1>2, <1>3 DEF IsSeq, t

\* What \o gives.
LEMMA Joined ==
  ASSUME NEW s, IsSeq(s), NEW t, IsSeq(t)
  PROVE  /\ IsSeq(s \o t) /\ Len(s \o t) = Len(s) + Len(t)
         /\ \A i \in 1..Len(s) : (s \o t)[i] = s[i]
         /\ \A i \in 1..Len(t) : (s \o t)[Len(s) + i] = t[i]
<1> DEFINE S == {s[i] : i \in 1..Len(s)} \cup {t[i] : i \in 1..Len(t)}
           u == s \o t
<1>1. s \in Seq(S) /\ t \in Seq(S) /\ Len(s) \in Nat /\ Len(t) \in Nat
  BY SequenceIs
<1> HIDE DEF S
<1>2. /\ u \in Seq(S) /\ Len(u) = Len(s) + Len(t)
      /\ \A i \in 1..Len(u) : u[i] = IF i <= Len(s) THEN s[i] ELSE t[i - Len(s)]
  BY <1>1, ConcatProperties
<1> HIDE DEF u
<1>3. u = [i \in 1..Len(u) |-> u[i]] /\ Len(u) \in Nat
  BY <1>2, LenProperties
<1>4. \A i \in 1..Len(s) : u[i] = s[i]
  BY <1>1, <1>2
<1>5. ASSUME NEW i \in 1..Len(t) PROVE u[Len(s) + i] = t[i]
  <2>1. Len(s) + i \in 1..Len(u) /\ ~(Len(s) + i <= Len(s)) /\ (Len(s) + i) - Len(s) = i
    BY <1>1, <1>2
  <2> QED
    BY <1>2, <2>1
<1> QED
  BY <1>2, <1>3, <1>4, <1>5 DEF IsSeq, u

\* A sequence with one element replaced.
LEMMA Replaced ==
  ASSUME NEW s, IsSeq(s), NEW b \in 1..Len(s), NEW x
  PROVE  LET t == [s EXCEPT ![b] = x]
         IN  /\ IsSeq(t) /\ Len(t) = Len(s) /\ t[b] = x
             /\ \A i \in 1..Len(s) : i # b => t[i] = s[i]
<1> DEFINE t == [s EXCEPT ![b] = x]
<1>1. DOMAIN s = 1..Len(s) /\ Len(s) \in Nat
  BY SequenceIs
<1>2. t = [i \in 1..Len(s) |-> t[i]] /\ t[b] = x /\ \A i \in 1..Len(s) : i # b => t[i] = s[i]
  BY <1>1
<1> HIDE DEF t
<1>3. IsSeq(t) /\ Len(t) = Len(s)
  BY <1>1, <1>2, SequenceOf
<1> QED
  BY <1>2, <1>3 DEF t

-----------------------------------------------------------------------------
(* What the operators of Objects do                                          *)

\* The lengths and domains of what the kernel keeps.
LEMMA KernelIs ==
  ASSUME NEW kk, Kernel(kk)
  PROVE  /\ IsSeq(kk.pmos) /\ Len(kk.pmos) \in Nat /\ DOMAIN kk.pmos = 1..Len(kk.pmos)
         /\ \A i \in 1..Len(kk.pmos) :
               IsSeq(kk.pmos[i]) /\ Len(kk.pmos[i]) \in Nat /\ DOMAIN kk.pmos[i] = 1..Len(kk.pmos[i])
         /\ \A p \in Procs :
               /\ Len(kk.caps[p]) \in Nat /\ kk.caps[p] \in Seq(Cap)
               /\ DOMAIN kk.caps[p] = 1..Len(kk.caps[p]) /\ kk.maps[p] \subseteq Regions
  BY SequenceIs DEF Kernel

\* Capabilities keep their numbers.
Kept(kk, w) ==
    \A p \in Procs :
        /\ Len(kk.caps[p]) <= Len(w.caps[p])
        /\ \A j \in 1..Len(kk.caps[p]) : w.caps[p][j] = kk.caps[p][j]

OnlyCaps(kk, w) ==
    /\ Kernel(w) /\ Kept(kk, w)
    /\ w.pmos = kk.pmos /\ w.maps = kk.maps /\ w.main = kk.main /\ w.next = kk.next
    /\ w.halted = kk.halted

OnlyMaps(kk, w) ==
    /\ Kernel(w)
    /\ w.pmos = kk.pmos /\ w.caps = kk.caps /\ w.main = kk.main /\ w.next = kk.next
    /\ w.halted = kk.halted

OnlyCells(kk, w, b) ==
    /\ Kernel(w)
    /\ w.caps = kk.caps /\ w.maps = kk.maps /\ w.main = kk.main /\ w.next = kk.next
    /\ w.halted = kk.halted
    /\ Len(w.pmos) = Len(kk.pmos) /\ Len(w.pmos[b]) = Len(kk.pmos[b])
    /\ \A i \in 1..Len(kk.pmos) : i # b => w.pmos[i] = kk.pmos[i]

OneMore(kk, w, n) ==
    /\ Kernel(w) /\ Kept(kk, w)
    /\ w.maps = kk.maps /\ w.main = kk.main /\ w.next = kk.next /\ w.halted = kk.halted
    /\ Len(w.pmos) = Len(kk.pmos) + 1
    /\ \A i \in 1..Len(kk.pmos) : w.pmos[i] = kk.pmos[i]
    /\ Len(w.pmos[Len(w.pmos)]) = n
    /\ \A i \in 1..n : w.pmos[Len(w.pmos)][i] = Junk

\* A capability goes on naming what it named, as long as capabilities are only added.
LEMMA NamesKept ==
  ASSUME NEW kk, NEW w, Kernel(kk), Kernel(w), Kept(kk, w), NEW p \in Procs, NEW cap, NEW type, NEW id,
         Names(kk, p, cap, type, id)
  PROVE  Names(w, p, cap, type, id)
<1>1. Len(kk.caps[p]) \in Nat /\ Len(w.caps[p]) \in Nat
  BY KernelIs
<1> QED
  BY <1>1 DEF Kept, Names

\* Two calls in a row keep capabilities.
LEMMA KeptTwice ==
  ASSUME NEW kk, NEW w, NEW x, Kernel(kk), Kernel(w), Kernel(x), Kept(kk, w), Kept(w, x)
  PROVE  Kept(kk, x)
<1>1. \A p \in Procs : Len(kk.caps[p]) \in Nat /\ Len(w.caps[p]) \in Nat /\ Len(x.caps[p]) \in Nat
  BY KernelIs
<1>2. \A p \in Procs : \A j \in 1..Len(kk.caps[p]) : j \in 1..Len(w.caps[p])
  BY <1>1 DEF Kept
<1> QED
  BY <1>1, <1>2 DEF Kept

\* A call that leaves the capabilities alone keeps them.
LEMMA KeptSame ==
  ASSUME NEW kk, NEW w, Kernel(kk), w.caps = kk.caps
  PROVE  Kept(kk, w)
<1>1. \A p \in Procs : Len(kk.caps[p]) \in Nat
  BY KernelIs
<1> QED
  BY <1>1 DEF Kept

\* obj_get() finds what a capability names.
LEMMA Named ==
  ASSUME NEW kk, Kernel(kk), NEW p \in Procs, NEW cap, NEW type, NEW id, Names(kk, p, cap, type, id)
  PROVE  Obj(kk, p, cap, type) = id /\ cap + 1 \in DOMAIN kk.caps[p]
<1>1. cap + 1 \in DOMAIN kk.caps[p]
  BY KernelIs DEF Names
<1> QED
  BY <1>1 DEF Names, Obj

\* cap_alloc()
LEMMA Allocated ==
  ASSUME NEW kk, Kernel(kk), NEW p \in Procs, NEW type \in CapTypes, NEW id \in Nat
  PROVE  LET x == WithCap(kk, p, type, id)
         IN  /\ OnlyCaps(kk, x[1]) /\ Names(x[1], p, x[2], type, id)
             /\ x[2] = Len(kk.caps[p])
             /\ \A q \in Procs : q # p => x[1].caps[q] = kk.caps[q]
<1> DEFINE new == [type |-> type, id |-> id]
           w == [kk EXCEPT !.caps[p] = Append(@, new)]
           n == Len(kk.caps[p])
<1>1. kk.caps \in [Procs -> Seq(Cap)] /\ kk.caps[p] \in Seq(Cap) /\ n \in Nat
  BY KernelIs DEF Kernel
<1>2. w = [kk EXCEPT !.caps = [kk.caps EXCEPT ![p] = Append(kk.caps[p], new)]]
  BY DEF Kernel
<1>3. WithCap(kk, p, type, id) = <<w, n>>
  BY DEF WithCap
<1> HIDE DEF w
<1>0. new \in Cap
  BY DEF Cap
<1>4. /\ Append(kk.caps[p], new) \in Seq(Cap) /\ Len(Append(kk.caps[p], new)) = n + 1
      /\ Append(kk.caps[p], new)[n + 1] = new
      /\ \A j \in 1..n : Append(kk.caps[p], new)[j] = kk.caps[p][j]
  BY <1>0, <1>1
<1> HIDE DEF new
<1>5. /\ w.pmos = kk.pmos /\ w.maps = kk.maps /\ w.main = kk.main /\ w.next = kk.next
      /\ w.halted = kk.halted
      /\ w.caps = [kk.caps EXCEPT ![p] = Append(kk.caps[p], new)]
      /\ w = [pmos |-> w.pmos, caps |-> w.caps, maps |-> w.maps, main |-> w.main,
              next |-> w.next, halted |-> w.halted]
  BY <1>2 DEF Kernel
<1>6. w.caps \in [Procs -> Seq(Cap)]
  BY <1>1, <1>4, <1>5
<1>7. Kernel(w)
  BY <1>5, <1>6 DEF Kernel
<1>8. /\ w.caps[p] = Append(kk.caps[p], new)
      /\ \A q \in Procs : q # p => w.caps[q] = kk.caps[q]
  BY <1>1, <1>5
<1>9. \A q \in Procs : Len(kk.caps[q]) \in Nat
  BY KernelIs
<1>10. Kept(kk, w)
  BY <1>4, <1>8, <1>9 DEF Kept
<1>11. Names(w, p, n, type, id)
  BY <1>1, <1>4, <1>8 DEF Names, new
<1>12. OnlyCaps(kk, w)
  BY <1>5, <1>7, <1>10 DEF OnlyCaps
<1> DEFINE x == WithCap(kk, p, type, id)
<1>13. x[1] = w /\ x[2] = n
  BY <1>3
<1> HIDE DEF x, n
<1> QED
  BY <1>8, <1>11, <1>12, <1>13 DEF x, n

\* cap_copy()
LEMMA Copied ==
  ASSUME NEW kk, Kernel(kk), NEW p \in Procs, NEW q \in Procs, NEW cap, NEW type \in CapTypes,
         NEW id \in Nat, Names(kk, p, cap, type, id)
  PROVE  LET x == CapCopy(kk, p, q, cap)
         IN  OnlyCaps(kk, x[1]) /\ Names(x[1], q, x[2], type, id) /\ x[2] \in Nat
             /\ \A other \in Procs : other # q => x[1].caps[other] = kk.caps[other]
<1>1. CapCopy(kk, p, q, cap) = WithCap(kk, q, type, id)
  BY Named DEF CapCopy, Names
<1> DEFINE x == WithCap(kk, q, type, id)
<1>2. /\ OnlyCaps(kk, x[1]) /\ Names(x[1], q, x[2], type, id)
      /\ \A other \in Procs : other # q => x[1].caps[other] = kk.caps[other]
  BY Allocated
<1> HIDE DEF x
<1> QED
  BY <1>1, <1>2 DEF x, Names

\* sys_create_pmo()
LEMMA Created ==
  ASSUME NEW kk, Kernel(kk), NEW p \in Procs, NEW size, NEW n \in Nat, ROUND_UP(size) = n
  PROVE  LET x == CreatePmo(kk, p, size)
         IN  /\ OneMore(kk, x[1], n) /\ Names(x[1], p, x[2], "pmo", Len(kk.pmos) + 1)
             /\ x[2] = Len(kk.caps[p]) /\ x[2] \in Nat
             /\ \A q \in Procs : q # p => x[1].caps[q] = kk.caps[q]
<1> DEFINE cells == [i \in 1..n |-> Junk]
           w == NewPmo(kk, size)
           m == Len(kk.pmos)
<1>1. w = [kk EXCEPT !.pmos = Append(kk.pmos, cells)]
  BY DEF NewPmo, Kernel
<1>2. IsSeq(kk.pmos) /\ m \in Nat /\ \A i \in 1..m : IsSeq(kk.pmos[i])
  BY KernelIs
<1>3. IsSeq(cells) /\ Len(cells) = n /\ \A i \in 1..n : cells[i] = Junk
  <2>1. cells = [i \in 1..n |-> cells[i]]
    OBVIOUS
  <2>2. \A i \in 1..n : cells[i] = Junk
    OBVIOUS
  <2> HIDE DEF cells
  <2> QED
    BY <2>1, <2>2, SequenceOf
<1> HIDE DEF cells, w
<1>4. /\ w.pmos = Append(kk.pmos, cells) /\ w.maps = kk.maps /\ w.main = kk.main
      /\ w.next = kk.next /\ w.halted = kk.halted /\ w.caps = kk.caps
      /\ w = [pmos |-> w.pmos, caps |-> w.caps, maps |-> w.maps, main |-> w.main,
              next |-> w.next, halted |-> w.halted]
  BY <1>1 DEF Kernel
<1>5. /\ IsSeq(w.pmos) /\ Len(w.pmos) = m + 1 /\ w.pmos[m + 1] = cells
      /\ \A i \in 1..m : w.pmos[i] = kk.pmos[i]
  BY <1>2, <1>4, Appended
<1>6. \A i \in 1..(m + 1) : IsSeq(w.pmos[i])
  BY <1>2, <1>3, <1>5
<1>7. Kernel(w)
  BY <1>4, <1>5, <1>6 DEF Kernel
<1> DEFINE x == WithCap(w, p, "pmo", m + 1)
<1>8. CreatePmo(kk, p, size) = x
  BY DEF CreatePmo, w
<1>9. /\ OnlyCaps(w, x[1]) /\ Names(x[1], p, x[2], "pmo", m + 1) /\ x[2] = Len(w.caps[p])
      /\ \A q \in Procs : q # p => x[1].caps[q] = w.caps[q]
  <2>1. m + 1 \in Nat /\ "pmo" \in CapTypes
    BY <1>2 DEF CapTypes
  <2> QED
    BY <1>7, <2>1, Allocated
<1> HIDE DEF x
<1>10. Kept(kk, x[1])
  <2>1. Kept(kk, w)
    BY <1>4, KeptSame
  <2> QED
    BY <2>1, <1>7, <1>9, KeptTwice DEF OnlyCaps
<1> QED
  BY <1>3, <1>4, <1>5, <1>8, <1>9, <1>10 DEF OnlyCaps, OneMore, Names

\* vmspace_map_range() and sys_unmap_pmo()
LEMMA Mapped ==
  ASSUME NEW kk, Kernel(kk), NEW p \in Procs, NEW addr \in Nat, NEW perm \in Nat,
         NEW pmo \in 1..Len(kk.pmos)
  PROVE  LET w == MapRange(kk, p, addr, perm, pmo)
         IN  /\ OnlyMaps(kk, w)
             /\ w.maps[p] = kk.maps[p] \cup {Region(addr, Len(kk.pmos[pmo]), perm, pmo)}
             /\ \A q \in Procs : q # p => w.maps[q] = kk.maps[q]
<1> DEFINE w == MapRange(kk, p, addr, perm, pmo)
           r == Region(addr, Len(kk.pmos[pmo]), perm, pmo)
<1>1. w = [kk EXCEPT !.maps = [kk.maps EXCEPT ![p] = kk.maps[p] \cup {r}]]
  BY DEF MapRange, Kernel, Region
<1>2. r \in Regions
  BY KernelIs DEF Region, Regions
<1> HIDE DEF w, r
<1>3. /\ w.pmos = kk.pmos /\ w.caps = kk.caps /\ w.main = kk.main /\ w.next = kk.next
      /\ w.halted = kk.halted /\ w.maps = [kk.maps EXCEPT ![p] = kk.maps[p] \cup {r}]
      /\ w = [pmos |-> w.pmos, caps |-> w.caps, maps |-> w.maps, main |-> w.main,
              next |-> w.next, halted |-> w.halted]
  BY <1>1 DEF Kernel
<1>4. kk.maps \in [Procs -> SUBSET Regions]
  BY DEF Kernel
<1>5. /\ w.maps \in [Procs -> SUBSET Regions] /\ w.maps[p] = kk.maps[p] \cup {r}
      /\ \A q \in Procs : q # p => w.maps[q] = kk.maps[q]
  BY <1>2, <1>3, <1>4
<1>6. Kernel(w)
  BY <1>3, <1>5 DEF Kernel
<1> QED
  BY <1>3, <1>5, <1>6 DEF OnlyMaps, w, r

\* sys_unmap_pmo(): only the region at the address goes.
LEMMA Unmaps ==
  ASSUME NEW kk, Kernel(kk), NEW p \in Procs, NEW addr
  PROVE  LET w == UnmapPmo(kk, p, addr)
         IN  /\ OnlyMaps(kk, w)
             /\ w.maps[p] = {vmr \in kk.maps[p] : vmr.start # addr}
             /\ \A q \in Procs : q # p => w.maps[q] = kk.maps[q]
<1> DEFINE w == UnmapPmo(kk, p, addr)
           R == {vmr \in kk.maps[p] : vmr.start # addr}
<1>1. w = [kk EXCEPT !.maps = [kk.maps EXCEPT ![p] = R]]
  BY DEF UnmapPmo, Kernel
<1>4. kk.maps \in [Procs -> SUBSET Regions]
  BY DEF Kernel
<1>2. R \subseteq Regions
  BY <1>4
<1> HIDE DEF w, R
<1>3. /\ w.pmos = kk.pmos /\ w.caps = kk.caps /\ w.main = kk.main /\ w.next = kk.next
      /\ w.halted = kk.halted /\ w.maps = [kk.maps EXCEPT ![p] = R]
      /\ w = [pmos |-> w.pmos, caps |-> w.caps, maps |-> w.maps, main |-> w.main,
              next |-> w.next, halted |-> w.halted]
  BY <1>1 DEF Kernel
<1>5. /\ w.maps \in [Procs -> SUBSET Regions] /\ w.maps[p] = R
      /\ \A q \in Procs : q # p => w.maps[q] = kk.maps[q]
  BY <1>2, <1>3, <1>4
<1>6. Kernel(w)
  BY <1>3, <1>5 DEF Kernel
<1> QED
  BY <1>3, <1>5, <1>6 DEF OnlyMaps, w, R

\* memcpy()
LEMMA Written ==
  ASSUME NEW kk, Kernel(kk), NEW b \in 1..Len(kk.pmos), NEW offset, NEW cells
  PROVE  LET w == WriteObject(kk, b, offset, cells)
         IN  /\ OnlyCells(kk, w, b)
             /\ \A i \in 1..Len(kk.pmos[b]) :
                   w.pmos[b][i] = IF i - offset \in DOMAIN cells THEN cells[i - offset]
                                  ELSE kk.pmos[b][i]
<1> DEFINE w == WriteObject(kk, b, offset, cells)
           old == kk.pmos[b]
           new == [i \in 1..Len(old) |-> IF i - offset \in DOMAIN cells THEN cells[i - offset]
                                         ELSE old[i]]
<1>1. IsSeq(kk.pmos) /\ Len(old) \in Nat /\ DOMAIN old = 1..Len(old) /\ Len(kk.pmos) \in Nat
  BY KernelIs
<1>2. w = [kk EXCEPT !.pmos = [kk.pmos EXCEPT ![b] = new]]
  BY <1>1 DEF WriteObject, Kernel
<1>3. new = [i \in 1..Len(old) |-> new[i]]
  OBVIOUS
<1>4. \A i \in 1..Len(old) : new[i] = IF i - offset \in DOMAIN cells THEN cells[i - offset]
                                      ELSE old[i]
  OBVIOUS
<1> HIDE DEF w, new
<1>5. IsSeq(new) /\ Len(new) = Len(old)
  BY <1>1, <1>3, SequenceOf
<1>6. /\ w.caps = kk.caps /\ w.maps = kk.maps /\ w.main = kk.main /\ w.next = kk.next
      /\ w.halted = kk.halted /\ w.pmos = [kk.pmos EXCEPT ![b] = new]
      /\ w = [pmos |-> w.pmos, caps |-> w.caps, maps |-> w.maps, main |-> w.main,
              next |-> w.next, halted |-> w.halted]
  BY <1>2 DEF Kernel
<1>7. /\ IsSeq(w.pmos) /\ Len(w.pmos) = Len(kk.pmos) /\ w.pmos[b] = new
      /\ \A i \in 1..Len(kk.pmos) : i # b => w.pmos[i] = kk.pmos[i]
  BY <1>1, <1>6, Replaced
<1>8. \A i \in 1..Len(w.pmos) : IsSeq(w.pmos[i])
  BY <1>5, <1>7 DEF Kernel
<1>9. Kernel(w)
  BY <1>6, <1>7, <1>8 DEF Kernel
<1> QED
  BY <1>4, <1>5, <1>6, <1>7, <1>9 DEF OnlyCells, w

PermAtIn(kk, p, addr) == {vmr.perm : vmr \in RegionsAt(kk, p, addr)}
Within(vmr, addr) == vmr.start <= addr /\ addr < vmr.start + vmr.size

\* Process p has cell off of object b at an address, with perm.
CellAt(kk, p, addr, b, off, perm) ==
    /\ Load(kk, p, addr) = kk.pmos[b][off + 1] /\ PermAtIn(kk, p, addr) = {perm}
    /\ {vmr.pmo : vmr \in RegionsAt(kk, p, addr)} = {b}
    /\ \A cells : Store(kk, p, addr, cells) = WriteObject(kk, b, off, cells)

\* What is read and written where one region is.
LEMMA OneRegion ==
  ASSUME NEW kk, NEW p, NEW addr, NEW r, RegionsAt(kk, p, addr) = {r},
         NEW off, addr - r.start = off
  PROVE  CellAt(kk, p, addr, r.pmo, off, r.perm)
<1> DEFINE R == RegionsAt(kk, p, addr)
           v == CHOOSE x \in R : TRUE
<1>1. v = r
  <2> HIDE DEF R
  <2>1. R = {r}
    BY DEF R
  <2> QED
    BY <2>1
<1>2. R # {}
  OBVIOUS
<1>3. Load(kk, p, addr) = kk.pmos[v.pmo][addr - v.start + 1]
  BY <1>2 DEF Load
<1>4. \A cells : Store(kk, p, addr, cells) = WriteObject(kk, v.pmo, addr - v.start, cells)
  BY DEF Store
<1> HIDE DEF v
<1>5. {vmr.pmo : vmr \in R} = {r.pmo} /\ {vmr.perm : vmr \in R} = {r.perm}
  OBVIOUS
<1> QED
  BY <1>1, <1>3, <1>4, <1>5 DEF CellAt, PermAtIn

-----------------------------------------------------------------------------
(* Pages                                                                     *)

\* The sizes and addresses are numbers, and a stack has room for two pages.
LEMMA Sizes ==
  /\ PageSize \in Nat \ {0} /\ StrSize \in Nat \ {0} /\ StackSize \in Nat \ {0}
  /\ {StackBase, TmpVaddr, CpioBin, InfoVaddr, SharedInfo, SharedVaddr} \subseteq Nat
  /\ StackBase + StackSize = StackTop /\ StackTop \in Nat /\ 2 * PageSize <= StackSize
  /\ 40 + 2 * StrSize <= PageSize
<1>1. PageSize \in Nat \ {0} /\ StrSize \in Nat \ {0} /\ StackSize \in Nat \ {0}
      /\ 2 * PageSize <= StackSize /\ 40 + 2 * StrSize <= PageSize
  BY AddressesAssumption
<1>2. {StackBase, TmpVaddr, CpioBin, InfoVaddr, SharedInfo, SharedVaddr} \subseteq Nat
  BY AddressesAssumption
<1> QED
  BY <1>1, <1>2 DEF StackTop

\* Division with its remainder.
LEMMA Remainder ==
  ASSUME NEW x \in Int, NEW d \in Int, d > 0, NEW q \in Int, NEW r \in Int, q = x \div d, r = x % d
  PROVE  x = d * q + r
  BY Z3T(30)

\* The quotient and the remainder of a division, as numbers of their own.
LEMMA Divided ==
  ASSUME NEW x \in Nat, NEW d \in Nat \ {0}
  PROVE  x \div d \in Nat
         /\ \E q \in Nat, r \in 0..(d - 1) : q = x \div d /\ r = x % d /\ x = q * d + r
<1>1. x \div d \in Nat /\ x % d \in 0..(d - 1)
  OBVIOUS
<1>2. PICK q \in Nat, r \in 0..(d - 1) : q = x \div d /\ r = x % d
  BY <1>1
<1>3. x \in Int /\ d \in Int /\ d > 0 /\ q \in Int /\ r \in Int
  OBVIOUS
<1>4. x = d * q + r
  BY <1>2, <1>3, Remainder
<1>5. d * q = q * d
  BY <1>3
<1> QED
  BY <1>1, <1>2, <1>4, <1>5

\* Dividing a multiple and less than one more gives the multiple.
LEMMA Multiple ==
  ASSUME NEW q \in Nat, NEW d \in Nat \ {0}, NEW r \in 0..(d - 1)
  PROVE  (q * d + r) \div d = q
<1> DEFINE x == q * d + r
<1>1. x \in Nat
  <2>1. q * d \in Nat
    OBVIOUS
  <2> QED
    BY <2>1
<1>2. PICK y \in Nat, s \in 0..(d - 1) : y = x \div d /\ x = y * d + s
  <2> HIDE DEF x
  <2> QED
    BY <1>1, Divided
<1>3. y * d + s = q * d + r
  BY <1>2
<1> HIDE DEF x
<1>4. ~(y < q)
  <2> SUFFICES ASSUME y < q PROVE FALSE
    OBVIOUS
  <2>1. PICK e \in Nat : q = y + 1 + e
    <3>1. q - y - 1 \in Nat /\ q = y + 1 + (q - y - 1)
      OBVIOUS
    <3> QED
      BY <3>1
  <2>2. q * d = y * d + d + e * d /\ e * d \in Nat /\ y * d \in Nat
    BY <2>1
  <2> QED
    BY <1>3, <2>2
<1>5. ~(q < y)
  <2> SUFFICES ASSUME q < y PROVE FALSE
    OBVIOUS
  <2>1. PICK e \in Nat : y = q + 1 + e
    <3>1. y - q - 1 \in Nat /\ y = q + 1 + (y - q - 1)
      OBVIOUS
    <3> QED
      BY <3>1
  <2>2. y * d = q * d + d + e * d /\ e * d \in Nat /\ q * d \in Nat
    BY <2>1
  <2> QED
    BY <1>3, <2>2
<1> QED
  BY <1>2, <1>4, <1>5 DEF x

\* ROUND_DOWN() gives the page an address is in.
LEMMA RoundedDown ==
  ASSUME NEW x \in Nat
  PROVE  /\ ROUND_DOWN(x) \in Nat /\ ROUND_DOWN(x) <= x /\ x < ROUND_DOWN(x) + PageSize
         /\ x % PageSize = x - ROUND_DOWN(x)
<1>1. PICK q \in Nat, r \in 0..(PageSize - 1) :
         q = x \div PageSize /\ r = x % PageSize /\ x = q * PageSize + r
  BY Divided, Sizes
<1>2. ROUND_DOWN(x) = q * PageSize
  BY <1>1 DEF ROUND_DOWN
<1>3. q * PageSize \in Nat /\ PageSize \in Nat
  BY Sizes
<1> DEFINE m == q * PageSize
<1>4. m \in Nat /\ x = m + r /\ ROUND_DOWN(x) = m
  BY <1>1, <1>2, <1>3
<1> HIDE DEF m
<1>5. x - m = r /\ m <= x /\ x < m + PageSize
  BY <1>3, <1>4
<1> QED
  BY <1>1, <1>4, <1>5

\* ROUND_UP() gives no less than it is given, and leaves a number of pages alone.
LEMMA RoundedUp ==
  ASSUME NEW x \in Nat
  PROVE  /\ ROUND_UP(x) \in Nat /\ x <= ROUND_UP(x)
         /\ ROUND_UP(x * PageSize) = x * PageSize
<1>1. PageSize \in Nat \ {0}
  BY Sizes
<1> DEFINE y == x + PageSize - 1
<1>2. y \in Nat /\ ROUND_UP(x) = ROUND_DOWN(y)
  BY <1>1 DEF ROUND_UP
<1>3. ROUND_DOWN(y) \in Nat /\ y < ROUND_DOWN(y) + PageSize
  <2> HIDE DEF y
  <2> QED
    BY <1>2, RoundedDown
<1>4. ROUND_UP(x) \in Nat /\ x <= ROUND_UP(x)
  BY <1>1, <1>2, <1>3
<1> DEFINE m == x * PageSize
           r == PageSize - 1
<1>5. r \in 0..(PageSize - 1) /\ m \in Nat
  BY <1>1
<1>6. (m + r) \div PageSize = x
  BY <1>1, <1>5, Multiple
<1>7. m + PageSize - 1 = m + r
  BY <1>1, <1>5
<1> HIDE DEF m, r
<1>8. ROUND_UP(m) = x * PageSize
  BY <1>6, <1>7 DEF ROUND_UP, ROUND_DOWN
<1> QED
  BY <1>4, <1>8 DEF m

PageHeader ==
    [p_type : Nat, p_flags : Nat, p_offset : Nat, p_vaddr : Nat,
     p_paddr : Nat, p_filesz : Nat, p_memsz : Nat \ {0}, p_align : Nat]

\* A segment: where its pages begin, and how many cells they have.
LEMMA SegmentPages ==
  ASSUME NEW ph \in PageHeader
  PROVE  /\ ROUND_DOWN(ph.p_vaddr) \in Nat /\ ph.p_vaddr \in Nat /\ ph.p_memsz \in Nat \ {0}
         /\ ROUND_DOWN(ph.p_vaddr) <= ph.p_vaddr
         /\ MapSize(ph) \in Nat \ {0} /\ ROUND_UP(MapSize(ph)) = MapSize(ph)
         /\ ph.p_vaddr - ROUND_DOWN(ph.p_vaddr) + ph.p_memsz <= MapSize(ph)
         /\ ph.p_vaddr % PageSize = ph.p_vaddr - ROUND_DOWN(ph.p_vaddr)
         /\ PFLAGS2VMRFLAGS(ph.p_flags) \in Nat
<1> DEFINE v == ph.p_vaddr
           e == ph.p_memsz + v
           a == (e + PageSize - 1) \div PageSize
           b == v \div PageSize
<1>1. v \in Nat /\ ph.p_memsz \in Nat \ {0} /\ ph.p_flags \in Nat /\ e \in Nat
  BY DEF PageHeader
<1>2. ROUND_UP(e) = a * PageSize /\ ROUND_DOWN(v) = b * PageSize
  BY DEF ROUND_UP, ROUND_DOWN
<1>3. /\ ROUND_UP(e) \in Nat /\ e <= ROUND_UP(e)
      /\ ROUND_DOWN(v) \in Nat /\ ROUND_DOWN(v) <= v /\ v % PageSize = v - ROUND_DOWN(v)
  <2> HIDE DEF v, e
  <2> QED
    BY <1>1, RoundedUp, RoundedDown
<1>4. MapSize(ph) = ROUND_UP(e) - ROUND_DOWN(v)
  BY DEF MapSize
<1>5. MapSize(ph) \in Nat \ {0} /\ v - ROUND_DOWN(v) + ph.p_memsz <= MapSize(ph)
  BY <1>1, <1>3, <1>4
<1>6. a \in Nat /\ b \in Nat /\ PageSize \in Nat \ {0}
  <2>1. e + PageSize - 1 \in Nat /\ PageSize \in Nat \ {0}
    BY <1>1, Sizes
  <2> HIDE DEF e, v
  <2> QED
    BY <1>1, <2>1, Divided
<1> HIDE DEF v, e, a, b
<1>7. a - b \in Nat /\ MapSize(ph) = (a - b) * PageSize
  <2>1. MapSize(ph) = (a - b) * PageSize
    BY <1>2, <1>4, <1>6
  <2>2. ~(a < b)
    <3> SUFFICES ASSUME a < b PROVE FALSE
      OBVIOUS
    <3>1. PICK n \in Nat : b = a + n
      <4>1. b - a \in Nat /\ b = a + (b - a)
        BY <1>6
      <4> QED
        BY <4>1
    <3>2. b * PageSize = a * PageSize + n * PageSize /\ n * PageSize \in Nat /\ a * PageSize \in Nat
      BY <1>6, <3>1
    <3> QED
      BY <1>2, <1>4, <1>5, <3>2
  <2> QED
    BY <1>6, <2>1, <2>2
<1>8. ROUND_UP(MapSize(ph)) = MapSize(ph)
  BY <1>7, RoundedUp
<1>9. PFLAGS2VMRFLAGS(ph.p_flags) \in Nat
  BY <1>1 DEF PFLAGS2VMRFLAGS, PF_X, PF_W, PF_R, VMR_READ, VMR_WRITE, VMR_EXEC
<1> QED
  BY <1>1, <1>3, <1>5, <1>8, <1>9 DEF v

\* The areas of the loader and of main() are whole pages.
LEMMA PageAreas ==
  /\ ROUND_UP(PageSize) = PageSize /\ ROUND_UP(StackSize) = StackSize
  /\ ROUND_DOWN(StackBase) = StackBase /\ ROUND_DOWN(TmpVaddr) = TmpVaddr
  /\ ROUND_DOWN(CpioBin) = CpioBin /\ ROUND_DOWN(InfoVaddr) = InfoVaddr
  /\ ROUND_DOWN(SharedInfo) = SharedInfo /\ ROUND_DOWN(SharedVaddr) = SharedVaddr
  /\ VMR_RW \in Nat /\ VMR_READ \in Nat
<1>1. ROUND_UP(1 * PageSize) = 1 * PageSize
  BY RoundedUp
<1>2. 1 * PageSize = PageSize
  BY Sizes
<1> QED
  BY <1>1, <1>2, AddressesAssumption DEF VMR_RW, VMR_READ, VMR_WRITE

-----------------------------------------------------------------------------
(* System calls                                                              *)

\* Processes are numbers, the root process among them.
LEMMA ProcsAre == 0 \in Procs /\ Procs \subseteq Nat /\ MaxSpawns \in Nat /\ Nobody \notin Nat
  BY RequestsAssumption DEF Procs

\* Process q has region r too.
WithRegion(kk, w, q, r) ==
    /\ Kernel(w) /\ Kept(kk, w)
    /\ w.pmos = kk.pmos /\ w.main = kk.main /\ w.next = kk.next /\ w.halted = kk.halted
    /\ w.maps[q] = kk.maps[q] \cup {r}
    /\ \A other \in Procs : other # q => /\ w.maps[other] = kk.maps[other]
                                        /\ w.caps[other] = kk.caps[other]

\* sys_map_pmo()
LEMMA MapsObject ==
  ASSUME NEW kk, Kernel(kk), NEW p \in Procs, NEW q \in Procs, NEW target, NEW cap,
         Names(kk, p, target, "process", q),
         NEW pmo \in 1..Len(kk.pmos), Names(kk, p, cap, "pmo", pmo),
         NEW addr, NEW at \in Nat, ROUND_DOWN(addr) = at, NEW perm \in Nat
  PROVE  LET x == MapPmo(kk, p, target, cap, addr, perm)
             n == Len(kk.pmos[pmo])
         IN  IF Clashes(kk, q, at, n) THEN x[1] = kk /\ x[2] = EPERM
             ELSE x[2] \in Nat /\ WithRegion(kk, x[1], q, Region(at, n, perm, pmo))
<1> DEFINE x == MapPmo(kk, p, target, cap, addr, perm)
           n == Len(kk.pmos[pmo])
           w == MapRange(kk, q, at, perm, pmo)
<1>1. Obj(kk, p, cap, "pmo") = pmo /\ Obj(kk, p, target, "process") = q
  BY Named
<1>2. pmo \in Nat /\ q \in Nat /\ Nobody \notin Nat
  BY ProcsAre, KernelIs
<1>3. x = IF Clashes(kk, q, at, n) THEN <<kk, EPERM>>
          ELSE IF q = p THEN <<w, 0>> ELSE CapCopy(w, p, q, cap)
  BY <1>1, <1>2 DEF MapPmo
<1>4. /\ OnlyMaps(kk, w) /\ w.maps[q] = kk.maps[q] \cup {Region(at, n, perm, pmo)}
      /\ \A other \in Procs : other # q => w.maps[other] = kk.maps[other]
  BY Mapped
<1> HIDE DEF w, n, x
<1>5. CASE Clashes(kk, q, at, n)
  BY <1>3, <1>5 DEF x, n
<1>6. CASE ~Clashes(kk, q, at, n) /\ q = p
  <2>1. x[1] = w /\ x[2] = 0
    BY <1>3, <1>6
  <2>2. Kept(kk, w)
    BY <1>4, KeptSame DEF OnlyMaps
  <2> QED
    BY <1>4, <1>6, <2>1, <2>2 DEF x, n, OnlyMaps, WithRegion
<1>7. CASE ~Clashes(kk, q, at, n) /\ q # p
  <2>1. x = CapCopy(w, p, q, cap)
    BY <1>3, <1>7
  <2>2. Names(w, p, cap, "pmo", pmo) /\ "pmo" \in CapTypes
    BY <1>4 DEF OnlyMaps, Names, CapTypes
  <2>3. OnlyCaps(w, x[1]) /\ x[2] \in Nat
        /\ \A other \in Procs : other # q => x[1].caps[other] = w.caps[other]
    <3> DEFINE y == CapCopy(w, p, q, cap)
               Then(type, id) ==
                  /\ OnlyCaps(w, y[1]) /\ y[2] \in Nat
                  /\ \A other \in Procs : other # q => y[1].caps[other] = w.caps[other]
    <3>1. Kernel(w) /\ "pmo" \in CapTypes /\ pmo \in Nat
      BY <1>2, <1>4, <2>2 DEF OnlyMaps
    <3>2. \A type \in CapTypes : \A id \in Nat : Names(w, p, cap, type, id) => Then(type, id)
      BY <3>1, Copied
    <3>3. Then("pmo", pmo)
      BY <2>2, <3>1, <3>2, Zenon
    <3> QED
      BY <2>1, <3>3
  <2>4. Kept(kk, x[1])
    <3>1. Kept(kk, w) /\ Kernel(w)
      BY <1>4, KeptSame DEF OnlyMaps
    <3> QED
      BY <2>3, <3>1, KeptTwice DEF OnlyCaps
  <2> QED
    BY <1>4, <1>7, <2>3, <2>4 DEF x, n, OnlyMaps, OnlyCaps, WithRegion
<1> QED
  BY <1>5, <1>6, <1>7

\* Regions that are apart from a new one do not keep it out.
LEMMA NoClash ==
  ASSUME NEW kk, Kernel(kk), NEW p \in Procs, NEW at \in Nat, NEW n \in Nat \ {0},
         \A r \in kk.maps[p] : Apart(at, n, r.start, r.size)
  PROVE  ~Clashes(kk, p, at, n)
<1> SUFFICES ASSUME NEW r \in kk.maps[p], NEW end \in {at, at + n - 1},
                    r.start <= end, end < r.start + r.size
             PROVE  FALSE
  BY DEF Clashes
<1>1. r.start \in Nat /\ r.size \in Nat /\ Apart(at, n, r.start, r.size)
  BY KernelIs DEF Regions
<1> QED
  BY <1>1 DEF Apart

\* sys_map_pmos() with one request, or none
LEMMA MapsOne ==
  ASSUME NEW kk, NEW p, NEW target, NEW req
  PROVE  /\ MapPmos(kk, p, target, <<>>) = kk
         /\ MapPmos(kk, p, target, <<req>>)
              = MapPmo(kk, p, target, req.pmo_cap, req.addr, req.perm)[1]
<1>1. MapPmos(kk, p, target, <<>>) = kk
  <2> DEFINE Body(f, i, reqs) == IF i = 0 THEN kk
                 ELSE MapPmo(f[i - 1], p, target, reqs[i].pmo_cap, reqs[i].addr, reqs[i].perm)[1]
             none == <<>>
             after == CHOOSE f : f = [i \in 0..Len(none) |-> Body(f, i, none)]
  <2>1. MapPmos(kk, p, target, none) = after[Len(none)]
    BY Zenon DEF MapPmos
  <2>2. Len(none) = 0
    OBVIOUS
  <2>3. \E f : f = [i \in 0..0 |-> Body(f, i, none)]
    <3> DEFINE f == [i \in 0..0 |-> kk]
    <3>1. f = [i \in 0..0 |-> Body(f, i, none)]
      OBVIOUS
    <3> QED
      BY <3>1
  <2>4. after = [i \in 0..0 |-> Body(after, i, none)]
    <3> HIDE DEF Body
    <3> QED
      BY <2>2, <2>3
  <2> HIDE DEF after
  <2>5. after[0] = Body(after, 0, none)
    <3> HIDE DEF Body
    <3>1. 0 \in 0..0
      OBVIOUS
    <3> QED
      BY <2>4, <3>1
  <2> QED
    BY <2>1, <2>2, <2>5
<1>2. MapPmos(kk, p, target, <<req>>) = MapPmo(kk, p, target, req.pmo_cap, req.addr, req.perm)[1]
  <2> DEFINE one == <<req>>
             Then(g) == MapPmo(g, p, target, req.pmo_cap, req.addr, req.perm)[1]
             Body(f, i, reqs) == IF i = 0 THEN kk
                 ELSE MapPmo(f[i - 1], p, target, reqs[i].pmo_cap, reqs[i].addr, reqs[i].perm)[1]
             after == CHOOSE f : f = [i \in 0..Len(one) |-> Body(f, i, one)]
  <2>1. MapPmos(kk, p, target, one) = after[Len(one)]
    BY Zenon DEF MapPmos
  <2>2. Len(one) = 1 /\ one[1] = req
    OBVIOUS
  <2>6. \A f : \A i \in 0..1 : Body(f, i, one) = IF i = 0 THEN kk ELSE Then(f[0])
    <3> SUFFICES ASSUME NEW f, NEW i \in 0..1
                 PROVE  Body(f, i, one) = IF i = 0 THEN kk ELSE Then(f[0])
      OBVIOUS
    <3>1. i = 0 \/ (i = 1 /\ i - 1 = 0)
      OBVIOUS
    <3> HIDE DEF one
    <3> QED
      BY <2>2, <3>1
  <2>3. \E f : f = [i \in 0..1 |-> Body(f, i, one)]
    <3> DEFINE f == [i \in 0..1 |-> IF i = 0 THEN kk ELSE Then(kk)]
    <3>1. f[0] = kk
      <4> HIDE DEF Then
      <4> QED
        OBVIOUS
    <3>2. \A i \in 0..1 : Body(f, i, one) = IF i = 0 THEN kk ELSE Then(kk)
      <4> HIDE DEF f, Body, Then
      <4> QED
        BY <2>6, <3>1
    <3>3. f = [i \in 0..1 |-> Body(f, i, one)]
      <4> HIDE DEF Body, Then
      <4> QED
        BY <3>2
    <3> QED
      BY <3>3
  <2>4. after = [i \in 0..1 |-> Body(after, i, one)]
    <3> HIDE DEF Body
    <3> QED
      BY <2>2, <2>3
  <2> HIDE DEF after
  <2>5. after[0] = kk /\ after[1] = Then(after[0])
    <3>1. after[0] = Body(after, 0, one) /\ after[1] = Body(after, 1, one)
      <4> HIDE DEF Body
      <4>1. 0 \in 0..1 /\ 1 \in 0..1
        OBVIOUS
      <4> QED
        BY <2>4, <4>1
    <3> HIDE DEF Then, Body
    <3> QED
      BY <2>6, <3>1
  <2> QED
    BY <2>1, <2>2, <2>5
<1> QED
  BY <1>1, <1>2

\* sys_transfer_caps() with one capability, or none
LEMMA TransfersOne ==
  ASSUME NEW kk, NEW p, NEW q, NEW cap
  PROVE  /\ TransferCapsTo(kk, p, q, <<>>) = <<kk, <<>>>>
         /\ TransferCapsTo(kk, p, q, <<cap>>)
              = <<CapCopy(kk, p, q, cap)[1], <<CapCopy(kk, p, q, cap)[2]>>>>
<1> DEFINE Step(g, c) == LET copy == CapCopy(g[1], p, q, c) IN <<copy[1], Append(g[2], copy[2])>>
           start == <<kk, <<>>>>
           Body(f, i, caps) == IF i = 0 THEN start ELSE Step(f[i - 1], caps[i])
<1>1. TransferCapsTo(kk, p, q, <<>>) = start
  <2> DEFINE none == <<>>
             after == CHOOSE f : f = [i \in 0..Len(none) |-> Body(f, i, none)]
  <2>1. TransferCapsTo(kk, p, q, none) = after[Len(none)]
    BY Zenon DEF TransferCapsTo
  <2>2. Len(none) = 0
    OBVIOUS
  <2>3. \E f : f = [i \in 0..0 |-> Body(f, i, none)]
    <3> DEFINE f == [i \in 0..0 |-> start]
    <3> HIDE DEF Step, start
    <3>1. f = [i \in 0..0 |-> Body(f, i, none)]
      OBVIOUS
    <3> QED
      BY <3>1
  <2>4. after = [i \in 0..0 |-> Body(after, i, none)]
    <3> HIDE DEF Body
    <3> QED
      BY <2>2, <2>3
  <2> HIDE DEF after, Step, start
  <2>5. after[0] = Body(after, 0, none)
    <3> HIDE DEF Body
    <3>1. 0 \in 0..0
      OBVIOUS
    <3> QED
      BY <2>4, <3>1
  <2> QED
    BY <2>1, <2>2, <2>5
<1>2. TransferCapsTo(kk, p, q, <<cap>>) = Step(start, cap)
  <2> DEFINE one == <<cap>>
             Then(g) == Step(g, cap)
             after == CHOOSE f : f = [i \in 0..Len(one) |-> Body(f, i, one)]
  <2>1. TransferCapsTo(kk, p, q, one) = after[Len(one)]
    BY Zenon DEF TransferCapsTo
  <2>2. Len(one) = 1 /\ one[1] = cap
    OBVIOUS
  <2>6. \A f : \A i \in 0..1 : Body(f, i, one) = IF i = 0 THEN start ELSE Then(f[0])
    <3> SUFFICES ASSUME NEW f, NEW i \in 0..1
                 PROVE  Body(f, i, one) = IF i = 0 THEN start ELSE Then(f[0])
      OBVIOUS
    <3>1. i = 0 \/ (i = 1 /\ i - 1 = 0)
      OBVIOUS
    <3> HIDE DEF one, Step, start
    <3> QED
      BY <2>2, <3>1
  <2>3. \E f : f = [i \in 0..1 |-> Body(f, i, one)]
    <3> DEFINE f == [i \in 0..1 |-> IF i = 0 THEN start ELSE Then(start)]
    <3>1. f[0] = start
      <4> HIDE DEF Then, start
      <4> QED
        OBVIOUS
    <3>2. \A i \in 0..1 : Body(f, i, one) = IF i = 0 THEN start ELSE Then(start)
      <4> HIDE DEF f, Body, Then, start
      <4> QED
        BY <2>6, <3>1
    <3>3. f = [i \in 0..1 |-> Body(f, i, one)]
      <4> HIDE DEF Body, Then, start
      <4> QED
        BY <3>2
    <3> QED
      BY <3>3
  <2>4. after = [i \in 0..1 |-> Body(after, i, one)]
    <3> HIDE DEF Body
    <3> QED
      BY <2>2, <2>3
  <2> HIDE DEF after
  <2>5. after[0] = start /\ after[1] = Then(after[0])
    <3>1. after[0] = Body(after, 0, one) /\ after[1] = Body(after, 1, one)
      <4> HIDE DEF Body
      <4>1. 0 \in 0..1 /\ 1 \in 0..1
        OBVIOUS
      <4> QED
        BY <2>4, <4>1
    <3> HIDE DEF Then, Body, start
    <3> QED
      BY <2>6, <3>1
  <2> HIDE DEF Step, start
  <2> QED
    BY <2>1, <2>2, <2>5
<1> QED
  BY <1>1, <1>2

\* sys_create_process()
MadeProcess(kk, w, q) ==
    /\ Kernel(w) /\ Kept(kk, w)
    /\ w.pmos = kk.pmos /\ w.maps = kk.maps /\ w.main = kk.main /\ w.halted = kk.halted
    /\ w.next = q + 1 /\ Names(w, q, 0, "process", q)

\* A new process has itself as its first capability.
LEMMA MakesProcess ==
  ASSUME NEW kk, Kernel(kk), NEW q \in Procs, kk.caps[q] = <<>>
  PROVE  LET w == NewProcess(kk, q)
         IN  /\ MadeProcess(kk, w, q)
             /\ \A other \in Procs : other # q => w.caps[other] = kk.caps[other]
<1> DEFINE w == NewProcess(kk, q)
           first == [type |-> "process", id |-> q]
           second == [type |-> "vmspace", id |-> q]
           caps == <<first, second>>
<1>1. w = [kk EXCEPT !.caps = [kk.caps EXCEPT ![q] = caps], !.next = q + 1]
  BY DEF NewProcess, Kernel
<1>2. q \in 0..MaxSpawns /\ MaxSpawns \in Nat
  BY ProcsAre DEF Procs
<1>3. first \in Cap /\ second \in Cap
  BY <1>2 DEF Cap, CapTypes
<1> HIDE DEF first, second
<1>4. caps \in Seq(Cap) /\ Len(caps) = 2 /\ caps[1] = first
  BY <1>3
<1> HIDE DEF w, caps
<1>5. /\ w.pmos = kk.pmos /\ w.maps = kk.maps /\ w.main = kk.main /\ w.next = q + 1
      /\ w.halted = kk.halted
      /\ w.caps = [kk.caps EXCEPT ![q] = caps]
      /\ w = [pmos |-> w.pmos, caps |-> w.caps, maps |-> w.maps, main |-> w.main,
              next |-> w.next, halted |-> w.halted]
  BY <1>1 DEF Kernel
<1>6. kk.caps \in [Procs -> Seq(Cap)]
  BY DEF Kernel
<1>7. /\ w.caps \in [Procs -> Seq(Cap)] /\ w.caps[q] = caps
      /\ \A other \in Procs : other # q => w.caps[other] = kk.caps[other]
  BY <1>4, <1>5, <1>6
<1>8. w.next \in 0..(MaxSpawns + 1)
  BY <1>2, <1>5
<1>9. Kernel(w)
  BY <1>5, <1>7, <1>8 DEF Kernel
<1>10. Kept(kk, w)
  <2>1. \A other \in Procs : Len(kk.caps[other]) \in Nat
    BY KernelIs
  <2>2. Len(kk.caps[q]) = 0 /\ Len(w.caps[q]) = 2
    BY <1>4, <1>7
  <2>3. ASSUME NEW other \in Procs
        PROVE  /\ Len(kk.caps[other]) <= Len(w.caps[other])
               /\ \A j \in 1..Len(kk.caps[other]) : w.caps[other][j] = kk.caps[other][j]
    <3>1. CASE other = q
      BY <2>2, <3>1
    <3>2. CASE other # q
      BY <1>7, <2>1, <3>2
    <3> QED
      BY <3>1, <3>2
  <2> QED
    BY <2>3 DEF Kept
<1>11. Names(w, q, 0, "process", q)
  <2>0. w.caps[q] = caps
    BY <1>7
  <2>1. 0 \in Nat /\ 0 + 1 = 1
    OBVIOUS
  <2>2. Len(w.caps[q]) = 2
    BY <1>4, <2>0
  <2>3. w.caps[q][1] = first
    BY <1>4, <2>0
  <2>4. 0 \in Nat /\ 0 + 1 = 1 /\ 1 \in 1..Len(w.caps[q]) /\ w.caps[q][1] = first
    BY <2>1, <2>2, <2>3
  <2>5. w.caps[q][0 + 1] = first /\ 0 + 1 \in 1..Len(w.caps[q])
    BY <2>4
  <2> QED
    BY <2>4, <2>5, Zenon DEF Names, first
<1> QED
  BY <1>5, <1>7, <1>9, <1>10, <1>11 DEF MadeProcess, w

\* sys_create_process(): a new process, and a capability for it in the caller.
LEMMA CreatesProcess ==
  ASSUME NEW kk, Kernel(kk), NEW p \in Procs, NEW q \in Procs, kk.next = q, kk.caps[q] = <<>>
  PROVE  LET x == CreateProcess(kk, p)
         IN  /\ MadeProcess(kk, x[1], q) /\ Names(x[1], p, x[2], "process", q)
             /\ \A other \in Procs \ {p, q} : x[1].caps[other] = kk.caps[other]
<1> DEFINE w == NewProcess(kk, q)
           x == WithCap(w, p, "process", q)
<1>1. CreateProcess(kk, p) = x
  BY DEF CreateProcess
<1>2. /\ MadeProcess(kk, w, q)
      /\ \A other \in Procs : other # q => w.caps[other] = kk.caps[other]
  BY MakesProcess
<1> HIDE DEF w
<1>3. "process" \in CapTypes /\ q \in Nat
  BY ProcsAre DEF CapTypes
<1>4. /\ OnlyCaps(w, x[1]) /\ Names(x[1], p, x[2], "process", q)
      /\ \A other \in Procs : other # p => x[1].caps[other] = w.caps[other]
  BY <1>2, <1>3, Allocated DEF MadeProcess
<1> HIDE DEF x
<1>5. Kept(kk, x[1]) /\ Names(x[1], q, 0, "process", q)
  BY <1>2, <1>4, KeptTwice, NamesKept DEF MadeProcess, OnlyCaps
<1> QED
  BY <1>1, <1>2, <1>4, <1>5 DEF MadeProcess, OnlyCaps

\* sys_create_thread()
StartedThread(kk, w, q, main) ==
    /\ Kernel(w) /\ Kept(kk, w)
    /\ w.pmos = kk.pmos /\ w.maps = kk.maps /\ w.next = kk.next /\ w.halted = kk.halted
    /\ w.main = [kk.main EXCEPT ![q] = main]

\* A process gets its main thread.
LEMMA SetsMain ==
  ASSUME NEW kk, Kernel(kk), NEW q \in Procs, NEW main
  PROVE  LET w == [kk EXCEPT !.main[q] = main]
         IN  StartedThread(kk, w, q, main) /\ w.caps = kk.caps
<1> DEFINE w == [kk EXCEPT !.main[q] = main]
<1>1. w = [kk EXCEPT !.main = [kk.main EXCEPT ![q] = main]]
  BY DEF Kernel
<1> HIDE DEF w
<1>2. /\ w.pmos = kk.pmos /\ w.caps = kk.caps /\ w.maps = kk.maps /\ w.next = kk.next
      /\ w.halted = kk.halted /\ w.main = [kk.main EXCEPT ![q] = main]
      /\ w = [pmos |-> w.pmos, caps |-> w.caps, maps |-> w.maps, main |-> w.main,
              next |-> w.next, halted |-> w.halted]
  BY <1>1 DEF Kernel
<1>3. w.main = [p \in Procs |-> w.main[p]]
  BY <1>2 DEF Kernel
<1>4. Kernel(w)
  BY <1>2, <1>3 DEF Kernel
<1> QED
  BY <1>2, <1>4, KeptSame DEF StartedThread, w

\* sys_create_thread(): the target process runs, and both know the thread.
LEMMA CreatesThread ==
  ASSUME NEW kk, Kernel(kk), NEW p \in Procs, NEW q \in Procs, NEW target, NEW sp, NEW pc,
         Names(kk, p, target, "process", q)
  PROVE  LET x == CreateThread(kk, p, target, sp, pc)
         IN  /\ StartedThread(kk, x[1], q, [sp |-> sp, pc |-> pc]) /\ x[2] \in Nat
             /\ \A other \in Procs \ {p, q} : x[1].caps[other] = kk.caps[other]
<1> DEFINE main == [sp |-> sp, pc |-> pc]
           w == [kk EXCEPT !.main[q] = main]
           made == WithCap(w, q, "thread", q)
           x == CapCopy(made[1], q, p, made[2])
<1>1. CreateThread(kk, p, target, sp, pc) = x
  BY Named DEF CreateThread
<1>2. StartedThread(kk, w, q, main) /\ w.caps = kk.caps
  BY SetsMain
<1> HIDE DEF w, main
<1>3. "thread" \in CapTypes /\ q \in Nat
  BY ProcsAre DEF CapTypes
<1>4. /\ OnlyCaps(w, made[1]) /\ Names(made[1], q, made[2], "thread", q)
      /\ \A other \in Procs : other # q => made[1].caps[other] = w.caps[other]
  BY <1>2, <1>3, Allocated DEF StartedThread
<1> HIDE DEF made
<1>5. /\ OnlyCaps(made[1], x[1]) /\ x[2] \in Nat
      /\ \A other \in Procs : other # p => x[1].caps[other] = made[1].caps[other]
  BY <1>3, <1>4, Copied DEF OnlyCaps
<1> HIDE DEF x
<1>6. Kept(kk, x[1])
  <2>1. Kept(kk, made[1])
    BY <1>2, <1>4, KeptTwice DEF OnlyCaps, StartedThread
  <2> QED
    BY <1>4, <1>5, <2>1, KeptTwice DEF OnlyCaps
<1> QED
  BY <1>1, <1>2, <1>4, <1>5, <1>6 DEF OnlyCaps, StartedThread, main

\* sys_write_pmo()
LEMMA Writes ==
  ASSUME NEW kk, Kernel(kk), NEW p \in Procs, NEW cap, NEW pmo \in 1..Len(kk.pmos),
         Names(kk, p, cap, "pmo", pmo), NEW offset \in Nat, NEW cells, IsSeq(cells),
         offset + Len(cells) <= Len(kk.pmos[pmo])
  PROVE  WritePmo(kk, p, cap, offset, cells) = <<WriteObject(kk, pmo, offset, cells), 0>>
<1>1. Obj(kk, p, cap, "pmo") = pmo /\ pmo # Nobody
  BY Named, ProcsAre, KernelIs
<1>2. Len(cells) \in Nat /\ Len(kk.pmos[pmo]) \in Nat
  BY KernelIs DEF IsSeq
<1> QED
  BY <1>1, <1>2 DEF WritePmo

-----------------------------------------------------------------------------
(* Where things are in an address space                                      *)

\* Regions that have cells, and no cell in common.
Separate(R) ==
    /\ R \subseteq Regions
    /\ \A r \in R : r.size # 0
    /\ \A r, s \in R : r = s \/ Apart(r.start, r.size, s.start, s.size)

\* Where regions do not overlap, an address is in one of them only.
LEMMA InRegion ==
  ASSUME NEW kk, NEW p, Separate(kk.maps[p]), NEW r \in kk.maps[p], NEW addr \in Int,
         r.start <= addr, addr < r.start + r.size
  PROVE  CellAt(kk, p, addr, r.pmo, addr - r.start, r.perm) /\ r \in Regions
<1>1. \A s \in kk.maps[p] : s.start \in Nat /\ s.size \in Nat
  BY DEF Separate, Regions
<1>2. \A s \in kk.maps[p] : s # r => ~(s.start <= addr /\ addr < s.start + s.size)
  BY <1>1 DEF Separate, Apart
<1>3. RegionsAt(kk, p, addr) = {r}
  BY <1>2 DEF RegionsAt
<1>4. r \in Regions
  BY DEF Separate
<1> QED
  BY <1>3, <1>4, OneRegion

\* The loadable segments of a file that a program was made into.
Parts(code, elf, program, areas) ==
    LET ph == Loadable(elf) IN
    /\ Len(ph) \in Nat /\ DOMAIN ph = 1..Len(ph)
    /\ program.entry = elf.header.e_entry
    /\ program.parts = {PartOf(code, ph[i]) : i \in 1..Len(ph)}
    /\ \A i \in 1..Len(ph) :
          /\ ph[i] \in PageHeader
          /\ Len(FileBytes(code, ph[i])) \in Nat
          /\ DOMAIN FileBytes(code, ph[i]) = 1..Len(FileBytes(code, ph[i]))
          /\ Len(FileBytes(code, ph[i])) <= ph[i].p_memsz
          /\ \A j \in 1..Len(ph) : i # j =>
                Apart(ROUND_DOWN(ph[i].p_vaddr), MapSize(ph[i]),
                      ROUND_DOWN(ph[j].p_vaddr), MapSize(ph[j]))
          /\ \A area \in areas : Apart(ROUND_DOWN(ph[i].p_vaddr), MapSize(ph[i]), area[1], area[2])

\* What MadeFrom() says of a file, with its segments numbered.
LEMMA MadeInto ==
  ASSUME NEW code, NEW elf, NEW program, NEW areas, MadeFrom(code, elf, program, areas)
  PROVE  Parts(code, elf, program, areas)
<1> DEFINE ph == Loadable(elf)
<1>1. ph \in Seq(PageHeader)
  BY DEF MadeFrom, PageHeader
<1>2. Len(ph) \in Nat /\ DOMAIN ph = 1..Len(ph) /\ \A i \in 1..Len(ph) : ph[i] \in PageHeader
  <2> HIDE DEF ph
  <2> QED
    BY <1>1, LenProperties, ElementOfSeq
<1>3. program.entry = elf.header.e_entry /\ program.parts = {PartOf(code, ph[i]) : i \in DOMAIN ph}
  BY DEF MadeFrom
<1>4. ASSUME NEW i \in DOMAIN ph
      PROVE  /\ FileBytes(code, ph[i]) \in Seq(Nat)
             /\ Len(FileBytes(code, ph[i])) <= ph[i].p_memsz
             /\ \A j \in DOMAIN ph \ {i} :
                    Apart(ROUND_DOWN(ph[i].p_vaddr), MapSize(ph[i]),
                          ROUND_DOWN(ph[j].p_vaddr), MapSize(ph[j]))
             /\ \A area \in areas : Apart(ROUND_DOWN(ph[i].p_vaddr), MapSize(ph[i]), area[1], area[2])
  BY <1>4 DEF MadeFrom
<1> HIDE DEF ph
<1>5. \A i \in 1..Len(ph) : /\ Len(FileBytes(code, ph[i])) \in Nat
                            /\ DOMAIN FileBytes(code, ph[i]) = 1..Len(FileBytes(code, ph[i]))
  <2> TAKE i \in 1..Len(ph)
  <2>1. FileBytes(code, ph[i]) \in Seq(Nat)
    BY <1>2, <1>4
  <2> QED
    BY <2>1, LenProperties
<1>6. ASSUME NEW i \in 1..Len(ph), NEW j \in 1..Len(ph), i # j
      PROVE  Apart(ROUND_DOWN(ph[i].p_vaddr), MapSize(ph[i]), ROUND_DOWN(ph[j].p_vaddr), MapSize(ph[j]))
  BY <1>2, <1>4, <1>6
<1>7. ASSUME NEW i \in 1..Len(ph)
      PROVE  /\ Len(FileBytes(code, ph[i])) <= ph[i].p_memsz
             /\ \A area \in areas : Apart(ROUND_DOWN(ph[i].p_vaddr), MapSize(ph[i]), area[1], area[2])
  BY <1>2, <1>4
<1> QED
  BY <1>2, <1>3, <1>5, <1>6, <1>7 DEF Parts, ph

\* The program of the root process has the segments of its file.
LEMMA RootParts ==
  Parts(RootCode, RootElf, Programs[RootPath], RootAreas) /\ NR \in Nat
<1>1. Parts(RootCode, RootElf, Programs[RootPath], RootAreas)
  BY FilesAssumption, MadeInto DEF RootElf
<1> QED
  BY <1>1 DEF Parts, NR, RootPh

\* A program that can be found has the segments of its file, two at most.
LEMMA ChildParts ==
  ASSUME NEW req \in Requests, FileOf(req.path) # ENOENT
  PROVE  /\ Parts(FileOf(req.path), ElfOf(req.path), Programs[req.path], ChildAreas)
         /\ Len(Ph(req.path)) \in 0..2
<1>1. /\ MadeFrom(FileOf(req.path), ElfOf(req.path), Programs[req.path], ChildAreas)
      /\ Len(Ph(req.path)) <= 2
  BY FilesAssumption DEF ElfOf, Ph
<1>2. Parts(FileOf(req.path), ElfOf(req.path), Programs[req.path], ChildAreas)
  BY <1>1, MadeInto
<1>3. Len(Ph(req.path)) \in Nat
  BY <1>2 DEF Parts, Ph
<1>4. Len(Ph(req.path)) <= 2
  BY <1>1
<1>5. Len(Ph(req.path)) \in 0..2
  <2>1. \A n \in Nat : n <= 2 => n \in 0..2
    OBVIOUS
  <2> QED
    BY <1>3, <1>4, <2>1, Zenon
<1> QED
  BY <1>2, <1>5

\* What is an area of a child, and of the root process, and they are apart.
LEMMA AreasApart ==
  /\ Apart(StackBase, StackSize, SharedInfo, PageSize)
  /\ Apart(StackBase, StackSize, SharedVaddr, PageSize)
  /\ Apart(SharedInfo, PageSize, SharedVaddr, PageSize)
  /\ Apart(StackBase, StackSize, CpioBin, Len(Archived))
  /\ Apart(StackBase, StackSize, InfoVaddr, PageSize)
  /\ Apart(CpioBin, Len(Archived), InfoVaddr, PageSize)
<1>1. PageSize # StackSize
  BY Sizes
<1>2. \A areas \in {RootAreas, ChildAreas} : \A one, other \in areas :
          one # other => Apart(one[1], one[2], other[1], other[2])
  BY AddressesAssumption
<1>3. CpioBin # StackBase /\ CpioBin # InfoVaddr /\ SharedInfo # SharedVaddr
  BY AddressesAssumption
<1> DEFINE n == Len(Archived)
<1>4. ASSUME NEW a, NEW l, NEW c, NEW m, <<a, l>> # <<c, m>>,
             \/ <<a, l>> \in RootAreas /\ <<c, m>> \in RootAreas
             \/ <<a, l>> \in ChildAreas /\ <<c, m>> \in ChildAreas
      PROVE  Apart(a, l, c, m)
  <2> DEFINE one == <<a, l>>
             other == <<c, m>>
  <2>1. one[1] = a /\ one[2] = l /\ other[1] = c /\ other[2] = m
    OBVIOUS
  <2>2. Apart(one[1], one[2], other[1], other[2])
    <3> HIDE DEF one, other, Apart
    <3> QED
      BY <1>2, <1>4 DEF one, other
  <2> HIDE DEF Apart, one, other
  <2> QED
    BY <2>1, <2>2
<1>5. /\ <<StackBase, StackSize>> # <<SharedInfo, PageSize>>
      /\ <<StackBase, StackSize>> # <<SharedVaddr, PageSize>>
      /\ <<SharedInfo, PageSize>> # <<SharedVaddr, PageSize>>
      /\ <<StackBase, StackSize>> # <<CpioBin, n>>
      /\ <<StackBase, StackSize>> # <<InfoVaddr, PageSize>>
      /\ <<CpioBin, n>> # <<InfoVaddr, PageSize>>
  <2> HIDE DEF n
  <2> QED
    BY <1>1, <1>3
<1>6. /\ {<<StackBase, StackSize>>, <<SharedInfo, PageSize>>, <<SharedVaddr, PageSize>>}
            \subseteq ChildAreas
      /\ {<<StackBase, StackSize>>, <<CpioBin, n>>, <<InfoVaddr, PageSize>>} \subseteq RootAreas
  BY DEF ChildAreas, RootAreas
<1> HIDE DEF n
<1> QED
  BY <1>4, <1>5, <1>6 DEF n

\* The segments of a file, as regions of the objects after b.
LEMMA SegmentsSeparate ==
  ASSUME NEW code, NEW elf, NEW program, NEW areas, Parts(code, elf, program, areas), NEW b \in Nat
  PROVE  LET ph == Loadable(elf)
             R == {SegmentAt(ph[i], b + i) : i \in 1..Len(ph)}
         IN  /\ Separate(R)
             /\ \A r \in R : \A area \in areas : Apart(r.start, r.size, area[1], area[2])
<1> DEFINE ph == Loadable(elf)
           R == {SegmentAt(ph[i], b + i) : i \in 1..Len(ph)}
<1>1. \A i \in 1..Len(ph) :
        /\ SegmentAt(ph[i], b + i).start = ROUND_DOWN(ph[i].p_vaddr)
        /\ SegmentAt(ph[i], b + i).size = MapSize(ph[i])
  BY DEF SegmentAt, Region
<1>2. ASSUME NEW i \in 1..Len(ph)
      PROVE  SegmentAt(ph[i], b + i) \in Regions /\ MapSize(ph[i]) # 0
  <2>1. ph[i] \in PageHeader /\ Len(ph) \in Nat
    BY DEF Parts
  <2>2. b + i \in Nat
    BY <2>1
  <2> QED
    BY <2>1, <2>2, SegmentPages DEF SegmentAt, Region, Regions
<1>3. \A i, j \in 1..Len(ph) : i # j =>
         Apart(ROUND_DOWN(ph[i].p_vaddr), MapSize(ph[i]), ROUND_DOWN(ph[j].p_vaddr), MapSize(ph[j]))
  BY DEF Parts
<1>4. \A i \in 1..Len(ph) : \A area \in areas :
         Apart(ROUND_DOWN(ph[i].p_vaddr), MapSize(ph[i]), area[1], area[2])
  BY DEF Parts
<1> HIDE DEF ph
<1>5. R \subseteq Regions /\ \A r \in R : r.size # 0
  BY <1>1, <1>2
<1>6. ASSUME NEW r \in R, NEW s \in R, r # s
      PROVE  Apart(r.start, r.size, s.start, s.size)
  <2>1. PICK i \in 1..Len(ph) : r = SegmentAt(ph[i], b + i)
    OBVIOUS
  <2>2. PICK j \in 1..Len(ph) : s = SegmentAt(ph[j], b + j)
    OBVIOUS
  <2>3. i # j
    BY <1>6, <2>1, <2>2
  <2> QED
    BY <1>1, <1>3, <2>1, <2>2, <2>3
<1>7. ASSUME NEW r \in R, NEW area \in areas PROVE Apart(r.start, r.size, area[1], area[2])
  <2>1. PICK i \in 1..Len(ph) : r = SegmentAt(ph[i], b + i)
    OBVIOUS
  <2> QED
    BY <1>1, <1>4, <2>1
<1> HIDE DEF R
<1>8. Separate(R)
  BY <1>5, <1>6 DEF Separate
<1> QED
  BY <1>7, <1>8 DEF R, ph

\* A region apart from all the others can be added to them.
LEMMA AddsSeparate ==
  ASSUME NEW R, Separate(R), NEW r \in Regions, r.size # 0,
         \A s \in R : Apart(s.start, s.size, r.start, r.size)
  PROVE  Separate(R \cup {r})
<1>1. ASSUME NEW s \in R PROVE Apart(s.start, s.size, r.start, r.size) /\ Apart(r.start, r.size, s.start, s.size)
  BY DEF Apart
<1> QED
  BY <1>1 DEF Separate

\* Some of a set of regions that do not overlap do not overlap either.
LEMMA FewerSeparate ==
  ASSUME NEW R, Separate(R), NEW S, S \subseteq R
  PROVE  Separate(S)
  BY DEF Separate

\* The archive in the root process has whole pages, which hold the ramdisk.
LEMMA ArchiveIs ==
  /\ Len(Archived) = ROUND_UP(Len(Ramdisk)) /\ Len(Archived) \in Nat \ {0} /\ IsSeq(Archived)
  /\ Len(Ramdisk) <= Len(Archived) /\ Len(Ramdisk) \in Nat \ {0} /\ DOMAIN Ramdisk = 1..Len(Ramdisk)
<1>1. Len(Ramdisk) \in Nat \ {0} /\ DOMAIN Ramdisk = 1..Len(Ramdisk)
  BY FilesAssumption
<1>2. ROUND_UP(Len(Ramdisk)) \in Nat /\ Len(Ramdisk) <= ROUND_UP(Len(Ramdisk))
  BY <1>1, RoundedUp
<1> DEFINE n == ROUND_UP(Len(Ramdisk))
<1>3. Archived = [i \in 1..n |-> Archived[i]]
  BY DEF Archived
<1>4. n \in Nat
  BY <1>2
<1> HIDE DEF n
<1>5. IsSeq(Archived) /\ Len(Archived) = n
  BY <1>3, <1>4, SequenceOf
<1> QED
  BY <1>1, <1>2, <1>5 DEF n

\* No two regions a child will ever have overlap.
LEMMA ChildSeparate ==
  ASSUME NEW req \in Requests, FileOf(req.path) # ENOENT, NEW b \in Nat
  PROVE  Separate(ChildRegions(req.path, b, Len(Ph(req.path)), TRUE, TRUE, TRUE))
<1> DEFINE S == {SegmentAt(Ph(req.path)[i], b + i) : i \in 1..Len(Ph(req.path))}
           info == Region(SharedInfo, PageSize, VMR_RW, InfoPmo)
           stack == Region(StackBase, StackSize, VMR_RW, b + 3)
           again == Region(SharedVaddr, PageSize, VMR_RW, InfoPmo)
<1>1. /\ Separate(S)
      /\ \A r \in S : \A area \in ChildAreas : Apart(r.start, r.size, area[1], area[2])
  BY ChildParts, SegmentsSeparate DEF Ph
<1>2. ASSUME NEW r \in S
      PROVE  /\ Apart(r.start, r.size, StackBase, StackSize)
             /\ Apart(r.start, r.size, SharedInfo, PageSize)
             /\ Apart(r.start, r.size, SharedVaddr, PageSize)
  <2>1. \A a, l : <<a, l>> \in ChildAreas => Apart(r.start, r.size, a, l)
    <3> SUFFICES ASSUME NEW a, NEW l, <<a, l>> \in ChildAreas PROVE Apart(r.start, r.size, a, l)
      OBVIOUS
    <3> DEFINE area == <<a, l>>
    <3>1. area[1] = a /\ area[2] = l
      OBVIOUS
    <3>2. Apart(r.start, r.size, area[1], area[2])
      <4> HIDE DEF area, S
      <4> QED
        BY <1>1 DEF area
    <3> HIDE DEF area
    <3> QED
      BY <3>1, <3>2
  <2> QED
    BY <2>1 DEF ChildAreas
<1> HIDE DEF S
<1>3. InfoPmo \in Nat /\ VMR_RW \in Nat /\ b + 3 \in Nat
  BY RootParts, PageAreas DEF InfoPmo
<1>4. /\ info \in Regions /\ info.start = SharedInfo /\ info.size = PageSize
      /\ stack \in Regions /\ stack.start = StackBase /\ stack.size = StackSize
      /\ again \in Regions /\ again.start = SharedVaddr /\ again.size = PageSize
      /\ PageSize # 0 /\ StackSize # 0
  BY <1>3, Sizes DEF Region, Regions
<1> HIDE DEF info, stack, again
<1>5. Separate(S \cup {stack})
  BY <1>1, <1>2, <1>4, AddsSeparate
<1>6. Separate(S \cup {stack} \cup {info})
  BY <1>2, <1>4, <1>5, AddsSeparate, AreasApart
<1>7. Separate(S \cup {stack} \cup {info} \cup {again})
  BY <1>2, <1>4, <1>6, AddsSeparate, AreasApart
<1>8. ChildRegions(req.path, b, Len(Ph(req.path)), TRUE, TRUE, TRUE)
        = S \cup {stack} \cup {info} \cup {again}
  BY DEF ChildRegions, S, stack, info, again
<1> QED
  BY <1>7, <1>8

\* No two regions of the root process overlap.
LEMMA RootSeparate ==
  ASSUME NEW step
  PROVE  Separate(RootRegions(step))
<1> DEFINE S == {SegmentAt(RootPh[i], 1 + i) : i \in 1..NR}
           stack == Region(StackBase, StackSize, VMR_RW, 1)
           archive == Region(CpioBin, Len(Archived), VMR_READ, ArchivePmo)
           info == Region(InfoVaddr, PageSize, VMR_RW, InfoPmo)
<1>1. /\ Separate(S)
      /\ \A r \in S : \A area \in RootAreas : Apart(r.start, r.size, area[1], area[2])
  BY RootParts, SegmentsSeparate DEF NR, RootPh
<1>2. ASSUME NEW r \in S
      PROVE  /\ Apart(r.start, r.size, StackBase, StackSize)
             /\ Apart(r.start, r.size, CpioBin, Len(Archived))
             /\ Apart(r.start, r.size, InfoVaddr, PageSize)
  <2>1. \A a, l : <<a, l>> \in RootAreas => Apart(r.start, r.size, a, l)
    <3> SUFFICES ASSUME NEW a, NEW l, <<a, l>> \in RootAreas PROVE Apart(r.start, r.size, a, l)
      OBVIOUS
    <3> DEFINE area == <<a, l>>
    <3>1. area[1] = a /\ area[2] = l
      OBVIOUS
    <3>2. Apart(r.start, r.size, area[1], area[2])
      <4> HIDE DEF area, S
      <4> QED
        BY <1>1 DEF area
    <3> HIDE DEF area
    <3> QED
      BY <3>1, <3>2
  <2> QED
    BY <2>1 DEF RootAreas
<1>8. RootImage = S
  BY RootParts DEF RootImage
<1> HIDE DEF S
<1>3. InfoPmo \in Nat /\ ArchivePmo \in Nat /\ VMR_RW \in Nat /\ VMR_READ \in Nat
      /\ Len(Archived) \in Nat \ {0}
  BY RootParts, PageAreas, ArchiveIs DEF InfoPmo, ArchivePmo
<1>4. /\ info \in Regions /\ info.start = InfoVaddr /\ info.size = PageSize
      /\ stack \in Regions /\ stack.start = StackBase /\ stack.size = StackSize
      /\ archive \in Regions /\ archive.start = CpioBin /\ archive.size = Len(Archived)
      /\ PageSize # 0 /\ StackSize # 0 /\ Len(Archived) # 0
  BY <1>3, Sizes DEF Region, Regions
<1> HIDE DEF info, stack, archive
<1>5. Separate(S \cup {stack})
  BY <1>1, <1>2, <1>4, AddsSeparate
<1>6. Separate(S \cup {stack} \cup {archive})
  BY <1>2, <1>4, <1>5, AddsSeparate, AreasApart
<1>7. Separate(S \cup {stack} \cup {archive} \cup {info})
  BY <1>2, <1>4, <1>6, AddsSeparate, AreasApart
<1>9. RootRegions(step) \subseteq S \cup {stack} \cup {archive} \cup {info}
  BY <1>8 DEF RootRegions, stack, archive, info
<1> QED
  BY <1>7, <1>9, FewerSeparate

-----------------------------------------------------------------------------
(* What steps leave alone                                                    *)

\* Capabilities keep their numbers, and objects their cells, but for the info page.
Grown(kk, w) ==
    /\ Kernel(kk) /\ Kernel(w) /\ Kept(kk, w)
    /\ Len(kk.pmos) <= Len(w.pmos)
    /\ \A i \in 1..Len(kk.pmos) : i # InfoPmo => w.pmos[i] = kk.pmos[i]

\* The same of the objects that are done, the ones up to top.
Lower(kk, w, top) ==
    /\ Kernel(kk) /\ Kernel(w) /\ Kept(kk, w)
    /\ Len(kk.pmos) <= Len(w.pmos)
    /\ top \in Int /\ top <= Len(kk.pmos)
    /\ \A i \in 1..top : i # InfoPmo => w.pmos[i] = kk.pmos[i]

\* A call that leaves all objects alone leaves those that are done alone.
LEMMA GrownLower ==
  ASSUME NEW kk, NEW w, Grown(kk, w), NEW top \in Int, top <= Len(kk.pmos)
  PROVE  Lower(kk, w, top)
<1>1. Len(kk.pmos) \in Nat
  BY KernelIs DEF Grown
<1>2. \A i \in 1..top : i \in 1..Len(kk.pmos)
  BY <1>1
<1> QED
  BY <1>2 DEF Grown, Lower

\* The objects of the root process: its segments, its stack, the archive and the page.
LEMMA Numbers ==
  /\ NR \in Nat /\ ArchivePmo = NR + 2 /\ InfoPmo = NR + 3
  BY RootParts DEF ArchivePmo, InfoPmo

\* The root process is what it was, as long as its objects and regions are.
LEMMA RootKept ==
  ASSUME NEW kk, NEW w, NEW top, Lower(kk, w, top), InfoPmo <= top,
         NEW step, NEW then, RootAt(kk, step),
         step \notin {"main", "info"}, then \notin {"main", "info"},
         w.maps[0] = kk.maps[0], w.main[0] = kk.main[0], w.next >= kk.next
  PROVE  RootAt(w, then)
<1>1. Len(kk.pmos) \in Nat /\ Len(w.pmos) \in Nat
  BY KernelIs DEF Lower
<1>2. NR \in Nat /\ ArchivePmo = NR + 2 /\ InfoPmo = NR + 3 /\ Len(kk.pmos) >= NR + 3
  BY Numbers DEF RootAt
<1>3. \A i \in 1..(NR + 2) : w.pmos[i] = kk.pmos[i]
  <2>1. top \in Int /\ NR + 3 <= top
    BY <1>2 DEF Lower
  <2>2. \A i \in 1..(NR + 2) : i \in 1..top /\ i # InfoPmo
    BY <1>2, <2>1
  <2> QED
    BY <2>2 DEF Lower
<1>4. RootRegions(then) = RootRegions(step)
  BY DEF RootRegions
<1>5. kk.next \in Int /\ w.next \in Int
  BY DEF Lower, Kernel
<1>6. w.next >= 1 /\ w.maps[0] = RootRegions(then)
      /\ w.main[0] = [sp |-> StackTop - PageSize, pc |-> RootElf.header.e_entry]
  BY <1>4, <1>5 DEF RootAt
<1>7. RootLoaded(w)
  <2>1. RootLoaded(kk)
    BY DEF RootAt
  <2>2. \A i \in 1..NR : i + 1 \in 1..(NR + 2)
    BY <1>2
  <2> QED
    BY <1>3, <2>1, <2>2 DEF RootLoaded
<1>8. EnvAt(w, 1, prepare_env(StackTop, Meta(RootElf), RootPath))
  <2>1. EnvAt(kk, 1, prepare_env(StackTop, Meta(RootElf), RootPath))
    BY DEF RootAt
  <2>2. w.pmos[1] = kk.pmos[1]
    BY <1>2, <1>3
  <2> QED
    BY <2>1, <2>2 DEF EnvAt
<1>9. Len(w.pmos) >= NR + 3
  BY <1>1, <1>2 DEF Lower
<1>10. w.pmos[ArchivePmo] = Archived
  BY <1>2, <1>3 DEF RootAt
<1> QED
  BY <1>6, <1>7, <1>8, <1>9, <1>10 DEF RootAt

\* A child has what was made for it, as long as its objects and regions stay.
LEMMA ChildKept ==
  ASSUME NEW kk, NEW w, NEW top, Lower(kk, w, top), NEW p \in Procs, NEW req, NEW b, NEW cap,
         NEW again, b + 3 <= top, ChildAt(kk, p, req, b, cap, again), w.maps[p] = kk.maps[p]
  PROVE  ChildAt(w, p, req, b, cap, again)
<1>1. Len(kk.pmos) \in Nat /\ Len(w.pmos) \in Nat /\ top \in Int
  BY KernelIs DEF Lower
<1>2. InfoPmo \in Nat /\ b \in Nat /\ InfoPmo <= b /\ b + 3 <= Len(kk.pmos)
  BY Numbers DEF ChildAt
<1>3. \A i \in 1..3 : w.pmos[b + i] = kk.pmos[b + i]
  BY <1>1, <1>2 DEF Lower
<1>4. b + 3 <= Len(w.pmos)
  BY <1>1, <1>2 DEF Lower
<1>5. SegmentsLoaded(w, req.path, b, 2)
  <2>1. SegmentsLoaded(kk, req.path, b, 2)
    BY DEF ChildAt
  <2>2. \A i \in 1..2 : i \in 1..3
    OBVIOUS
  <2> QED
    BY <1>3, <2>1, <2>2 DEF SegmentsLoaded
<1>6. EnvAt(w, b + 3, ChildEnv(req, cap))
  <2>1. w.pmos[b + 3] = kk.pmos[b + 3]
    BY <1>3
  <2> QED
    BY <2>1 DEF ChildAt, EnvAt
<1>7. req.info => Names(w, p, cap, "pmo", InfoPmo)
  BY NamesKept DEF ChildAt, Lower
<1> QED
  BY <1>2, <1>4, <1>5, <1>6, <1>7 DEF ChildAt

\* A child is complete, or not started, as before, when its objects and regions stay.
LEMMA ChildGoodKept ==
  ASSUME NEW kk, NEW w, NEW top, Lower(kk, w, top), NEW high \in Int, top <= high,
         NEW p \in Procs, NEW step, NEW req, ChildGood(kk, p, step, req, top),
         w.main[p] = kk.main[p], step # "none" => w.maps[p] = kk.maps[p],
         NEW then, step = "none" <=> then = "none", step = "reads" <=> then = "reads",
         then \in {"maps", "reads", "waits"} => req.info
  PROVE  ChildGood(w, p, then, req, high)
<1>1. then = "none" => w.main[p] = Nobody
  BY DEF ChildGood
<1>2. CASE then = "none"
  BY <1>1, <1>2 DEF ChildGood
<1>3. CASE then # "none"
  <2>1. PICK b \in 0..Len(kk.pmos), cap \in 0..Len(kk.caps[p]) :
           b + 3 <= top /\ ChildAt(kk, p, req, b, cap, step = "reads")
    BY <1>3 DEF ChildGood
  <2> DEFINE again == step = "reads"
  <2>9. b + 3 <= top
    BY <2>1
  <2>2. ChildAt(w, p, req, b, cap, again)
    <3>1. ChildAt(kk, p, req, b, cap, again)
      BY <2>1
    <3> HIDE DEF again
    <3> QED
      BY <1>3, <2>9, <3>1, ChildKept
  <2>3. again = (then = "reads")
    OBVIOUS
  <2> HIDE DEF again
  <2>4. Len(kk.pmos) \in Nat /\ Len(w.pmos) \in Nat /\ Len(kk.caps[p]) \in Nat /\ Len(w.caps[p]) \in Nat
        /\ Len(kk.pmos) <= Len(w.pmos) /\ Len(kk.caps[p]) <= Len(w.caps[p])
    BY KernelIs DEF Lower, Kept
  <2>5. b \in 0..Len(w.pmos) /\ cap \in 0..Len(w.caps[p])
    BY <2>4
  <2>8. b + 3 <= high
    BY <2>1 DEF Lower
  <2>6. \E b1 \in 0..Len(w.pmos), cap1 \in 0..Len(w.caps[p]) :
           b1 + 3 <= high /\ ChildAt(w, p, req, b1, cap1, then = "reads")
    <3>1. ChildAt(w, p, req, b, cap, then = "reads")
      BY <2>2, <2>3, Zenon
    <3> QED
      BY <2>5, <2>8, <3>1, Zenon
  <2>7. req \in Requests
        /\ w.main[p] = [sp |-> StackTop - PageSize, pc |-> ElfOf(req.path).header.e_entry]
    BY <1>3 DEF ChildGood
  <2> QED
    BY <1>1, <1>3, <2>6, <2>7, Zenon DEF ChildGood
<1> QED
  BY <1>2, <1>3

\* Where the objects of the child in the making are.
LEMMA BaseIs ==
  ASSUME Typed, IsSeq(job.segs), Base >= InfoPmo
  PROVE  /\ Base \in Nat /\ Len(job.segs) \in Nat /\ Len(k.pmos) \in Nat /\ InfoPmo \in Nat
         /\ Base + Len(job.segs) <= Len(k.pmos)
         /\ job.step \in {"segments", "map"} => Len(k.pmos) = Base + Len(job.segs)
         /\ job.step \notin {"segments", "map"} => Len(k.pmos) = Base + Len(job.segs) + 1
<1> DEFINE n == Len(job.segs)
           m == Len(k.pmos)
<1>1. n \in Nat /\ m \in Nat /\ InfoPmo \in Nat
  BY KernelIs, Numbers DEF Typed, IsSeq
<1>2. Base = m - (n + IF job.step \in {"segments", "map"} THEN 0 ELSE 1)
  BY DEF Base
<1> HIDE DEF n, m
<1>3. CASE job.step \in {"segments", "map"}
  <2>1. Base = m - n
    BY <1>1, <1>2, <1>3
  <2>2. Base \in Nat /\ Base + n = m
    BY <1>1, <2>1
  <2> QED
    BY <1>1, <1>3, <2>2 DEF n, m
<1>4. CASE job.step \notin {"segments", "map"}
  <2>1. Base = m - (n + 1)
    BY <1>2, <1>4
  <2>2. Base \in Nat /\ Base + n + 1 = m /\ Base + n <= m
    BY <1>1, <2>1
  <2> QED
    BY <1>1, <1>4, <2>2 DEF n, m
<1> QED
  BY <1>3, <1>4

\* The objects that are done.
LEMMA TopIs ==
  ASSUME Inv
  PROVE  /\ Top \in Int /\ Top <= Len(k.pmos)
         /\ app[0] # "none" /\ app[0] # "main" /\ app[0] # "info" => InfoPmo <= Top
<1> DEFINE m == Len(k.pmos)
           n == Len(job.segs)
<1>1. m \in Nat /\ InfoPmo \in Nat
  BY KernelIs, Numbers DEF Inv, Typed
<1>2. CASE job.step \in {"idle", "read"}
  <2>1. Top = m
    BY <1>2 DEF Top
  <2>2. app[0] # "none" /\ app[0] # "main" /\ app[0] # "info" => m >= NR + 3
    BY DEF Inv, RootOk, RootAt
  <2> HIDE DEF m
  <2> QED
    BY <1>1, <2>1, <2>2, Numbers DEF m
<1>3. CASE job.step \notin {"idle", "read"}
  <2>1. Top = Base /\ IsSeq(job.segs) /\ Base >= InfoPmo
    BY <1>3 DEF Top, Inv, JobOk, Loading
  <2>2. Base \in Nat /\ n \in Nat /\ Base + n <= m
    BY <2>1, BaseIs DEF Inv
  <2> HIDE DEF m, n
  <2>3. Base <= m /\ InfoPmo <= Base
    BY <1>1, <2>1, <2>2
  <2> QED
    BY <2>1, <2>2, <2>3 DEF m
<1> QED
  BY <1>2, <1>3

\* The launch goes on where a step of somebody else leaves its objects alone.
LEMMA JobKept ==
  ASSUME JobOk, Typed, Grown(k, k'), Len(k'.pmos) = Len(k.pmos), k'.next = k.next, UNCHANGED job,
         Newest \in Children /\ app[Newest] = "none" =>
            /\ k'.maps[Newest] = k.maps[Newest]
            /\ app'[Newest] = app[Newest] /\ launched'[Newest] = launched[Newest]
  PROVE  JobOk'
<1> DEFINE req == job.req
<1>0. job' = job /\ Base' = Base /\ Newest' = Newest
  BY DEF Base, Newest
<1>1. Kernel(k) /\ Kernel(k') /\ Kept(k, k') /\ Len(k.pmos) \in Nat /\ InfoPmo \in Nat
  BY KernelIs, Numbers DEF Grown
<1>2. Beginning'
  BY <1>0 DEF JobOk, Beginning
<1>3. 0 \in Procs /\ Children \subseteq Procs
  BY ProcsAre DEF Children
<1>4. Room'
  BY <1>0 DEF JobOk, Room
<1>5. ASSUME job.step \notin {"idle", "read"} PROVE Loading'
  <2>1. /\ FileOf(req.path) # ENOENT /\ job.elf = ElfOf(req.path)
        /\ IsSeq(job.segs) /\ Len(job.segs) <= Len(Ph(req.path))
        /\ Base >= InfoPmo /\ Segments /\ SegmentsLoaded(k, req.path, Base, Len(job.segs))
    BY <1>5 DEF JobOk, Loading
  <2>2. Base \in Nat /\ Len(job.segs) \in Nat /\ Base + Len(job.segs) <= Len(k.pmos)
    BY <2>1, BaseIs
  <2>3. \A i \in 1..Len(job.segs) : k'.pmos[Base + i] = k.pmos[Base + i]
    BY <1>1, <2>1, <2>2 DEF Grown
  <2>4. SegmentsLoaded(k', req.path, Base, Len(job.segs))
    BY <2>1, <2>3 DEF SegmentsLoaded
  <2>5. Segments'
    <3> SUFFICES ASSUME NEW i \in 1..Len(job.segs)
                 PROVE  /\ job.segs[i].p_vaddr = Ph(job.req.path)[i].p_vaddr
                        /\ job.segs[i].flags = PFLAGS2VMRFLAGS(Ph(job.req.path)[i].p_flags)
                        /\ Names(k', 0, job.segs[i].elf_pmo, "pmo", Base + i)
      BY <1>0 DEF Segments
    <3> QED
      BY <1>1, <1>3, <2>1, NamesKept DEF Segments
  <2> HIDE DEF Base
  <2> QED
    BY <1>0, <2>1, <2>4, <2>5 DEF Loading
<1>6. CASE job.step \in {"idle", "read"}
  <2>1. Loading' /\ Making' /\ Stacked' /\ Sent' /\ Environed'
    BY <1>0, <1>6 DEF Loading, Making, Stacked, Sent, Environed
  <2> QED
    BY <1>2, <1>4, <2>1 DEF JobOk
<1>7. CASE job.step = "segments"
  <2>1. Making' /\ Stacked' /\ Sent' /\ Environed'
    BY <1>0, <1>7 DEF Making, Stacked, Sent, Environed
  <2> QED
    BY <1>2, <1>4, <1>5, <1>7, <2>1 DEF JobOk
<1>8. CASE job.step \notin {"idle", "read", "segments"}
  <2>1. /\ Len(job.segs) = Len(Ph(job.req.path))
        /\ Newest \in Children /\ launched[Newest] = job.req /\ app[Newest] = "none"
        /\ Names(k, 0, job.child, "process", Newest)
        /\ job.mapped \in 0..2 /\ job.mapped <= Len(job.segs)
        /\ job.step # "map" => job.mapped = 2
        /\ k.maps[Newest] = SoFar(job.req, Base, job.step, job.mapped)
    BY <1>8 DEF JobOk, Making
  <2>2. Names(k', 0, job.child, "process", Newest)
    BY <1>1, <1>3, <2>1, NamesKept
  <2> HIDE DEF Base, Newest
  <2>3. Making'
    BY <1>0, <2>1, <2>2 DEF Making
  <2>4. Loading
    BY DEF JobOk
  <2>5. ASSUME job.step \in {"caps", "shared", "env", "stack", "thread"}
        PROVE  /\ Names(k, 0, job.stack, "pmo", Base + 3) /\ Len(k.pmos[Base + 3]) = StackSize
               /\ Names(k', 0, job.stack, "pmo", Base + 3) /\ k'.pmos[Base + 3] = k.pmos[Base + 3]
    <3>1. Names(k, 0, job.stack, "pmo", Base + 3) /\ Len(k.pmos[Base + 3]) = StackSize
      BY <2>5 DEF JobOk, Stacked
    <3>2. Base + 3 \in 1..Len(k.pmos) /\ Base + 3 # InfoPmo
      <4>1. Base >= InfoPmo /\ IsSeq(job.segs) /\ Len(job.segs) <= Len(Ph(job.req.path))
        BY <1>8, <2>4 DEF Loading
      <4>2. /\ Base \in Nat /\ Len(job.segs) \in Nat /\ Len(k.pmos) \in Nat
            /\ Len(k.pmos) = Base + Len(job.segs) + 1
        BY <2>5, <4>1, BaseIs
      <4>3. Len(job.segs) >= 2
        BY <2>1, <2>5, <4>2
      <4> QED
        BY <1>1, <4>1, <4>2, <4>3
    <3> QED
      BY <1>1, <1>3, <3>1, <3>2, NamesKept DEF Grown
  <2>6. Stacked'
    BY <1>0, <2>5 DEF Stacked
  <2>7. Sent'
    BY <1>0, <1>1, <1>3, <2>1, NamesKept DEF Sent, JobOk
  <2>8. Environed'
    BY <1>0, <2>5 DEF Environed, JobOk, EnvAt
  <2> QED
    BY <1>2, <1>4, <1>5, <1>8, <2>3, <2>6, <2>7, <2>8 DEF JobOk
<1> QED
  BY <1>6, <1>7, <1>8

\* With no launch in hand there is nothing to say of it.
LEMMA Idle ==
  ASSUME job'.step = "idle"
  PROVE  JobOk'
  BY DEF JobOk, Beginning, Loading, Making, Stacked, Sent, Environed, Room

JobShape(jj) ==
    /\ jj = [step |-> jj.step, req |-> jj.req, elf |-> jj.elf, segs |-> jj.segs,
             mapped |-> jj.mapped, child |-> jj.child, stack |-> jj.stack,
             copies |-> jj.copies, info |-> jj.info]
    /\ jj.step \in JobSteps

\* The flags of the info page may change, and nothing else of it.
PageKept(kk, w) ==
    /\ Len(w.pmos[InfoPmo]) = Len(kk.pmos[InfoPmo])
    /\ \A i \in 3..PageSize : w.pmos[InfoPmo][i] = kk.pmos[InfoPmo][i]

\* A page whose flags alone change keeps the message.
LEMMA PageInfo ==
  ASSUME NEW kk, NEW w, PageKept(kk, w), Len(kk.pmos[InfoPmo]) = PageSize
  PROVE  /\ Len(w.pmos[InfoPmo]) = PageSize
         /\ w.pmos[InfoPmo][NrArgs + 1] = kk.pmos[InfoPmo][NrArgs + 1]
         /\ \A i \in 1..Len(Msg) : w.pmos[InfoPmo][Args + i] = kk.pmos[InfoPmo][Args + i]
<1> DEFINE n == Len(Msg)
<1>1. n \in Nat /\ 3 + n + 1 <= PageSize /\ PageSize \in Nat
  BY AddressesAssumption DEF Args
<1> HIDE DEF n
<1>2. NrArgs + 1 \in 3..PageSize /\ \A i \in 1..n : Args + i \in 3..PageSize
  BY <1>1 DEF Args, NrArgs
<1> QED
  BY <1>2 DEF PageKept, n

\* A step of the root process in a launch: nothing changes for those who run.
LEMMA LowerKeeps ==
  ASSUME Inv, app[0] = "launches", Lower(k, k', Top), Top' \in Int, Top <= Top',
         PageKept(k, k'),
         k'.main = k.main, k'.next = k.next,
         \A p \in Procs : p = 0 \/ app[p] # "none" \/ p >= k.next => k'.maps[p] = k.maps[p],
         \A p \in Procs : p >= k.next => k'.caps[p] = k.caps[p],
         UNCHANGED launched,
         NEW then \in {"launches", "done", "exited", "hangs"}, app' = [app EXCEPT ![0] = then],
         JobShape(job'), job'.info = job.info, then # "launches" => job'.step = "idle",
         job'.step \in {"read", "segments"} /\ job'.req.info => \A p \in Children : ~Informed(p),
         JobOk'
  PROVE  Inv'
<1>1. /\ Kernel(k') /\ Typed /\ RootAt(k, "launches") /\ Unmade
      /\ 0 \in Procs /\ Children \subseteq Procs /\ 0 \notin Children
  BY ProcsAre DEF Lower, Inv, RootOk, Children
<1>2. app'[0] = then /\ \A p \in Procs : p # 0 => app'[p] = app[p]
  BY <1>1 DEF Typed
<1>3. app' = [p \in Procs |-> app'[p]]
  BY <1>1 DEF Typed
<1>4. Typed'
  <2>1. then \in RootSteps
    BY DEF RootSteps
  <2>2. /\ launched' = [p \in Procs |-> launched'[p]]
        /\ \A p \in Children : launched'[p] \in Requests \cup {Nobody}
        /\ \A p \in Children : app'[p] \in ChildSteps
    BY <1>1, <1>2 DEF Typed
  <2> QED
    BY <1>1, <1>2, <1>3, <2>1, <2>2 DEF Typed, JobShape
<1>5. Unmade'
  <2>1. k.next \in Int /\ k.next >= 1
    BY <1>1 DEF RootAt, Kernel, Typed
  <2>2. \A p \in Procs : p < k.next => Names(k', p, 0, "process", p)
    BY <1>1, NamesKept DEF Unmade, Lower
  <2>3. ASSUME NEW p \in Procs, p >= k.next
        PROVE  /\ k'.caps[p] = <<>> /\ k'.maps[p] = {} /\ k'.main[p] = Nobody
               /\ app'[p] = "none" /\ launched'[p] = Nobody
    <3>1. p # 0
      BY <2>1, <2>3
    <3> QED
      BY <1>1, <1>2, <2>3, <3>1 DEF Unmade
  <2> QED
    BY <2>2, <2>3 DEF Unmade
<1>6. RootOk'
  <2>1. RootAt(k', then)
    <3>1. k.next \in Int
      BY <1>1 DEF Kernel, Typed
    <3> QED
      BY <1>1, <3>1, RootKept, TopIs
  <2>2. /\ launched[0] = [path |-> RootPath, info |-> FALSE]
        /\ Names(k, 0, job.info, "pmo", InfoPmo)
    BY DEF Inv, RootOk
  <2>3. Names(k', 0, job'.info, "pmo", InfoPmo)
    BY <1>1, <2>2, NamesKept DEF Lower
  <2> QED
    BY <1>2, <2>1, <2>2, <2>3 DEF RootOk
<1>7. ChildrenOk'
  <2> SUFFICES ASSUME NEW p \in Children PROVE ChildGood(k', p, app'[p], launched'[p], Top')
    BY DEF ChildrenOk
  <2>1. p \in Procs /\ p # 0
    BY <1>1
  <2>2. ChildGood(k, p, app[p], launched[p], Top)
    BY DEF Inv, ChildrenOk
  <2>3. app[p] \in {"maps", "reads", "waits"} => launched[p].info
    BY <2>2 DEF ChildGood
  <2>4. ChildGood(k', p, app[p], launched[p], Top')
    BY <2>1, <2>2, <2>3, ChildGoodKept
  <2> QED
    BY <1>2, <2>1, <2>4
<1>8. InfoOk'
  <2>1. \A p \in Children : app'[p] = app[p] /\ (Informed(p))' = Informed(p)
    BY <1>1, <1>2 DEF Informed
  <2>2. Changed' = Changed
    BY <2>1 DEF Changed
  <2>3. /\ Len(k.pmos[InfoPmo]) = PageSize /\ k.pmos[InfoPmo][NrArgs + 1] = Len(Msg) + 1
        /\ \A i \in 1..Len(Msg) :
              k.pmos[InfoPmo][Args + i] = IF Changed THEN Msg[i] + 1 ELSE Msg[i]
    BY DEF Inv, InfoOk
  <2>4. /\ Len(k'.pmos[InfoPmo]) = PageSize /\ k'.pmos[InfoPmo][NrArgs + 1] = Len(Msg) + 1
        /\ \A i \in 1..Len(Msg) :
              k'.pmos[InfoPmo][Args + i] = IF Changed' THEN Msg[i] + 1 ELSE Msg[i]
    BY <2>2, <2>3, PageInfo
  <2> QED
    BY <2>1, <2>4 DEF Inv, InfoOk
<1> QED
  BY <1>4, <1>5, <1>6, <1>7, <1>8 DEF Inv

\* A call that changes no object there is, and no region of a process that runs.
LEMMA CallKeeps ==
  ASSUME Inv, app[0] = "launches", Grown(k, k'), Top' \in Int, Top <= Top',
         k'.pmos[InfoPmo] = k.pmos[InfoPmo], k'.main = k.main, k'.next = k.next,
         \A p \in Procs : p = 0 \/ app[p] # "none" \/ p >= k.next => k'.maps[p] = k.maps[p],
         \A p \in Procs : p >= k.next => k'.caps[p] = k.caps[p],
         UNCHANGED launched,
         NEW then \in {"launches", "done", "exited", "hangs"}, app' = [app EXCEPT ![0] = then],
         JobShape(job'), job'.info = job.info, then # "launches" => job'.step = "idle",
         job'.step \in {"read", "segments"} /\ job'.req.info => \A p \in Children : ~Informed(p),
         JobOk'
  PROVE  Inv'
<1>1. PageKept(k, k')
  BY DEF PageKept
<1> QED
  BY <1>1, TopIs, GrownLower, LowerKeeps

\* The root process ends in the middle of a launch, or waits for ever.
LEMMA EndKeeps ==
  ASSUME Inv, app[0] = "launches", Grown(k, k'), k'.pmos[InfoPmo] = k.pmos[InfoPmo],
         k'.main = k.main, k'.next = k.next,
         \A p \in Procs : p = 0 \/ app[p] # "none" \/ p >= k.next => k'.maps[p] = k.maps[p],
         \A p \in Procs : p >= k.next => k'.caps[p] = k.caps[p],
         UNCHANGED launched, NEW how \in {"exited", "hangs"}, Ends(how)
  PROVE  Inv'
<1>1. job' = [job EXCEPT !.step = "idle"] /\ app' = [app EXCEPT ![0] = how]
  BY DEF Ends
<1>2. JobShape(job') /\ job'.step = "idle" /\ job'.info = job.info
  BY <1>1 DEF Inv, Typed, JobShape, JobSteps
<1>3. JobOk'
  BY <1>2, Idle
<1>4. Top' \in Int /\ Top <= Top'
  <2>1. Top' = Len(k'.pmos)
    BY <1>2 DEF Top
  <2>2. Len(k'.pmos) \in Nat /\ Len(k.pmos) \in Nat /\ Len(k.pmos) <= Len(k'.pmos)
    BY KernelIs DEF Grown
  <2>3. Top \in Int /\ Top <= Len(k.pmos)
    BY TopIs
  <2> QED
    BY <2>1, <2>2, <2>3
<1> QED
  BY <1>1, <1>2, <1>3, <1>4, CallKeeps

\* Nothing happened.
LEMMA SameGrown ==
  ASSUME NEW kk, Kernel(kk)
  PROVE  Grown(kk, kk)
  BY KernelIs, KeptSame DEF Grown

-----------------------------------------------------------------------------
(* The steps of a launch                                                     *)

\* The root process begins with a launch.
LEMMA SpawnKeeps ==
  ASSUME Inv, NEW req \in Requests, Spawn(req)
  PROVE  Inv'
<1>1. /\ app[0] = "launches" /\ job.step = "idle" /\ k.next <= MaxSpawns
      /\ req.info => \A p \in Procs : launched[p] # Nobody => ~launched[p].info
      /\ job' = [job EXCEPT !.step = "read", !.req = req, !.segs = <<>>]
      /\ k' = k /\ app' = app /\ launched' = launched
  BY DEF Spawn, Launching
<1>2. /\ JobShape(job') /\ job'.step = "read" /\ job'.req = req /\ job'.segs = <<>>
      /\ job'.info = job.info
  BY <1>1 DEF Inv, Typed, JobShape, JobSteps
<1>3. JobOk'
  BY <1>1, <1>2 DEF JobOk, Beginning, Loading, Making, Stacked, Sent, Environed, Room
<1>4. job'.req.info => \A p \in Children : ~Informed(p)
  BY <1>1, <1>2 DEF Informed, Children
<1>5. app' = [app EXCEPT ![0] = "launches"]
  BY <1>1 DEF Inv, Typed
<1>6. Grown(k, k')
  BY <1>1, SameGrown DEF Inv, Typed
<1>7. Top' \in Int /\ Top <= Top'
  <2>1. Top' = Top /\ Top \in Int
    BY <1>1, <1>2, TopIs DEF Top
  <2> QED
    BY <2>1
<1> QED
  BY <1>1, <1>2, <1>3, <1>4, <1>5, <1>6, <1>7, CallKeeps

\* The root process reads the file it looks for.
LEMMA BinaryIs ==
  ASSUME Inv, app[0] = "launches"
  PROVE  Binary = FileOf(job.req.path)
<1> DEFINE archive == Region(CpioBin, Len(Archived), VMR_READ, ArchivePmo)
           R == {vmr \in k.maps[0] : vmr.start = CpioBin}
<1>1. k.maps[0] = RootRegions("launches") /\ k.pmos[ArchivePmo] = Archived
  BY DEF Inv, RootOk, RootAt
<1>2. archive \in k.maps[0] /\ archive.start = CpioBin /\ archive.pmo = ArchivePmo
  BY <1>1 DEF RootRegions, Region
<1>3. Separate(k.maps[0])
  BY <1>1, RootSeparate
<1> HIDE DEF archive
<1>4. ASSUME NEW r \in k.maps[0], r.start = CpioBin PROVE r = archive
  <2>1. /\ r.start \in Nat /\ r.size \in Nat /\ r.size # 0 /\ archive.size \in Nat
        /\ archive.size # 0 /\ archive.start \in Nat
    BY <1>2, <1>3 DEF Separate, Regions
  <2>2. r = archive \/ Apart(r.start, r.size, archive.start, archive.size)
    BY <1>2, <1>3 DEF Separate
  <2> QED
    BY <1>2, <1>4, <2>1, <2>2 DEF Apart
<1>5. R = {archive}
  BY <1>2, <1>4
<1>6. (CHOOSE vmr \in k.maps[0] : vmr.start = CpioBin) = archive
  BY <1>2, <1>4
<1>7. TheArchive = Archived
  BY <1>1, <1>2, <1>6 DEF TheArchive
<1> QED
  BY <1>7 DEF Binary, FileOf

\* A file that is found is parsed; one that is not ends the launch.
LEMMA ReadElfKeeps ==
  ASSUME Inv, ReadElf
  PROVE  Inv'
<1>1. app[0] = "launches" /\ job.step = "read" /\ k' = k /\ launched' = launched
  BY DEF ReadElf, Launching
<1>2. Grown(k, k')
  BY <1>1, SameGrown DEF Inv, Typed
<1>3. CASE FileOf(job.req.path) = ENOENT
  <2>1. Ends("exited")
    BY <1>1, <1>3, BinaryIs DEF ReadElf, Fails
  <2> QED
    BY <1>1, <1>2, <2>1, EndKeeps
<1>4. CASE FileOf(job.req.path) # ENOENT
  <2>1. job' = [job EXCEPT !.step = "segments", !.elf = ElfOf(job.req.path)] /\ app' = app
    BY <1>1, <1>4, BinaryIs DEF ReadElf, ElfOf
  <2>2. /\ JobShape(job') /\ job'.step = "segments" /\ job'.req = job.req /\ job'.segs = job.segs
        /\ job'.elf = ElfOf(job.req.path) /\ job'.info = job.info
    BY <2>1 DEF Inv, Typed, JobShape, JobSteps
  <2>3. job.req \in Requests /\ job.segs = <<>> /\ k.next <= MaxSpawns
    BY <1>1 DEF Inv, JobOk, Beginning, Room
  <2>4. Base' = Len(k.pmos)
    <3>1. Len(job'.segs) = 0 /\ Len(k.pmos) \in Nat
      BY <2>2, <2>3, KernelIs DEF Inv, Typed
    <3> QED
      BY <1>1, <2>2, <3>1 DEF Base
  <2>5. Base' >= InfoPmo
    <3>1. Len(k.pmos) >= NR + 3
      BY <1>1 DEF Inv, RootOk, RootAt
    <3> QED
      BY <2>4, <3>1, Numbers
  <2>6. IsSeq(job'.segs) /\ Len(job'.segs) = 0 /\ Len(job'.segs) <= Len(Ph(job'.req.path))
    <3>1. Len(Ph(job.req.path)) \in 0..2
      BY <1>4, <2>3, ChildParts
    <3>2. Len(<<>>) = 0 /\ <<>> = [i \in 1..0 |-> <<>>[i]]
      OBVIOUS
    <3>3. Len(job'.segs) = 0
      BY <2>2, <2>3
    <3>4. IsSeq(job'.segs)
      BY <2>2, <2>3, <3>2, SequenceOf
    <3> QED
      BY <2>2, <3>1, <3>3, <3>4
  <2>7. Loading'
    <3>1. Segments' /\ SegmentsLoaded(k', job'.req.path, Base', Len(job'.segs))
      BY <2>6 DEF Segments, SegmentsLoaded
    <3> QED
      BY <1>4, <2>2, <2>5, <2>6, <3>1 DEF Loading
  <2>8. JobOk'
    BY <1>1, <2>2, <2>3, <2>7 DEF JobOk, Beginning, Making, Stacked, Sent, Environed, Room
  <2>9. app' = [app EXCEPT ![0] = "launches"]
    BY <1>1, <2>1 DEF Inv, Typed
  <2>10. job.req.info => \A p \in Children : ~Informed(p)
    BY <1>1 DEF Inv, InfoOk
  <2>11. Top' = Top /\ Top \in Int
    BY <1>1, <2>2, <2>4, TopIs DEF Top
  <2> QED
    BY <1>1, <1>2, <2>2, <2>8, <2>9, <2>10, <2>11, CallKeeps
<1> QED
  BY <1>3, <1>4

\* Only the root process has something more: objects, and capabilities.
Quiet(kk, w) ==
    /\ Kernel(kk) /\ Kernel(w) /\ Kept(kk, w)
    /\ Len(kk.pmos) <= Len(w.pmos)
    /\ \A i \in 1..Len(kk.pmos) : w.pmos[i] = kk.pmos[i]
    /\ w.maps = kk.maps /\ w.main = kk.main /\ w.next = kk.next /\ w.halted = kk.halted
    /\ \A p \in Procs : p # 0 => w.caps[p] = kk.caps[p]

\* A call that adds objects and capabilities to the root process alone.
LEMMA QuietGrown ==
  ASSUME Inv, app[0] = "launches", Quiet(k, k')
  PROVE  /\ Grown(k, k') /\ k'.pmos[InfoPmo] = k.pmos[InfoPmo]
         /\ k'.main = k.main /\ k'.next = k.next
         /\ \A p \in Procs : p = 0 \/ app[p] # "none" \/ p >= k.next => k'.maps[p] = k.maps[p]
         /\ \A p \in Procs : p >= k.next => k'.caps[p] = k.caps[p]
<1>1. RootAt(k, "launches") /\ Kernel(k) /\ k.next \in Int /\ k.next >= 1
  BY DEF Inv, RootOk, RootAt, Typed, Kernel
<1>2. InfoPmo \in 1..Len(k.pmos)
  <2>1. Len(k.pmos) >= NR + 3 /\ Len(k.pmos) \in Nat
    BY <1>1, KernelIs DEF RootAt
  <2> QED
    BY <2>1, Numbers
<1>3. Grown(k, k')
  BY DEF Quiet, Grown
<1> QED
  BY <1>1, <1>2, <1>3 DEF Quiet

\* Such a call when the launch goes on,
LEMMA QuietKeeps ==
  ASSUME Inv, app[0] = "launches", Quiet(k, k'), UNCHANGED <<launched, app>>,
         Top' \in Int, Top <= Top', JobShape(job'), job'.info = job.info,
         job'.step \in {"read", "segments"} /\ job'.req.info => \A p \in Children : ~Informed(p),
         JobOk'
  PROVE  Inv'
<1>1. app' = [app EXCEPT ![0] = "launches"]
  BY DEF Inv, Typed
<1> QED
  BY <1>1, QuietGrown, CallKeeps

\* and when it ends there.
LEMMA QuietEnd ==
  ASSUME Inv, app[0] = "launches", Quiet(k, k'), UNCHANGED launched,
         NEW how \in {"exited", "hangs"}, Ends(how)
  PROVE  Inv'
  BY QuietGrown, EndKeeps

\* The cells of a segment while it is in the root process for a moment.
LEMMA Fills ==
  ASSUME NEW kk, Kernel(kk), Names(kk, 0, 0, "process", 0), Separate(kk.maps[0]),
         NEW n \in Nat \ {0}, NEW size, ROUND_UP(size) = n,
         NEW cells, cells = [j \in 1..n |-> cells[j]]
  PROVE  LET made   == CreatePmo(kk, 0, size)
             mapped == MapPmo(made[1], 0, 0, made[2], TmpVaddr, VMR_RW)
             w      == UnmapPmo(Store(mapped[1], 0, TmpVaddr, cells), 0, TmpVaddr)
             pmo    == Len(kk.pmos) + 1
         IN  IF mapped[2] < 0 THEN Quiet(kk, mapped[1])
             ELSE /\ Quiet(kk, w) /\ Names(w, 0, made[2], "pmo", pmo)
                  /\ Len(w.pmos) = pmo /\ w.pmos[pmo] = cells
<1> DEFINE made   == CreatePmo(kk, 0, size)
           w1     == made[1]
           cap    == made[2]
           mapped == MapPmo(w1, 0, 0, cap, TmpVaddr, VMR_RW)
           w2     == mapped[1]
           w3     == Store(w2, 0, TmpVaddr, cells)
           w      == UnmapPmo(w3, 0, TmpVaddr)
           pmo    == Len(kk.pmos) + 1
           r      == Region(TmpVaddr, n, VMR_RW, pmo)
<1>0. 0 \in Procs /\ Len(kk.pmos) \in Nat /\ TmpVaddr \in Nat /\ VMR_RW \in Nat
  BY ProcsAre, KernelIs, Sizes, PageAreas
<1>1. /\ OneMore(kk, w1, n) /\ Names(w1, 0, cap, "pmo", pmo)
      /\ \A q \in Procs : q # 0 => w1.caps[q] = kk.caps[q]
  BY <1>0, Created
<1> HIDE DEF made, w1, cap
<1>2. /\ Kernel(w1) /\ Kept(kk, w1) /\ Len(w1.pmos) = pmo /\ pmo \in 1..Len(w1.pmos)
      /\ w1.maps = kk.maps /\ w1.main = kk.main /\ w1.next = kk.next /\ w1.halted = kk.halted
      /\ \A i \in 1..Len(kk.pmos) : w1.pmos[i] = kk.pmos[i]
      /\ Len(w1.pmos[pmo]) = n
  BY <1>0, <1>1 DEF OneMore
<1>3. Quiet(kk, w1)
  BY <1>0, <1>1, <1>2 DEF Quiet
<1>4. Names(w1, 0, 0, "process", 0)
  BY <1>0, <1>2, NamesKept
<1>5. IF Clashes(w1, 0, TmpVaddr, n) THEN w2 = w1 /\ mapped[2] = EPERM
      ELSE mapped[2] \in Nat /\ WithRegion(w1, w2, 0, r)
  <2> HIDE DEF pmo
  <2> QED
    BY <1>0, <1>1, <1>2, <1>4, PageAreas, MapsObject
<1>6. CASE Clashes(w1, 0, TmpVaddr, n)
  BY <1>3, <1>5, <1>6 DEF EPERM, made, w1, cap
<1>7. CASE ~Clashes(w1, 0, TmpVaddr, n)
  <2> HIDE DEF pmo, mapped
  <2>1. /\ mapped[2] \in Nat /\ Kernel(w2) /\ Kept(w1, w2) /\ w2.pmos = w1.pmos /\ w2.main = w1.main
        /\ w2.next = w1.next /\ w2.halted = w1.halted /\ w2.maps[0] = w1.maps[0] \cup {r}
        /\ \A other \in Procs : other # 0 => w2.maps[other] = w1.maps[other]
                                             /\ w2.caps[other] = w1.caps[other]
    BY <1>5, <1>7 DEF WithRegion
  <2>2. \A s \in kk.maps[0] : s.start # TmpVaddr /\ ~(s.start <= TmpVaddr /\ TmpVaddr < s.start + s.size)
    <3>1. \A s \in kk.maps[0] : ~(s.start <= TmpVaddr /\ TmpVaddr < s.start + s.size)
      BY <1>2, <1>7 DEF Clashes
    <3>2. \A s \in kk.maps[0] : s.start \in Nat /\ s.size \in Nat /\ s.size # 0
      BY DEF Separate, Regions
    <3> QED
      BY <1>0, <3>1, <3>2
  <2>3. r.start = TmpVaddr /\ r.size = n /\ r.pmo = pmo
    BY DEF Region
  <2> HIDE DEF w2, r
  <2>4. RegionsAt(w2, 0, TmpVaddr) = {r}
    BY <1>0, <1>2, <2>1, <2>2, <2>3 DEF RegionsAt
  <2>5. w3 = WriteObject(w2, pmo, 0, cells)
    <3>1. TmpVaddr - r.start = 0
      BY <1>0, <2>3
    <3>2. CellAt(w2, 0, TmpVaddr, pmo, 0, r.perm)
      BY <2>3, <2>4, <3>1, OneRegion
    <3> QED
      BY <3>2 DEF CellAt
  <2>16. Kernel(w2) /\ pmo \in 1..Len(w2.pmos) /\ Len(w2.pmos[pmo]) = n
    BY <1>2, <2>1
  <2>6. /\ OnlyCells(w2, w3, pmo)
        /\ \A i \in 1..n : w3.pmos[pmo][i] = IF i - 0 \in DOMAIN cells THEN cells[i - 0]
                                             ELSE w2.pmos[pmo][i]
    <3> DEFINE Then(offset, c) ==
          LET y == WriteObject(w2, pmo, offset, c)
          IN  /\ OnlyCells(w2, y, pmo)
              /\ \A i \in 1..Len(w2.pmos[pmo]) :
                    y.pmos[pmo][i] = IF i - offset \in DOMAIN c THEN c[i - offset]
                                     ELSE w2.pmos[pmo][i]
    <3>1. \A offset, c : Then(offset, c)
      BY <2>16, Written
    <3>2. Then(0, cells)
      BY <3>1, Zenon
    <3> QED
      BY <2>5, <2>16, <3>2
  <2> HIDE DEF w3
  <2>7. w3.pmos[pmo] = cells
    <3>1. IsSeq(w3.pmos[pmo]) /\ Len(w3.pmos[pmo]) = n
      BY <1>2, <2>1, <2>6, KernelIs DEF OnlyCells
    <3>2. \A i \in 1..n : i - 0 = i /\ i - 0 \in DOMAIN cells
      OBVIOUS
    <3>3. \A i \in 1..n : w3.pmos[pmo][i] = cells[i]
      BY <2>6, <3>2
    <3>4. w3.pmos[pmo] = [i \in 1..n |-> w3.pmos[pmo][i]]
      BY <3>1 DEF IsSeq
    <3> QED
      BY <3>3, <3>4
  <2>8. /\ OnlyMaps(w3, w)
        /\ w.maps[0] = {vmr \in w3.maps[0] : vmr.start # TmpVaddr}
        /\ \A q \in Procs : q # 0 => w.maps[q] = w3.maps[q]
    BY <1>0, <2>6, Unmaps DEF OnlyCells
  <2> HIDE DEF w
  <2>9. w.maps = kk.maps
    <3>1. w.maps[0] = kk.maps[0]
      BY <1>2, <2>1, <2>2, <2>3, <2>6, <2>8 DEF OnlyCells
    <3>2. \A q \in Procs : w.maps[q] = kk.maps[q]
      BY <1>2, <2>1, <2>6, <2>8, <3>1 DEF OnlyCells
    <3>3. w.maps \in [Procs -> SUBSET Regions] /\ kk.maps \in [Procs -> SUBSET Regions]
      BY <2>8 DEF OnlyMaps, Kernel
    <3> QED
      BY <3>2, <3>3
  <2>10. Kernel(w) /\ w.pmos = w3.pmos /\ w.caps = w2.caps /\ w.main = kk.main /\ w.next = kk.next
         /\ w.halted = kk.halted
    BY <1>2, <2>1, <2>6, <2>8 DEF OnlyMaps, OnlyCells
  <2>11. Kept(kk, w2) /\ Kept(kk, w)
    <3>1. Kept(kk, w2)
      BY <1>2, <2>1, KeptTwice
    <3> QED
      BY <2>10, <3>1 DEF Kept
  <2>12. /\ Len(w.pmos) = pmo
         /\ \A i \in 1..Len(kk.pmos) : w.pmos[i] = kk.pmos[i]
    <3>1. \A i \in 1..Len(kk.pmos) : i \in 1..Len(w2.pmos) /\ i # pmo
      BY <1>0, <1>2, <2>1 DEF pmo
    <3> QED
      BY <1>2, <2>1, <2>6, <2>10, <3>1 DEF OnlyCells
  <2>13. Names(w, 0, cap, "pmo", pmo)
    <3>1. Names(w2, 0, cap, "pmo", pmo)
      BY <1>0, <1>1, <1>2, <2>1, NamesKept
    <3> QED
      BY <2>10, <3>1 DEF Names
  <2>14. Quiet(kk, w)
    <3>1. Len(kk.pmos) <= Len(w.pmos)
      BY <1>0, <2>12 DEF pmo
    <3> QED
      BY <1>1, <2>1, <2>9, <2>10, <2>11, <2>12, <3>1 DEF Quiet
  <2>15. ~(mapped[2] < 0)
    BY <2>1
  <2> QED
    BY <2>7, <2>10, <2>12, <2>13, <2>14, <2>15 DEF mapped, w, w3, w2, w1, cap, made, pmo
<1> QED
  BY <1>6, <1>7

\* A segment is an object of its own, filled through a region that is gone again.
LEMMA LoadSegmentKeeps ==
  ASSUME Inv, LoadSegment
  PROVE  Inv'
<1> DEFINE path == job.req.path
           n == Len(job.segs)
           ph == Ph(path)[n + 1]
           cells == SegmentCells(FileOf(path), ph)
           made == CreatePmo(k, 0, MapSize(ph))
           mapped == MapPmo(made[1], 0, 0, made[2], TmpVaddr, VMR_RW)
           w == UnmapPmo(Store(mapped[1], 0, TmpVaddr, cells), 0, TmpVaddr)
           seg == [elf_pmo |-> made[2], p_vaddr |-> ph.p_vaddr, flags |-> PFLAGS2VMRFLAGS(ph.p_flags)]
<1>1. app[0] = "launches" /\ job.step = "segments" /\ launched' = launched
  BY DEF LoadSegment, Launching
<1>2. /\ job.req \in Requests /\ FileOf(path) # ENOENT /\ job.elf = ElfOf(path) /\ IsSeq(job.segs)
      /\ Base >= InfoPmo /\ Segments /\ SegmentsLoaded(k, path, Base, n) /\ k.next <= MaxSpawns
  BY <1>1 DEF Inv, JobOk, Beginning, Loading, Room
<1>3. /\ n < Len(Ph(path))
      /\ IF mapped[2] < 0 THEN k' = mapped[1] /\ Ends("hangs")
         ELSE k' = w /\ job' = [job EXCEPT !.segs = Append(@, seg)] /\ UNCHANGED app
  BY <1>2, BinaryIs, <1>1 DEF LoadSegment, Ph
<1>4. n \in Nat /\ n + 1 \in 1..Len(Ph(path)) /\ Len(Ph(path)) \in 0..2
  <2>1. Len(Ph(path)) \in 0..2 /\ n \in Nat
    BY <1>2, ChildParts DEF IsSeq
  <2> QED
    BY <1>3, <2>1
<1>5. ph \in PageHeader
  BY <1>2, <1>4, ChildParts DEF Parts, Ph
<1>6. MapSize(ph) \in Nat \ {0} /\ ROUND_UP(MapSize(ph)) = MapSize(ph)
  BY <1>5, SegmentPages
<1>7. Kernel(k) /\ Names(k, 0, 0, "process", 0) /\ Separate(k.maps[0])
  <2>1. Names(k, 0, 0, "process", 0)
    <3>1. k.next >= 1 /\ k.next \in Int
      BY <1>1 DEF Inv, RootOk, RootAt, Typed, Kernel
    <3> QED
      BY <3>1, ProcsAre DEF Inv, Unmade
  <2>2. Separate(k.maps[0])
    BY <1>1, RootSeparate DEF Inv, RootOk, RootAt
  <2> QED
    BY <2>1, <2>2 DEF Inv, Typed
<1>8. cells = [j \in 1..MapSize(ph) |-> cells[j]]
  BY DEF SegmentCells
<1> HIDE DEF cells, ph
<1>9. IF mapped[2] < 0 THEN Quiet(k, mapped[1])
      ELSE /\ Quiet(k, w) /\ Names(w, 0, made[2], "pmo", Len(k.pmos) + 1)
           /\ Len(w.pmos) = Len(k.pmos) + 1 /\ w.pmos[Len(k.pmos) + 1] = cells
  BY <1>6, <1>7, <1>8, Fills
<1> HIDE DEF w, mapped, made
<1>10. CASE mapped[2] < 0
  BY <1>1, <1>3, <1>9, <1>10, QuietEnd
<1>11. CASE ~(mapped[2] < 0)
  <2>1. /\ k' = w /\ job' = [job EXCEPT !.segs = Append(job.segs, seg)] /\ app' = app /\ Quiet(k, k')
        /\ Names(k', 0, made[2], "pmo", Len(k.pmos) + 1)
        /\ Len(k'.pmos) = Len(k.pmos) + 1 /\ k'.pmos[Len(k.pmos) + 1] = cells
    BY <1>3, <1>9, <1>11
  <2> DEFINE segs == Append(job.segs, seg)
  <2>2. /\ JobShape(job') /\ job'.step = "segments" /\ job'.req = job.req /\ job'.segs = segs
        /\ job'.elf = job.elf /\ job'.info = job.info
    BY <1>1, <2>1 DEF Inv, Typed, JobShape
  <2>3. /\ IsSeq(segs) /\ Len(segs) = n + 1 /\ segs[n + 1] = seg
        /\ \A i \in 1..n : segs[i] = job.segs[i]
    BY <1>2, Appended
  <2> HIDE DEF segs
  <2>4. Base \in Nat /\ Len(k.pmos) \in Nat /\ Len(k.pmos) = Base + n /\ Base' = Base
    <3>1. Base \in Nat /\ Len(k.pmos) \in Nat /\ Len(k.pmos) = Base + n
      BY <1>1, <1>2, BaseIs DEF Inv
    <3>2. job'.step \in {"segments", "map"} /\ job'.segs = segs
      BY <2>2
    <3>3. Base' = Len(k'.pmos) - (Len(segs) + 0)
      BY <3>2 DEF Base
    <3> DEFINE m == Len(k.pmos)
    <3>4. Base' = (m + 1) - (n + 1 + 0) /\ m = Base + n /\ Base \in Nat /\ m \in Nat
      BY <2>1, <2>3, <3>1, <3>3
    <3> HIDE DEF m, n
    <3>5. Base' = Base
      BY <1>4, <3>4
    <3> QED
      BY <3>1, <3>5
  <2>5. \A i \in 1..n : k'.pmos[Base + i] = k.pmos[Base + i]
    <3> DEFINE m == Len(k.pmos)
    <3>1. \A i \in 1..m : k'.pmos[i] = k.pmos[i]
      BY <2>1 DEF Quiet
    <3>2. m \in Nat /\ m = Base + n /\ Base \in Nat
      BY <2>4
    <3> HIDE DEF m, n
    <3>3. \A i \in 1..n : Base + i \in 1..m
      BY <1>4, <3>2
    <3> QED
      BY <3>1, <3>3
  <2>6. SegmentsLoaded(k', path, Base, n + 1)
    <3> SUFFICES ASSUME NEW i \in 1..(n + 1)
                 PROVE  k'.pmos[Base + i] = SegmentCells(FileOf(path), Ph(path)[i])
      BY DEF SegmentsLoaded
    <3>1. CASE i = n + 1
      <4>1. Base + i = Len(k.pmos) + 1
        BY <1>4, <2>4, <3>1
      <4> QED
        BY <2>1, <3>1, <4>1 DEF cells, ph
    <3>2. CASE i # n + 1
      <4>1. i \in 1..n
        BY <1>4, <3>2
      <4> QED
        BY <1>2, <2>5, <4>1 DEF SegmentsLoaded
    <3> QED
      BY <3>1, <3>2
  <2>7. Segments'
    <3> SUFFICES ASSUME NEW i \in 1..(n + 1)
                 PROVE  /\ segs[i].p_vaddr = Ph(path)[i].p_vaddr
                        /\ segs[i].flags = PFLAGS2VMRFLAGS(Ph(path)[i].p_flags)
                        /\ Names(k', 0, segs[i].elf_pmo, "pmo", Base + i)
      BY <2>2, <2>3, <2>4 DEF Segments
    <3>1. CASE i = n + 1
      <4>1. Base + i = Len(k.pmos) + 1
        BY <1>4, <2>4, <3>1
      <4>2. seg.p_vaddr = ph.p_vaddr /\ seg.flags = PFLAGS2VMRFLAGS(ph.p_flags) /\ seg.elf_pmo = made[2]
        OBVIOUS
      <4> HIDE DEF seg
      <4> QED
        BY <2>1, <2>3, <3>1, <4>1, <4>2 DEF ph
    <3>2. CASE i # n + 1
      <4>1. i \in 1..n
        BY <1>4, <3>2
      <4>2. Names(k', 0, job.segs[i].elf_pmo, "pmo", Base + i)
        BY <1>2, <2>1, <4>1, NamesKept, ProcsAre DEF Quiet, Segments
      <4> QED
        BY <1>2, <2>3, <4>1, <4>2 DEF Segments
    <3> QED
      BY <3>1, <3>2
  <2>8. n + 1 <= Len(Ph(path))
    BY <1>4
  <2>9. Loading'
    BY <1>2, <2>2, <2>3, <2>4, <2>6, <2>7, <2>8 DEF Loading
  <2>10. k'.next = k.next
    BY <2>1 DEF Quiet
  <2>11. JobOk'
    BY <1>2, <2>2, <2>9, <2>10 DEF JobOk, Beginning, Making, Stacked, Sent, Environed, Room
  <2>13. Top' = Top /\ Top \in Int
    BY <1>1, <2>2, <2>4, TopIs DEF Top
  <2>12. job.req.info => \A p \in Children : ~Informed(p)
    BY <1>1 DEF Inv, InfoOk
  <2> QED
    BY <1>1, <2>1, <2>2, <2>11, <2>12, <2>13, QuietKeeps
<1> QED
  BY <1>10, <1>11


\* The child that is made is the next process, which nobody has yet.
LEMMA NewProcessCapKeeps ==
  ASSUME Inv, NewProcessCap
  PROVE  Inv'
<1> DEFINE q == k.next
           made == CreateProcess(k, 0)
<1>1. /\ app[0] = "launches" /\ job.step = "segments" /\ app' = app
      /\ Len(job.segs) = Len(Loadable(job.elf))
      /\ k' = made[1] /\ job' = [job EXCEPT !.step = "map", !.child = made[2], !.mapped = 0]
      /\ launched' = [launched EXCEPT ![q] = job.req]
  BY DEF NewProcessCap, Launching
<1>2. /\ job.req \in Requests /\ FileOf(job.req.path) # ENOENT /\ job.elf = ElfOf(job.req.path)
      /\ IsSeq(job.segs) /\ Base >= InfoPmo /\ Segments
      /\ SegmentsLoaded(k, job.req.path, Base, Len(job.segs)) /\ q <= MaxSpawns
  BY <1>1 DEF Inv, JobOk, Beginning, Loading, Room
<1>3. RootAt(k, "launches") /\ q \in Int /\ q >= 1 /\ Kernel(k) /\ Typed /\ Unmade
  <2>1. RootAt(k, "launches") /\ k.next >= 1 /\ Typed /\ Unmade
    BY <1>1 DEF Inv, RootOk, RootAt
  <2>2. Kernel(k) /\ k.next \in Int
    BY <2>1, ProcsAre DEF Typed, Kernel
  <2> QED
    BY <2>1, <2>2
<1>4. q \in Children /\ q \in Procs /\ q # 0 /\ 0 \in Procs /\ Children \subseteq Procs
      /\ 0 \notin Children
  BY <1>2, <1>3, ProcsAre DEF Children, Procs
<1>5. k.caps[q] = <<>> /\ k.maps[q] = {} /\ k.main[q] = Nobody /\ app[q] = "none"
  BY <1>3, <1>4 DEF Unmade
<1>6. /\ MadeProcess(k, k', q) /\ Names(k', 0, made[2], "process", q)
      /\ \A other \in Procs \ {0, q} : k'.caps[other] = k.caps[other]
  BY <1>1, <1>3, <1>4, <1>5, CreatesProcess
<1> HIDE DEF made
<1>7. /\ JobShape(job') /\ job'.step = "map" /\ job'.child = made[2] /\ job'.mapped = 0
      /\ job'.req = job.req /\ job'.elf = job.elf /\ job'.segs = job.segs /\ job'.info = job.info
  BY <1>1 DEF Inv, Typed, JobShape, JobSteps
<1>8. /\ k'.pmos = k.pmos /\ k'.maps = k.maps /\ k'.main = k.main /\ k'.next = q + 1
      /\ Kernel(k') /\ Kept(k, k') /\ Names(k', q, 0, "process", q)
  BY <1>6 DEF MadeProcess
<1>9. Grown(k, k')
  BY <1>3, <1>8, KernelIs DEF Grown
<1>17. Lower(k, k', Top) /\ Top' = Top /\ Top \in Int
  <2>1. Base' = Base
    BY <1>1, <1>7, <1>8 DEF Base
  <2>2. Top' = Top
    BY <1>1, <1>7, <2>1 DEF Top
  <2> QED
    BY <1>9, <2>2, TopIs, GrownLower
<1>10. launched'[q] = job.req /\ \A p \in Procs : p # q => launched'[p] = launched[p]
  BY <1>1, <1>3, <1>4 DEF Typed
<1>11. Typed'
  <2>1. launched' = [p \in Procs |-> launched'[p]]
    BY <1>1, <1>3, <1>4 DEF Typed
  <2>2. \A p \in Children : launched'[p] \in Requests \cup {Nobody}
    BY <1>2, <1>3, <1>4, <1>10 DEF Typed
  <2> QED
    BY <1>1, <1>3, <1>7, <1>8, <2>1, <2>2 DEF Typed, JobShape
<1>12. Unmade'
  <2>1. ASSUME NEW p \in Procs, p < k'.next PROVE Names(k', p, 0, "process", p)
    <3>1. CASE p = q
      BY <1>8, <3>1
    <3>2. CASE p # q
      <4>1. p < q
        BY <1>3, <1>8, <2>1, <3>2, ProcsAre
      <4> QED
        BY <1>3, <1>8, <4>1, NamesKept DEF Unmade
    <3> QED
      BY <3>1, <3>2
  <2>2. ASSUME NEW p \in Procs, p >= k'.next
        PROVE  /\ k'.caps[p] = <<>> /\ k'.maps[p] = {} /\ k'.main[p] = Nobody
               /\ app'[p] = "none" /\ launched'[p] = Nobody
    <3>1. p >= q /\ p # q /\ p # 0
      BY <1>3, <1>8, <2>2, ProcsAre
    <3> QED
      BY <1>1, <1>3, <1>6, <1>8, <1>10, <3>1 DEF Unmade
  <2> QED
    BY <2>1, <2>2 DEF Unmade
<1>13. RootOk'
  <2>1. RootAt(k', "launches")
    BY <1>1, <1>3, <1>4, <1>8, <1>17, RootKept, TopIs
  <2>2. /\ launched[0] = [path |-> RootPath, info |-> FALSE]
        /\ Names(k, 0, job.info, "pmo", InfoPmo)
    BY <1>1 DEF Inv, RootOk
  <2>3. Names(k', 0, job.info, "pmo", InfoPmo)
    BY <1>3, <1>4, <1>8, <2>2, NamesKept
  <2> QED
    BY <1>1, <1>4, <1>7, <1>10, <2>1, <2>2, <2>3 DEF RootOk
<1>14. ChildrenOk'
  <2> SUFFICES ASSUME NEW p \in Children PROVE ChildGood(k', p, app'[p], launched'[p], Top')
    BY DEF ChildrenOk
  <2>1. CASE p = q
    BY <1>1, <1>5, <1>8, <2>1 DEF ChildGood
  <2>2. CASE p # q
    <3>1. p \in Procs /\ ChildGood(k, p, app[p], launched[p], Top)
      BY <1>4 DEF Inv, ChildrenOk
    <3>2. app[p] \in {"maps", "reads", "waits"} => launched[p].info
      BY <3>1 DEF ChildGood
    <3>3. ChildGood(k', p, app[p], launched[p], Top')
      BY <1>8, <1>17, <3>1, <3>2, ChildGoodKept
    <3> QED
      BY <1>1, <1>10, <2>2, <3>1, <3>3
  <2> QED
    BY <2>1, <2>2
<1>15. InfoOk'
  <2>1. ASSUME NEW p \in Children, p # q PROVE (Informed(p))' = Informed(p)
    <3>1. launched'[p] = launched[p]
      BY <1>4, <1>10, <2>1
    <3> QED
      BY <3>1 DEF Informed
  <2>2. ASSUME NEW p \in Children, p = q, (Informed(p))' PROVE job.req.info
    BY <1>10, <2>2 DEF Informed
  <2>3. job.req.info => \A p \in Children : ~Informed(p)
    BY <1>1 DEF Inv, InfoOk
  <2>4. \A p1, p2 \in Children : Informed(p1) /\ Informed(p2) => p1 = p2
    BY DEF Inv, InfoOk
  <2>5. \A p1, p2 \in Children : (Informed(p1))' /\ (Informed(p2))' => p1 = p2
    <3> SUFFICES ASSUME NEW p1 \in Children, NEW p2 \in Children, (Informed(p1))', (Informed(p2))'
                 PROVE  p1 = p2
      OBVIOUS
    <3>1. p1 # q => Informed(p1)
      BY <2>1
    <3>2. p2 # q => Informed(p2)
      BY <2>1
    <3> QED
      BY <2>2, <2>3, <2>4, <3>1, <3>2
  <2>6. Changed' = Changed
    BY <1>1, <1>5, <2>1 DEF Changed
  <2> QED
    BY <1>1, <1>7, <1>8, <2>5, <2>6 DEF Inv, InfoOk
<1>16. JobOk'
  <2>1. Base' = Base /\ Newest' = q
    <3>1. Base' = Len(k.pmos) - (Len(job.segs) + 0) /\ Base = Len(k.pmos) - (Len(job.segs) + 0)
      BY <1>1, <1>7, <1>8 DEF Base
    <3>2. Newest' = q + 1 - 1
      BY <1>3, <1>8 DEF Newest
    <3> QED
      BY <1>3, <3>1, <3>2
  <2>2. Len(job.segs) = Len(Ph(job.req.path)) /\ Len(job.segs) \in 0..2
    <3>1. Len(job.segs) = Len(Ph(job.req.path))
      BY <1>1, <1>2 DEF Ph
    <3> QED
      BY <1>2, <3>1, ChildParts
  <2>3. Segments'
    <3> SUFFICES ASSUME NEW i \in 1..Len(job.segs)
                 PROVE  /\ job.segs[i].p_vaddr = Ph(job.req.path)[i].p_vaddr
                        /\ job.segs[i].flags = PFLAGS2VMRFLAGS(Ph(job.req.path)[i].p_flags)
                        /\ Names(k', 0, job.segs[i].elf_pmo, "pmo", Base + i)
      BY <1>7, <2>1 DEF Segments
    <3> QED
      BY <1>2, <1>3, <1>4, <1>8, NamesKept DEF Segments
  <2>4. Loading'
    <3>1. Len(job.segs) <= Len(Ph(job.req.path))
      BY <2>2
    <3>2. SegmentsLoaded(k', job.req.path, Base, Len(job.segs))
      BY <1>2, <1>8 DEF SegmentsLoaded
    <3> QED
      BY <1>2, <1>7, <2>1, <2>3, <3>1, <3>2 DEF Loading
  <2>5. k'.maps[q] = ChildRegions(job.req.path, Base, 0, FALSE, FALSE, FALSE)
    BY <1>5, <1>8 DEF ChildRegions
  <2>6. Making'
    <3>1. job'.mapped \in 0..2 /\ job'.mapped <= Len(job.segs)
      BY <1>7, <2>2
    <3>2. ~(job'.req.info /\ job'.step \in {"env", "stack", "thread"}) /\ job'.step # "thread"
      BY <1>7
    <3>3. k'.maps[q] = SoFar(job'.req, Base', job'.step, job'.mapped)
      BY <1>7, <2>1, <2>5, <3>2 DEF ChildRegions, SoFar
    <3> QED
      BY <1>1, <1>4, <1>5, <1>6, <1>7, <1>10, <2>1, <2>2, <3>1, <3>3 DEF Making
  <2> QED
    BY <1>2, <1>7, <2>4, <2>6 DEF JobOk, Beginning, Stacked, Sent, Environed, Room
<1> QED
  BY <1>11, <1>12, <1>13, <1>14, <1>15, <1>16 DEF Inv

Later == {"map", "caps", "shared", "env", "stack", "thread"}

\* The child in the making.
LEMMA ChildMade ==
  ASSUME Inv, app[0] = "launches", job.step \in Later
  PROVE  /\ Kernel(k) /\ 0 \in Procs /\ Newest \in Procs /\ Newest \in Children /\ Newest # 0
         /\ app[Newest] = "none" /\ launched[Newest] = job.req /\ job.req \in Requests
         /\ Names(k, 0, job.child, "process", Newest)
         /\ FileOf(job.req.path) # ENOENT /\ job.elf = ElfOf(job.req.path)
         /\ IsSeq(job.segs) /\ DOMAIN job.segs = 1..Len(job.segs)
         /\ Len(job.segs) = Len(Ph(job.req.path)) /\ Len(job.segs) \in 0..2
         /\ InfoPmo \in Nat /\ Base \in Nat /\ InfoPmo <= Base /\ Len(k.pmos) \in Nat
         /\ Len(k.pmos) = Base + Len(job.segs) + (IF job.step = "map" THEN 0 ELSE 1)
         /\ InfoPmo \in 1..Len(k.pmos)
         /\ Segments /\ SegmentsLoaded(k, job.req.path, Base, Len(job.segs))
         /\ job.mapped \in 0..2 /\ job.mapped <= Len(job.segs)
         /\ job.step # "map" => job.mapped = 2 /\ Len(job.segs) = 2
         /\ k.maps[Newest] = SoFar(job.req, Base, job.step, job.mapped)
<1> DEFINE n == Len(job.segs)
           m == Len(k.pmos)
<1>1. JobOk /\ Typed /\ Kernel(k)
  BY DEF Inv, Typed
<1>2. job.step \notin {"idle", "read", "segments"}
  BY DEF Later
<1>3. Loading /\ Making /\ Beginning
  BY <1>1 DEF JobOk
<1>4. /\ FileOf(job.req.path) # ENOENT /\ job.elf = ElfOf(job.req.path) /\ IsSeq(job.segs)
      /\ Base >= InfoPmo /\ Segments /\ SegmentsLoaded(k, job.req.path, Base, n)
      /\ job.req \in Requests
  BY <1>2, <1>3 DEF Loading, Beginning
<1>5. /\ n = Len(Ph(job.req.path))
      /\ Newest \in Children /\ launched[Newest] = job.req /\ app[Newest] = "none"
      /\ Names(k, 0, job.child, "process", Newest)
      /\ job.mapped \in 0..2 /\ job.mapped <= n
      /\ job.step # "map" => job.mapped = 2
      /\ k.maps[Newest] = SoFar(job.req, Base, job.step, job.mapped)
  BY <1>2, <1>3 DEF Making
<1>6. n \in 0..2 /\ DOMAIN job.segs = 1..n
  BY <1>4, <1>5, ChildParts, SequenceIs
<1>7. /\ Base \in Nat /\ m \in Nat /\ InfoPmo \in Nat
      /\ job.step \in {"segments", "map"} => m = Base + n
      /\ job.step \notin {"segments", "map"} => m = Base + n + 1
  BY <1>1, <1>4, BaseIs
<1>8. Newest \in Procs /\ Newest # 0 /\ 0 \in Procs
  BY <1>5, ProcsAre DEF Children
<1> HIDE DEF n, m
<1>9. m = Base + n + (IF job.step = "map" THEN 0 ELSE 1)
  <2>1. CASE job.step = "map"
    BY <1>6, <1>7, <2>1
  <2>2. CASE job.step # "map"
    BY <1>2, <1>6, <1>7, <2>2
  <2> QED
    BY <2>1, <2>2
<1>10. InfoPmo <= Base /\ InfoPmo \in 1..m
  <2>1. InfoPmo <= Base
    BY <1>4, <1>7
  <2>2. Base <= m
    BY <1>2, <1>6, <1>7
  <2>3. InfoPmo >= 1
    BY Numbers
  <2>4. InfoPmo \in Nat /\ Base \in Nat /\ m \in Nat
    BY <1>7
  <2>5. InfoPmo \in 1..m
    BY <2>1, <2>2, <2>3, <2>4
  <2> QED
    BY <2>1, <2>5
<1>11. ASSUME job.step # "map" PROVE n = 2
  <2>1. job.mapped = 2 /\ job.mapped <= n
    BY <1>5, <1>11
  <2> QED
    BY <1>6, <2>1
<1> QED
  BY <1>1, <1>4, <1>5, <1>6, <1>7, <1>8, <1>9, <1>10, <1>11 DEF n, m

\* The part of the invariant that a call for the child leaves as it is.
LEMMA GoesOnCells ==
  ASSUME Inv, app[0] = "launches", job.step \in Later, Kernel(k'), Kept(k, k'), k'.next = k.next,
         \A i \in 1..Len(job.segs) : k'.pmos[Base + i] = k.pmos[Base + i],
         job'.step \in Later, job'.req = job.req, job'.elf = job.elf, job'.segs = job.segs,
         job'.child = job.child, Base' = Base, UNCHANGED <<launched, app>>,
         job'.mapped \in 0..2, job'.mapped <= Len(job.segs), job'.step # "map" => job'.mapped = 2,
         k'.maps[Newest] = SoFar(job.req, Base, job'.step, job'.mapped)
  PROVE  Beginning' /\ Loading' /\ Making' /\ Room'
<1> DEFINE n == Len(job.segs)
           m == Len(k.pmos)
<1>1. /\ 0 \in Procs /\ Newest \in Children /\ app[Newest] = "none" /\ launched[Newest] = job.req
      /\ job.req \in Requests /\ Names(k, 0, job.child, "process", Newest)
      /\ FileOf(job.req.path) # ENOENT /\ job.elf = ElfOf(job.req.path)
      /\ IsSeq(job.segs) /\ n = Len(Ph(job.req.path)) /\ n \in 0..2
      /\ InfoPmo \in Nat /\ Base \in Nat /\ InfoPmo <= Base /\ m \in Nat
      /\ m = Base + n + (IF job.step = "map" THEN 0 ELSE 1)
      /\ Segments /\ SegmentsLoaded(k, job.req.path, Base, n)
  BY ChildMade
<1>2. Kernel(k)
  BY DEF Inv, Typed
<1>3. Newest' = Newest
  BY DEF Newest
<1>4. \A i \in 1..n : k'.pmos[Base + i] = k.pmos[Base + i]
  OBVIOUS
<1>5. SegmentsLoaded(k', job.req.path, Base, n)
  BY <1>1, <1>4 DEF SegmentsLoaded
<1>6. Segments'
  <2> SUFFICES ASSUME NEW i \in 1..n
               PROVE  /\ job.segs[i].p_vaddr = Ph(job.req.path)[i].p_vaddr
                      /\ job.segs[i].flags = PFLAGS2VMRFLAGS(Ph(job.req.path)[i].p_flags)
                      /\ Names(k', 0, job.segs[i].elf_pmo, "pmo", Base + i)
    BY DEF Segments
  <2> QED
    BY <1>1, <1>2, NamesKept DEF Segments
<1>7. Loading'
  <2>1. n <= Len(Ph(job.req.path)) /\ Base >= InfoPmo
    BY <1>1
  <2> QED
    BY <1>1, <1>5, <1>6, <2>1 DEF Loading
<1>8. Names(k', 0, job.child, "process", Newest)
  BY <1>1, <1>2, NamesKept
<1> HIDE DEF Base
<1>9. Making'
  BY <1>1, <1>3, <1>8 DEF Making
<1>10. Beginning' /\ Room'
  BY <1>1 DEF Beginning, Room, Later
<1> QED
  BY <1>7, <1>9, <1>10

\* A call of the launch past the making of the process, which keeps the job as it is.
LEMMA GoesOn ==
  ASSUME Inv, app[0] = "launches", job.step \in Later, Grown(k, k'), k'.next = k.next,
         job'.step \in Later, job'.req = job.req, job'.elf = job.elf, job'.segs = job.segs,
         job'.child = job.child, Base' = Base, UNCHANGED <<launched, app>>,
         job'.mapped \in 0..2, job'.mapped <= Len(job.segs), job'.step # "map" => job'.mapped = 2,
         k'.maps[Newest] = SoFar(job.req, Base, job'.step, job'.mapped)
  PROVE  Beginning' /\ Loading' /\ Making' /\ Room'
<1> DEFINE n == Len(job.segs)
           m == Len(k.pmos)
<1>1. /\ n \in 0..2 /\ InfoPmo \in Nat /\ Base \in Nat /\ InfoPmo <= Base /\ m \in Nat
      /\ m = Base + n + (IF job.step = "map" THEN 0 ELSE 1)
  BY ChildMade
<1>2. Kernel(k') /\ Kept(k, k') /\ \A i \in 1..m : i # InfoPmo => k'.pmos[i] = k.pmos[i]
  BY DEF Grown
<1>3. \A i \in 1..n : k'.pmos[Base + i] = k.pmos[Base + i]
  <2> HIDE DEF n, m
  <2>1. \A i \in 1..n : Base + i \in 1..m /\ Base + i # InfoPmo
    BY <1>1
  <2> QED
    BY <1>2, <2>1
<1> QED
  BY <1>2, <1>3, GoesOnCells

\* A call that gives the child one more region, or one more capability.
LEMMA ChildGrown ==
  ASSUME Inv, app[0] = "launches", job.step \in Later, Kernel(k'), Kept(k, k'), k'.pmos = k.pmos,
         k'.main = k.main, k'.next = k.next,
         \A p \in Procs : p # Newest => k'.maps[p] = k.maps[p]
  PROVE  /\ Grown(k, k') /\ k'.pmos[InfoPmo] = k.pmos[InfoPmo]
         /\ k'.main = k.main /\ k'.next = k.next
         /\ \A p \in Procs : p = 0 \/ app[p] # "none" \/ p >= k.next => k'.maps[p] = k.maps[p]
<1>1. Kernel(k) /\ Newest # 0 /\ app[Newest] = "none" /\ Len(k.pmos) \in Nat
  BY ChildMade, KernelIs
<1>2. Grown(k, k')
  BY <1>1 DEF Grown
<1>3. k.next \in Int /\ Newest = k.next - 1
  BY <1>1, ProcsAre DEF Newest, Kernel
<1>4. ASSUME NEW p \in Procs, p >= k.next PROVE p # Newest
  BY <1>3, <1>4, ProcsAre
<1> QED
  BY <1>1, <1>2, <1>4

\* Only sys_map_pmo() for the child, of an object the root process has.
LEMMA MapsForChild ==
  ASSUME Inv, app[0] = "launches", job.step \in Later, NEW pmo \in 1..Len(k.pmos), NEW cap,
         Names(k, 0, cap, "pmo", pmo), NEW addr, NEW at \in Nat, ROUND_DOWN(addr) = at,
         NEW perm \in Nat
  PROVE  LET x == MapPmo(k, 0, job.child, cap, addr, perm)
             n == Len(k.pmos[pmo])
         IN  IF Clashes(k, Newest, at, n) THEN x[1] = k /\ x[2] = EPERM
             ELSE x[2] \in Nat /\ WithRegion(k, x[1], Newest, Region(at, n, perm, pmo))
<1> DEFINE x == MapPmo(k, 0, job.child, cap, addr, perm)
           n == Len(k.pmos[pmo])
<1>1. Kernel(k) /\ 0 \in Procs /\ Newest \in Procs /\ Names(k, 0, job.child, "process", Newest)
  BY ChildMade
<1> QED
  BY <1>1, MapsObject

\* A region more for the child in the making.
LEMMA RegionAdded ==
  ASSUME Inv, app[0] = "launches", job.step \in Later, NEW r, WithRegion(k, k', Newest, r)
  PROVE  /\ Grown(k, k') /\ k'.pmos = k.pmos /\ k'.pmos[InfoPmo] = k.pmos[InfoPmo]
         /\ k'.main = k.main /\ k'.next = k.next /\ k'.maps[Newest] = k.maps[Newest] \cup {r}
         /\ \A p \in Procs : p = 0 \/ app[p] # "none" \/ p >= k.next => k'.maps[p] = k.maps[p]
         /\ \A p \in Procs : p >= k.next => k'.caps[p] = k.caps[p]
<1>1. /\ Kernel(k') /\ Kept(k, k') /\ k'.pmos = k.pmos /\ k'.main = k.main /\ k'.next = k.next
      /\ k'.maps[Newest] = k.maps[Newest] \cup {r}
      /\ \A p \in Procs : p # Newest => k'.maps[p] = k.maps[p] /\ k'.caps[p] = k.caps[p]
  BY DEF WithRegion
<1>2. k.next \in Int /\ Newest = k.next - 1
  BY ChildMade, ProcsAre DEF Newest, Kernel
<1>3. \A p \in Procs : p >= k.next => p # Newest
  BY <1>2, ProcsAre
<1> QED
  BY <1>1, <1>3, ChildGrown

\* The next segment is a region of the child.
LEMMA MapSegmentKeeps ==
  ASSUME Inv, MapSegment
  PROVE  Inv'
<1> DEFINE path == job.req.path
           i == job.mapped + 1
           seg == job.segs[i]
           x == MapPmo(k, 0, job.child, seg.elf_pmo, seg.p_vaddr, seg.flags)
           ph == Ph(path)[i]
           pmo == Base + i
           at == ROUND_DOWN(ph.p_vaddr)
<1>1. /\ app[0] = "launches" /\ job.step = "map" /\ job.mapped < 2 /\ launched' = launched
      /\ IF i \notin DOMAIN job.segs THEN Fails /\ k' = k
         ELSE /\ k' = x[1]
              /\ IF x[2] < 0 THEN Fails
                 ELSE job' = [job EXCEPT !.mapped = i] /\ UNCHANGED app
  BY DEF MapSegment, Launching
<1>2. job.step \in Later /\ Kernel(k) /\ Grown(k, k)
  BY <1>1, SameGrown DEF Later, Inv, Typed
<1>3. ASSUME Fails, k' = k PROVE Inv'
  BY <1>1, <1>2, <1>3, EndKeeps DEF Fails
<1>4. CASE i \notin DOMAIN job.segs
  BY <1>1, <1>3, <1>4
<1>5. CASE i \in DOMAIN job.segs
  <2>1. /\ job.req \in Requests /\ FileOf(path) # ENOENT /\ IsSeq(job.segs)
        /\ DOMAIN job.segs = 1..Len(job.segs) /\ Len(job.segs) = Len(Ph(path))
        /\ Len(job.segs) \in 0..2 /\ Base \in Nat /\ Len(k.pmos) \in Nat
        /\ Len(k.pmos) = Base + Len(job.segs) /\ Segments
        /\ SegmentsLoaded(k, path, Base, Len(job.segs)) /\ job.mapped \in 0..2
    <3>1. Len(k.pmos) = Base + Len(job.segs) + 0
      BY <1>1, <1>2, ChildMade
    <3>2. Base \in Nat /\ Len(job.segs) \in 0..2
      BY <1>1, <1>2, ChildMade
    <3>3. Len(k.pmos) = Base + Len(job.segs)
      BY <3>1, <3>2
    <3>5. /\ job.req \in Requests /\ FileOf(path) # ENOENT /\ IsSeq(job.segs)
          /\ DOMAIN job.segs = 1..Len(job.segs) /\ Len(job.segs) = Len(Ph(path))
          /\ Len(k.pmos) \in Nat
      BY <1>1, <1>2, ChildMade
    <3>6. Segments /\ SegmentsLoaded(k, path, Base, Len(job.segs)) /\ job.mapped \in 0..2
      BY <1>1, <1>2, ChildMade
    <3> QED
      BY <3>2, <3>3, <3>5, <3>6
  <2>11. k.maps[Newest] = SoFar(job.req, Base, job.step, job.mapped)
    BY <1>1, <1>2, ChildMade
  <2>2. i \in 1..Len(job.segs) /\ i \in 1..Len(Ph(path)) /\ i \in 1..2 /\ i \in Nat
    <3> DEFINE n == Len(job.segs)
    <3>1. i \in 1..n /\ n \in 0..2
      BY <1>5, <2>1
    <3> HIDE DEF n, i
    <3>2. i \in 1..2 /\ i \in Nat
      BY <3>1
    <3> QED
      BY <2>1, <3>1, <3>2 DEF n
  <2>3. pmo \in 1..Len(k.pmos) /\ pmo \in Nat
    BY <2>1, <2>2
  <2>4. /\ seg.p_vaddr = ph.p_vaddr /\ seg.flags = PFLAGS2VMRFLAGS(ph.p_flags)
        /\ Names(k, 0, seg.elf_pmo, "pmo", pmo)
    BY <2>1, <2>2 DEF Segments
  <2>5. ph \in PageHeader
    BY <2>1, <2>2, ChildParts DEF Parts, Ph
  <2>6. at \in Nat /\ MapSize(ph) \in Nat \ {0} /\ PFLAGS2VMRFLAGS(ph.p_flags) \in Nat
    BY <2>5, SegmentPages
  <2>7. Len(k.pmos[pmo]) = MapSize(ph)
    <3>1. k.pmos[pmo] = SegmentCells(FileOf(path), ph)
      BY <2>1, <2>2 DEF SegmentsLoaded
    <3> DEFINE n == MapSize(ph)
               cells == k.pmos[pmo]
    <3>2. cells = [j \in 1..n |-> cells[j]]
      BY <3>1 DEF SegmentCells
    <3>3. n \in Nat
      BY <2>6
    <3> HIDE DEF cells, n
    <3>4. Len(cells) = n
      BY <3>2, <3>3, SequenceOf
    <3> QED
      BY <3>4 DEF cells, n
  <2> HIDE DEF i, seg, ph, pmo, at
  <2>8. IF Clashes(k, Newest, at, MapSize(ph)) THEN x[1] = k /\ x[2] = EPERM
        ELSE x[2] \in Nat /\ WithRegion(k, x[1], Newest,
                                Region(at, MapSize(ph), PFLAGS2VMRFLAGS(ph.p_flags), pmo))
    <3>1. ROUND_DOWN(seg.p_vaddr) = at /\ seg.flags \in Nat
      BY <2>4, <2>6 DEF at
    <3> QED
      BY <1>1, <1>2, <2>3, <2>4, <2>6, <2>7, <3>1, MapsForChild
  <2> HIDE DEF x
  <2>9. CASE Clashes(k, Newest, at, MapSize(ph))
    BY <1>1, <1>3, <1>5, <2>8, <2>9 DEF EPERM
  <2>10. CASE ~Clashes(k, Newest, at, MapSize(ph))
    <3> DEFINE r == SegmentAt(ph, pmo)
    <3>1. x[2] \in Nat /\ ~(x[2] < 0) /\ WithRegion(k, x[1], Newest, r)
      BY <2>8, <2>10 DEF SegmentAt, at
    <3> HIDE DEF r
    <3>2. k' = x[1] /\ job' = [job EXCEPT !.mapped = i] /\ app' = app
      BY <1>1, <1>5, <3>1
    <3>3. WithRegion(k, k', Newest, r)
      BY <3>1, <3>2
    <3>4. /\ JobShape(job') /\ job'.step = "map" /\ job'.child = job.child /\ job'.mapped = i
          /\ job'.req = job.req /\ job'.elf = job.elf /\ job'.segs = job.segs /\ job'.info = job.info
      BY <1>1, <3>2 DEF Inv, Typed, JobShape, JobSteps
    <3>5. /\ Grown(k, k') /\ k'.pmos = k.pmos /\ k'.pmos[InfoPmo] = k.pmos[InfoPmo]
          /\ k'.main = k.main /\ k'.next = k.next /\ k'.maps[Newest] = k.maps[Newest] \cup {r}
          /\ \A p \in Procs : p = 0 \/ app[p] # "none" \/ p >= k.next => k'.maps[p] = k.maps[p]
          /\ \A p \in Procs : p >= k.next => k'.caps[p] = k.caps[p]
      BY <1>1, <1>2, <3>3, RegionAdded
    <3>6. Base' = Base
      BY <1>1, <3>4, <3>5 DEF Base
    <3>7. k'.maps[Newest] = ChildRegions(path, Base, i, FALSE, FALSE, FALSE)
      <4>1. k.maps[Newest] = ChildRegions(path, Base, job.mapped, FALSE, FALSE, FALSE)
        BY <1>1, <2>11 DEF ChildRegions, SoFar
      <4>2. 1..i = (1..job.mapped) \cup {i}
        BY <2>1 DEF i
      <4>3. r = SegmentAt(Ph(path)[i], Base + i)
        BY DEF r, ph, pmo
      <4> HIDE DEF Base
      <4> QED
        BY <3>5, <4>1, <4>2, <4>3 DEF ChildRegions
    <3>8. /\ ~(job.req.info /\ job'.step \in {"env", "stack", "thread"})
          /\ job'.step # "thread" /\ job'.step \in Later
      BY <3>4 DEF Later
    <3>9. k'.maps[Newest] = SoFar(job.req, Base, job'.step, job'.mapped)
      BY <3>4, <3>7, <3>8 DEF ChildRegions, SoFar
    <3>10. job'.mapped \in 0..2 /\ job'.mapped <= Len(job.segs)
      BY <2>1, <2>2, <3>4
    <3>11. Beginning' /\ Loading' /\ Making' /\ Room'
      BY <1>1, <1>2, <3>2, <3>4, <3>5, <3>6, <3>8, <3>9, <3>10, GoesOn
    <3>12. JobOk'
      BY <3>4, <3>11 DEF JobOk, Stacked, Sent, Environed
    <3>14. Top' = Top /\ Top \in Int
      BY <1>1, <3>4, <3>6, TopIs DEF Top
    <3>13. app' = [app EXCEPT ![0] = "launches"]
      BY <1>1, <3>2 DEF Inv, Typed
    <3> QED
      BY <1>1, <3>4, <3>5, <3>12, <3>13, <3>14, CallKeeps
  <2> QED
    BY <2>9, <2>10
<1> QED
  BY <1>4, <1>5

\* The stack of the child is its third object.
LEMMA CreateStackKeeps ==
  ASSUME Inv, CreateStack
  PROVE  Inv'
<1> DEFINE made == CreatePmo(k, 0, StackSize)
           m == Len(k.pmos)
           n == Len(job.segs)
<1>1. /\ app[0] = "launches" /\ job.step = "map" /\ job.mapped = 2
      /\ k' = made[1] /\ job' = [job EXCEPT !.step = "caps", !.stack = made[2]]
      /\ app' = app /\ launched' = launched
  BY DEF CreateStack, Launching
<1>2. job.step \in Later /\ Kernel(k) /\ 0 \in Procs
  BY <1>1, ProcsAre DEF Later, Inv, Typed
<1>3. /\ OneMore(k, k', StackSize) /\ Names(k', 0, made[2], "pmo", m + 1)
      /\ \A q \in Procs : q # 0 => k'.caps[q] = k.caps[q]
  BY <1>1, <1>2, Created, Sizes, PageAreas
<1> HIDE DEF made
<1>4. /\ JobShape(job') /\ job'.step = "caps" /\ job'.stack = made[2] /\ job'.mapped = 2
      /\ job'.req = job.req /\ job'.elf = job.elf /\ job'.segs = job.segs
      /\ job'.child = job.child /\ job'.info = job.info
  BY <1>1 DEF Inv, Typed, JobShape, JobSteps
<1>5. /\ Kernel(k') /\ Kept(k, k') /\ k'.maps = k.maps /\ k'.main = k.main /\ k'.next = k.next
      /\ Len(k'.pmos) = m + 1 /\ \A i \in 1..m : k'.pmos[i] = k.pmos[i]
      /\ Len(k'.pmos[m + 1]) = StackSize
  BY <1>3 DEF OneMore
<1>6. m \in Nat /\ n \in 0..2 /\ Base \in Nat /\ job.mapped <= n /\ m = Base + n + 0
  BY <1>1, <1>2, ChildMade
<1>7. n = 2 /\ m = Base + 2
  <2> HIDE DEF n, m
  <2> QED
    BY <1>1, <1>6
<1>8. Quiet(k, k')
  BY <1>2, <1>3, <1>5, <1>6 DEF Quiet, OneMore
<1>9. Base' = Base
  <2>1. Base' = Len(k'.pmos) - (n + 1)
    BY <1>4 DEF Base
  <2>3. Len(k'.pmos) = m + 1
    BY <1>5
  <2> HIDE DEF n, m
  <2>2. Base' = m + 1 - (n + 1)
    BY <1>6, <2>1, <2>3
  <2> QED
    BY <1>6, <1>7, <2>2
<1>10. Grown(k, k')
  BY <1>1, <1>8, QuietGrown
<1>11. k'.maps[Newest] = SoFar(job.req, Base, job'.step, job'.mapped)
  <2>1. k.maps[Newest] = SoFar(job.req, Base, job.step, job.mapped)
    BY <1>1, <1>2, ChildMade
  <2>2. ~(job.req.info /\ job.step \in {"env", "stack", "thread"}) /\ job.step # "thread"
        /\ ~(job.req.info /\ job'.step \in {"env", "stack", "thread"}) /\ job'.step # "thread"
    BY <1>1, <1>4
  <2> QED
    BY <1>1, <1>4, <1>5, <2>1, <2>2 DEF SoFar, ChildRegions
<1>12. Beginning' /\ Loading' /\ Making' /\ Room'
  <2>1. job'.step \in Later /\ job'.mapped \in 0..2
    BY <1>4 DEF Later
  <2>2. job'.mapped <= Len(job.segs)
    BY <1>4, <1>7
  <2> QED
    BY <1>1, <1>2, <1>4, <1>5, <1>9, <1>10, <1>11, <2>1, <2>2, GoesOn
<1>13. Stacked'
  <2>1. m + 1 = Base + 3
    <3> HIDE DEF m
    <3> QED
      BY <1>6, <1>7
  <2> QED
    BY <1>3, <1>4, <1>5, <1>9, <2>1 DEF Stacked
<1>14. JobOk'
  BY <1>4, <1>12, <1>13 DEF JobOk, Sent, Environed
<1>15. Top' \in Int /\ Top <= Top'
  <2>1. Top' = Base /\ Top = Base
    BY <1>1, <1>4, <1>9 DEF Top
  <2> QED
    BY <1>6, <2>1
<1> QED
  BY <1>1, <1>4, <1>8, <1>14, <1>15, QuietKeeps

\* The stack stays what it is in the calls that follow,
LEMMA StackStays ==
  ASSUME Inv, app[0] = "launches", job.step \in Later, job.step # "map", Grown(k, k'),
         job'.stack = job.stack, Base' = Base
  PROVE  /\ Stacked' /\ k'.pmos[Base + 3] = k.pmos[Base + 3] /\ Base + 3 = Len(k.pmos)
         /\ Names(k, 0, job.stack, "pmo", Base + 3) /\ Len(k.pmos[Base + 3]) = StackSize
<1> DEFINE m == Len(k.pmos)
           n == Len(job.segs)
<1>1. /\ Names(k, 0, job.stack, "pmo", Base + 3) /\ Len(k.pmos[Base + 3]) = StackSize
  BY DEF Inv, JobOk, Stacked, Later
<1>2. m \in Nat /\ n \in 0..2 /\ Base \in Nat /\ InfoPmo \in Nat /\ InfoPmo <= Base
      /\ m = Base + n + 1
  BY ChildMade
<1>3. n = 2
  BY ChildMade
<1>4. m = Base + 3 /\ Base + 3 \in 1..m /\ Base + 3 # InfoPmo
  <2> HIDE DEF m, n
  <2> QED
    BY <1>2, <1>3
<1>5. k'.pmos[Base + 3] = k.pmos[Base + 3]
  BY <1>4 DEF Grown
<1>6. Names(k', 0, job.stack, "pmo", Base + 3)
  BY <1>1, ProcsAre, NamesKept DEF Grown
<1>7. Stacked'
  BY <1>1, <1>5, <1>6 DEF Stacked
<1> QED
  BY <1>1, <1>4, <1>5, <1>7

\* and so does the capability for the page,
LEMMA SentStays ==
  ASSUME Inv, app[0] = "launches", job.step \in {"shared", "env", "stack", "thread"},
         Kernel(k'), Kept(k, k'), k'.next = k.next, job'.req = job.req, job'.copies = job.copies
  PROVE  Sent'
<1>1. IF job.req.info THEN /\ job.copies = <<job.copies[1]>>
                           /\ Names(k, Newest, job.copies[1], "pmo", InfoPmo)
      ELSE job.copies = <<>>
  BY DEF Inv, JobOk, Sent
<1>2. Kernel(k) /\ Newest \in Procs /\ Newest' = Newest
  BY ChildMade DEF Later, Newest
<1>3. job.req.info => Names(k', Newest, job.copies[1], "pmo", InfoPmo)
  BY <1>1, <1>2, NamesKept
<1> HIDE DEF Newest
<1> QED
  BY <1>1, <1>2, <1>3 DEF Sent

\* and the environment page.
LEMMA EnvironedStays ==
  ASSUME Inv, app[0] = "launches", job.step \in {"stack", "thread"}, Grown(k, k'),
         job'.stack = job.stack, Base' = Base, job'.req = job.req, job'.copies = job.copies
  PROVE  Environed'
<1>1. EnvAt(k, Base + 3, ChildEnv(job.req, job.copies[1]))
  BY DEF Inv, JobOk, Environed
<1>2. k'.pmos[Base + 3] = k.pmos[Base + 3]
  BY StackStays DEF Later
<1> QED
  BY <1>1, <1>2 DEF Environed, EnvAt

\* The info page, as the root process knows it.
LEMMA InfoIs ==
  ASSUME Inv, app[0] = "launches"
  PROVE  /\ Names(k, 0, job.info, "pmo", InfoPmo) /\ Len(k.pmos[InfoPmo]) = PageSize
         /\ InfoPmo \in Nat /\ InfoPmo \in 1..Len(k.pmos)
<1>1. Names(k, 0, job.info, "pmo", InfoPmo) /\ Len(k.pmos) >= NR + 3
  BY DEF Inv, RootOk, RootAt
<1>2. Len(k.pmos[InfoPmo]) = PageSize
  BY DEF Inv, InfoOk
<1>3. Len(k.pmos) \in Nat
  BY KernelIs DEF Inv, Typed
<1>4. InfoPmo \in Nat /\ InfoPmo \in 1..Len(k.pmos)
  BY <1>1, <1>3, Numbers
<1> QED
  BY <1>1, <1>2, <1>4

\* What goes to the child is the capability of the info page, or nothing.
LEMMA TransferToChildKeeps ==
  ASSUME Inv, TransferToChild
  PROVE  Inv'
<1> DEFINE copied == TransferCaps(k, 0, job.child, caps_to_send)
           x == CapCopy(k, 0, Newest, job.info)
<1>1. /\ app[0] = "launches" /\ job.step = "caps" /\ k' = copied[1] /\ app' = app
      /\ launched' = launched /\ job' = [job EXCEPT !.step = "shared", !.copies = copied[2]]
  BY DEF TransferToChild, Launching
<1>2. job.step \in Later /\ job.step # "map"
  BY <1>1 DEF Later
<1>3. /\ Kernel(k) /\ 0 \in Procs /\ Newest \in Procs /\ Names(k, 0, job.child, "process", Newest)
      /\ Names(k, 0, job.info, "pmo", InfoPmo) /\ InfoPmo \in Nat
  BY <1>1, <1>2, ChildMade, InfoIs
<1>4. copied = IF job.req.info THEN <<x[1], <<x[2]>>>> ELSE <<k, <<>>>>
  <2>1. copied = TransferCapsTo(k, 0, Newest, caps_to_send)
    BY <1>3, Named DEF TransferCaps
  <2> HIDE DEF copied
  <2> QED
    BY <2>1, TransfersOne DEF caps_to_send
<1>5. /\ OnlyCaps(k, x[1]) /\ Names(x[1], Newest, x[2], "pmo", InfoPmo)
      /\ \A other \in Procs : other # Newest => x[1].caps[other] = k.caps[other]
  BY <1>3, Copied DEF CapTypes
<1> HIDE DEF x, copied
<1>6. /\ OnlyCaps(k, k')
      /\ \A other \in Procs : other # Newest => k'.caps[other] = k.caps[other]
  <2>1. CASE job.req.info
    BY <1>1, <1>4, <1>5, <2>1
  <2>2. CASE ~job.req.info
    BY <1>1, <1>3, <1>4, <2>2, KeptSame DEF OnlyCaps
  <2> QED
    BY <2>1, <2>2
<1>7. /\ JobShape(job') /\ job'.step = "shared" /\ job'.stack = job.stack /\ job'.mapped = job.mapped
      /\ job'.req = job.req /\ job'.elf = job.elf /\ job'.segs = job.segs
      /\ job'.child = job.child /\ job'.info = job.info /\ job'.copies = copied[2]
  BY <1>1 DEF Inv, Typed, JobShape, JobSteps
<1>8. Kernel(k') /\ Kept(k, k') /\ k'.pmos = k.pmos /\ k'.maps = k.maps /\ k'.main = k.main
      /\ k'.next = k.next
  BY <1>6 DEF OnlyCaps
<1>9. /\ Grown(k, k') /\ k'.pmos[InfoPmo] = k.pmos[InfoPmo]
      /\ \A p \in Procs : p = 0 \/ app[p] # "none" \/ p >= k.next => k'.maps[p] = k.maps[p]
  BY <1>1, <1>2, <1>8, ChildGrown
<1>10. Base' = Base /\ Top' = Top /\ Newest' = Newest
  <2>1. Base' = Base
    BY <1>1, <1>7, <1>8 DEF Base
  <2> QED
    BY <1>1, <1>7, <1>8, <2>1 DEF Top, Newest
<1>11. k'.maps[Newest] = SoFar(job.req, Base, job'.step, job'.mapped)
  <2>1. k.maps[Newest] = SoFar(job.req, Base, job.step, job.mapped)
    BY <1>1, <1>2, ChildMade
  <2>2. ~(job.req.info /\ job.step \in {"env", "stack", "thread"}) /\ job.step # "thread"
        /\ ~(job.req.info /\ job'.step \in {"env", "stack", "thread"}) /\ job'.step # "thread"
    BY <1>1, <1>7
  <2> QED
    BY <1>1, <1>7, <1>8, <2>1, <2>2 DEF SoFar, ChildRegions
<1>12. Beginning' /\ Loading' /\ Making' /\ Room'
  <2>1. job'.step \in Later /\ job'.mapped \in 0..2 /\ job'.mapped = 2
    BY <1>1, <1>2, <1>7, ChildMade DEF Later
  <2>2. job'.mapped <= Len(job.segs)
    BY <1>1, <1>2, <1>7, ChildMade
  <2> QED
    BY <1>1, <1>2, <1>7, <1>8, <1>9, <1>10, <1>11, <2>1, <2>2, GoesOn
<1>13. Stacked'
  BY <1>1, <1>2, <1>7, <1>9, <1>10, StackStays
<1>14. Sent'
  <2>1. CASE job.req.info
    <3>1. k' = x[1] /\ job'.copies = <<x[2]>>
      BY <1>1, <1>4, <1>7, <2>1
    <3>2. job'.copies[1] = x[2]
      BY <3>1
    <3>3. Names(k', Newest, job'.copies[1], "pmo", InfoPmo)
      BY <1>5, <3>1, <3>2
    <3> QED
      BY <1>7, <1>10, <2>1, <3>1, <3>2, <3>3 DEF Sent
  <2>2. CASE ~job.req.info
    BY <1>4, <1>7, <2>2 DEF Sent
  <2> QED
    BY <2>1, <2>2
<1>15. JobOk'
  BY <1>7, <1>12, <1>13, <1>14 DEF JobOk, Environed
<1>16. \A p \in Procs : p >= k.next => k'.caps[p] = k.caps[p]
  <2>1. k.next \in Int /\ Newest = k.next - 1
    BY <1>3, ProcsAre DEF Newest, Kernel
  <2> QED
    BY <1>6, <2>1, ProcsAre
<1>17. app' = [app EXCEPT ![0] = "launches"] /\ Top' \in Int /\ Top <= Top'
  <2>1. Top \in Int
    BY TopIs
  <2> QED
    BY <1>1, <1>10, <2>1 DEF Inv, Typed
<1> QED
  BY <1>1, <1>7, <1>8, <1>9, <1>15, <1>16, <1>17, CallKeeps

\* There is room for each area of the child.
LEMMA RoomFor ==
  ASSUME Inv, app[0] = "launches", job.step \in Later, job.step # "map",
         NEW r, r \in ChildRegions(job.req.path, Base, 2, TRUE, TRUE, TRUE), r \notin k.maps[Newest]
  PROVE  ~Clashes(k, Newest, r.start, r.size)
<1> DEFINE R == ChildRegions(job.req.path, Base, 2, TRUE, TRUE, TRUE)
<1>1. /\ Kernel(k) /\ Newest \in Procs /\ job.req \in Requests /\ FileOf(job.req.path) # ENOENT
      /\ Base \in Nat /\ job.mapped = 2
      /\ k.maps[Newest] = SoFar(job.req, Base, job.step, job.mapped)
  BY ChildMade
<1>2. Len(Ph(job.req.path)) = 2
  BY ChildMade
<1>3. Separate(R)
  BY <1>1, <1>2, ChildSeparate
<1>4. k.maps[Newest] \subseteq R
  <2> HIDE DEF Base, Newest
  <2> QED
    BY <1>1 DEF SoFar, ChildRegions
<1>5. r \in R
  OBVIOUS
<1> HIDE DEF R
<1>6. \A s \in k.maps[Newest] : Apart(r.start, r.size, s.start, s.size)
  BY <1>3, <1>4, <1>5 DEF Separate
<1>7. r.start \in Nat /\ r.size \in Nat \ {0}
  BY <1>3, <1>5 DEF Separate, Regions
<1> QED
  BY <1>1, <1>6, <1>7, NoClash

\* An area of the child is mapped, whether it asked for one or not.
LEMMA AreaAdded ==
  ASSUME Inv, app[0] = "launches", job.step \in {"shared", "env", "stack", "thread"},
         NEW r, k' = k \/ WithRegion(k, k', Newest, r),
         NEW then, then \in {"env", "stack", "thread"}, Continue(then), UNCHANGED launched,
         k'.maps[Newest] = SoFar(job.req, Base, then, 2),
         then \in {"stack", "thread"} => job.step \in {"stack", "thread"}
  PROVE  Inv'
<1>1. /\ job' = [job EXCEPT !.step = then] /\ app' = app /\ launched' = launched
  BY DEF Continue
<1>2. job.step \in Later /\ job.step # "map" /\ then \in Later /\ Kernel(k)
  BY DEF Later, Inv, Typed
<1>3. /\ JobShape(job') /\ job'.step = then /\ job'.stack = job.stack /\ job'.mapped = job.mapped
      /\ job'.req = job.req /\ job'.elf = job.elf /\ job'.segs = job.segs
      /\ job'.child = job.child /\ job'.info = job.info /\ job'.copies = job.copies
  BY <1>1 DEF Inv, Typed, JobShape, JobSteps
<1>4. /\ Grown(k, k') /\ k'.pmos = k.pmos /\ k'.main = k.main /\ k'.next = k.next
      /\ \A p \in Procs : p = 0 \/ app[p] # "none" \/ p >= k.next => k'.maps[p] = k.maps[p]
      /\ \A p \in Procs : p >= k.next => k'.caps[p] = k.caps[p]
  BY <1>2, RegionAdded, SameGrown
<1>5. Base' = Base /\ Top' = Top
  <2>1. Base' = Base
    BY <1>2, <1>3, <1>4 DEF Base
  <2> QED
    BY <1>2, <1>3, <1>4, <2>1 DEF Top
<1>6. Beginning' /\ Loading' /\ Making' /\ Room'
  <2>1. job'.mapped = 2 /\ job'.mapped \in 0..2
    BY <1>2, <1>3, ChildMade
  <2>2. job'.mapped <= Len(job.segs)
    BY <1>2, <1>3, ChildMade
  <2> QED
    BY <1>1, <1>2, <1>3, <1>4, <1>5, <2>1, <2>2, GoesOn
<1>7. Stacked'
  BY <1>2, <1>3, <1>4, <1>5, StackStays
<1>8. Sent'
  BY <1>3, <1>4, SentStays DEF Grown
<1>9. Environed'
  <2>1. CASE then \in {"stack", "thread"}
    BY <1>3, <1>4, <1>5, <2>1, EnvironedStays
  <2>2. CASE then \notin {"stack", "thread"}
    BY <1>3, <2>2 DEF Environed
  <2> QED
    BY <2>1, <2>2
<1>10. JobOk'
  BY <1>6, <1>7, <1>8, <1>9 DEF JobOk
<1>11. Top' \in Int /\ Top <= Top'
  <2>1. Top \in Int
    BY TopIs
  <2> QED
    BY <1>5, <2>1
<1>12. app' = [app EXCEPT ![0] = "launches"]
  BY <1>1 DEF Inv, Typed
<1>13. ~(job'.step \in {"read", "segments"})
  BY <1>3
<1> QED
  BY <1>1, <1>3, <1>4, <1>10, <1>11, <1>12, <1>13, CallKeeps

\* The child gets the page at the address it will be told.
LEMMA MapSharedKeeps ==
  ASSUME Inv, MapShared
  PROVE  Inv'
<1> DEFINE r == Region(SharedInfo, PageSize, VMR_RW, InfoPmo)
           x == MapPmo(k, 0, job.child, job.info, SharedInfo, VMR_RW)
<1>1. /\ app[0] = "launches" /\ job.step = "shared" /\ Continue("env") /\ launched' = launched
      /\ k' = MapPmos(k, 0, job.child, pmo_map_reqs)
  BY DEF MapShared, Launching
<1>2. job.step \in Later /\ job.step # "map"
  BY <1>1 DEF Later
<1>3. /\ Base \in Nat /\ InfoPmo \in Nat /\ InfoPmo <= Base /\ job.mapped = 2
      /\ k.maps[Newest] = SoFar(job.req, Base, job.step, job.mapped) /\ job.req \in Requests
  BY <1>1, <1>2, ChildMade
<1>4. CASE ~job.req.info
  <2>1. k' = k
    BY <1>1, <1>4, MapsOne DEF pmo_map_reqs
  <2>2. k'.maps[Newest] = SoFar(job.req, Base, "env", 2)
    BY <1>1, <1>3, <1>4, <2>1 DEF SoFar, ChildRegions
  <2> QED
    BY <1>1, <2>1, <2>2, AreaAdded
<1>5. CASE job.req.info
  <2>1. k' = x[1]
    <3>1. pmo_map_reqs = <<[pmo_cap |-> job.info, addr |-> SharedInfo, perm |-> VMR_RW]>>
      BY <1>5 DEF pmo_map_reqs
    <3> QED
      BY <1>1, <3>1, MapsOne
  <2>2. r \notin k.maps[Newest]
    <3>1. k.maps[Newest] = {SegmentAt(Ph(job.req.path)[i], Base + i) : i \in 1..2}
      BY <1>1, <1>3 DEF SoFar, ChildRegions
    <3>2. \A i \in 1..2 : Base + i # InfoPmo
      BY <1>3
    <3>3. \A i \in 1..2 : SegmentAt(Ph(job.req.path)[i], Base + i).pmo = Base + i
      BY DEF SegmentAt, Region
    <3>4. r.pmo = InfoPmo
      BY DEF Region
    <3> HIDE DEF r, Base
    <3> QED
      BY <3>1, <3>2, <3>3, <3>4
  <2>3. ~Clashes(k, Newest, SharedInfo, PageSize)
    <3>1. r \in ChildRegions(job.req.path, Base, 2, TRUE, TRUE, TRUE)
      BY DEF ChildRegions
    <3>2. r.start = SharedInfo /\ r.size = PageSize
      BY DEF Region
    <3> HIDE DEF r
    <3> QED
      BY <1>1, <1>2, <2>2, <3>1, <3>2, RoomFor
  <2>4. WithRegion(k, x[1], Newest, r)
    <3>1. Names(k, 0, job.info, "pmo", InfoPmo) /\ Len(k.pmos[InfoPmo]) = PageSize
          /\ InfoPmo \in 1..Len(k.pmos)
      BY <1>1, InfoIs
    <3>2. SharedInfo \in Nat /\ ROUND_DOWN(SharedInfo) = SharedInfo /\ VMR_RW \in Nat
      BY Sizes, PageAreas
    <3> QED
      BY <1>1, <1>2, <2>3, <3>1, <3>2, MapsForChild
  <2> HIDE DEF x, r
  <2>5. WithRegion(k, k', Newest, r)
    BY <2>1, <2>4
  <2>6. k'.maps[Newest] = SoFar(job.req, Base, "env", 2)
    BY <1>1, <1>3, <1>5, <2>5 DEF SoFar, ChildRegions, WithRegion, r
  <2> QED
    BY <1>1, <2>5, <2>6, AreaAdded
<1> QED
  BY <1>4, <1>5

\* The child gets its stack.
LEMMA MapStackKeeps ==
  ASSUME Inv, MapStack
  PROVE  Inv'
<1> DEFINE r == Region(StackBase, StackSize, VMR_RW, Base + 3)
           x == MapPmo(k, 0, job.child, job.stack, StackBase, VMR_RW)
<1>1. /\ app[0] = "launches" /\ job.step = "stack" /\ Continue("thread") /\ launched' = launched
      /\ k' = MapPmos(k, 0, job.child,
                      <<[pmo_cap |-> job.stack, addr |-> StackBase, perm |-> VMR_RW]>>)
  BY DEF MapStack, Launching
<1>2. job.step \in Later /\ job.step # "map"
  BY <1>1 DEF Later
<1>3. /\ Base \in Nat /\ InfoPmo \in Nat /\ InfoPmo <= Base /\ job.mapped = 2 /\ Kernel(k)
      /\ k.maps[Newest] = SoFar(job.req, Base, job.step, job.mapped)
  BY <1>1, <1>2, ChildMade
<1>4. k' = x[1]
  BY <1>1, MapsOne
<1>5. r \notin k.maps[Newest]
  <2>1. k.maps[Newest] \subseteq {SegmentAt(Ph(job.req.path)[i], Base + i) : i \in 1..2}
                                 \cup {Region(SharedInfo, PageSize, VMR_RW, InfoPmo)}
    BY <1>1, <1>3 DEF SoFar, ChildRegions
  <2>2. InfoPmo # Base + 3 /\ \A i \in 1..2 : Base + i # Base + 3
    BY <1>3
  <2>3. \A i \in 1..2 : SegmentAt(Ph(job.req.path)[i], Base + i).pmo = Base + i
    BY DEF SegmentAt, Region
  <2>4. r.pmo = Base + 3 /\ Region(SharedInfo, PageSize, VMR_RW, InfoPmo).pmo = InfoPmo
    BY DEF Region
  <2> HIDE DEF r, Base
  <2> QED
    BY <2>1, <2>2, <2>3, <2>4
<1>6. ~Clashes(k, Newest, StackBase, StackSize)
  <2>1. r \in ChildRegions(job.req.path, Base, 2, TRUE, TRUE, TRUE)
    BY DEF ChildRegions
  <2>2. r.start = StackBase /\ r.size = StackSize
    BY DEF Region
  <2> HIDE DEF r
  <2> QED
    BY <1>1, <1>2, <1>5, <2>1, <2>2, RoomFor
<1>7. WithRegion(k, x[1], Newest, r)
  <2>1. /\ Names(k, 0, job.stack, "pmo", Base + 3) /\ Len(k.pmos[Base + 3]) = StackSize
    BY <1>1 DEF Inv, JobOk, Stacked
  <2>2. Base + 3 \in 1..Len(k.pmos)
    <3> DEFINE m == Len(k.pmos)
               n == Len(job.segs)
    <3>1. m = Base + n + 1 /\ m \in Nat
      BY <1>1, <1>2, ChildMade
    <3>2. n = 2
      BY <1>1, <1>2, ChildMade
    <3> HIDE DEF m, n
    <3>3. Base + 3 \in 1..m
      BY <1>3, <3>1, <3>2
    <3> QED
      BY <3>3 DEF m
  <2>3. StackBase \in Nat /\ ROUND_DOWN(StackBase) = StackBase /\ VMR_RW \in Nat
    BY Sizes, PageAreas
  <2> QED
    BY <1>1, <1>2, <1>6, <2>1, <2>2, <2>3, MapsForChild
<1> HIDE DEF x, r
<1>8. WithRegion(k, k', Newest, r)
  BY <1>4, <1>7
<1>9. k'.maps[Newest] = SoFar(job.req, Base, "thread", 2)
  BY <1>1, <1>3, <1>8 DEF SoFar, ChildRegions, WithRegion, r
<1> QED
  BY <1>1, <1>8, <1>9, AreaAdded

\* The page that main() starts from, as spawn() writes it.
LEMMA WriteEnvKeeps ==
  ASSUME Inv, WriteEnv
  PROVE  Inv'
<1> DEFINE env == construct_init_env(StackTop, Meta(job.elf), job.req.path, pmo_map_reqs, job.copies)
           off == StackSize - PageSize
           wrote == WritePmo(k, 0, job.stack, off, env)
           s == Base + 3
           m == Len(k.pmos)
<1>1. /\ app[0] = "launches" /\ job.step = "env" /\ launched' = launched
      /\ k' = wrote[1] /\ IF wrote[2] # 0 THEN Fails ELSE Continue("stack")
  BY DEF WriteEnv, Launching
<1>2. job.step \in Later /\ job.step # "map" /\ job.step # "thread" /\ Kernel(k) /\ Grown(k, k)
  BY <1>1, SameGrown DEF Later, Inv, Typed
<1>3. /\ job.elf = ElfOf(job.req.path) /\ Base \in Nat /\ InfoPmo \in Nat /\ InfoPmo <= Base
      /\ job.mapped = 2 /\ job.req \in Requests /\ m \in Nat /\ 0 \in Procs
      /\ k.maps[Newest] = SoFar(job.req, Base, job.step, job.mapped)
  BY <1>1, <1>2, ChildMade
<1>4. IF job.req.info THEN job.copies = <<job.copies[1]>> ELSE job.copies = <<>>
  BY <1>1 DEF Inv, JobOk, Sent
<1>5. env = ChildEnv(job.req, job.copies[1])
  <2> DEFINE reqs == IF job.req.info
                     THEN <<[pmo_cap |-> 0, addr |-> SharedInfo, perm |-> VMR_RW]>> ELSE <<>>
  <2>1. CASE job.req.info
    <3>1. /\ pmo_map_reqs = <<[pmo_cap |-> job.info, addr |-> SharedInfo, perm |-> VMR_RW]>>
          /\ reqs = <<[pmo_cap |-> 0, addr |-> SharedInfo, perm |-> VMR_RW]>>
      BY <2>1 DEF pmo_map_reqs
    <3>2. DOMAIN pmo_map_reqs = {1} /\ DOMAIN reqs = {1} /\ pmo_map_reqs # <<>> /\ reqs # <<>>
          /\ pmo_map_reqs[1].addr = SharedInfo /\ reqs[1].addr = SharedInfo
      BY <3>1
    <3> HIDE DEF reqs
    <3>3. [i \in DOMAIN pmo_map_reqs |-> pmo_map_reqs[i].addr] = [i \in DOMAIN reqs |-> reqs[i].addr]
      BY <3>2
    <3>4. env = construct_init_env(StackTop, Meta(job.elf), job.req.path, reqs, job.copies)
      BY <3>2, <3>3 DEF construct_init_env
    <3> QED
      BY <1>3, <1>4, <2>1, <3>4 DEF ChildEnv, reqs
  <2>2. CASE ~job.req.info
    BY <1>3, <1>4, <2>2 DEF ChildEnv, pmo_map_reqs
  <2> QED
    BY <2>1, <2>2
<1>6. IsSeq(env) /\ Len(env) = PageSize /\ DOMAIN env = 1..PageSize
  <2>1. env = [i \in 1..PageSize |-> env[i]]
    BY DEF construct_init_env, EnvPage
  <2>2. PageSize \in Nat
    BY Sizes
  <2> HIDE DEF env
  <2>3. IsSeq(env) /\ Len(env) = PageSize
    BY <2>1, <2>2, SequenceOf
  <2> QED
    BY <2>1, <2>3
<1>7. /\ s = m /\ Names(k, 0, job.stack, "pmo", s) /\ Len(k.pmos[s]) = StackSize
  <2>1. /\ Names(k, 0, job.stack, "pmo", s) /\ Len(k.pmos[s]) = StackSize
    BY <1>1 DEF Inv, JobOk, Stacked
  <2> DEFINE n == Len(job.segs)
  <2>2. m = Base + n + 1
    BY <1>1, <1>2, ChildMade
  <2>3. n = 2
    BY <1>1, <1>2, ChildMade
  <2> HIDE DEF n, m
  <2>4. s = m
    BY <1>3, <2>2, <2>3
  <2> QED
    BY <2>1, <2>4
<1>8. off \in Nat /\ off + PageSize = StackSize /\ PageSize \in Nat /\ StackSize \in Nat
  BY Sizes
<1>9. s \in 1..m /\ s # InfoPmo
  <2> HIDE DEF m
  <2> QED
    BY <1>3, <1>7
<1> HIDE DEF env, off
<1>10. wrote = <<WriteObject(k, s, off, env), 0>>
  <2>1. off + Len(env) <= Len(k.pmos[s])
    <3>1. off + PageSize <= StackSize
      BY <1>8
    <3> QED
      BY <1>6, <1>7, <3>1
  <2> HIDE DEF s
  <2> QED
    BY <1>2, <1>3, <1>6, <1>7, <1>8, <1>9, <2>1, Writes
<1> HIDE DEF wrote
<1>11. k' = WriteObject(k, s, off, env) /\ Continue("stack")
  BY <1>1, <1>10
<1> HIDE DEF s
<1>12. /\ OnlyCells(k, k', s)
       /\ \A i \in 1..StackSize : k'.pmos[s][i] = IF i - off \in DOMAIN env THEN env[i - off]
                                                  ELSE k.pmos[s][i]
  <2> DEFINE w == WriteObject(k, s, off, env)
  <2>1. s \in 1..Len(k.pmos)
    BY <1>9
  <2>4. Kernel(k)
    BY <1>2
  <2>2. /\ OnlyCells(k, w, s)
        /\ \A i \in 1..Len(k.pmos[s]) : w.pmos[s][i] = IF i - off \in DOMAIN env THEN env[i - off]
                                                       ELSE k.pmos[s][i]
    <3> DEFINE Then(kk, offset, b, cells) ==
          LET x == WriteObject(kk, b, offset, cells)
          IN  /\ OnlyCells(kk, x, b)
              /\ \A i \in 1..Len(kk.pmos[b]) :
                    x.pmos[b][i] = IF i - offset \in DOMAIN cells THEN cells[i - offset]
                                   ELSE kk.pmos[b][i]
    <3>1. \A offset, cells : Then(k, offset, s, cells)
      BY <2>1, <2>4, Written
    <3>2. Then(k, off, s, env)
      BY <3>1, Zenon
    <3> QED
      BY <3>2
  <2> HIDE DEF w
  <2>3. k' = w
    BY <1>11 DEF w
  <2> QED
    BY <1>7, <2>2, <2>3
<1>13. /\ Kernel(k') /\ k'.caps = k.caps /\ k'.maps = k.maps /\ k'.main = k.main /\ k'.next = k.next
       /\ Len(k'.pmos) = m /\ Len(k'.pmos[s]) = StackSize
       /\ \A i \in 1..m : i # s => k'.pmos[i] = k.pmos[i]
  BY <1>7, <1>12 DEF OnlyCells
<1>14. Kept(k, k')
  BY <1>2, <1>13, KeptSame
<1>15. job' = [job EXCEPT !.step = "stack"] /\ app' = app
  BY <1>11 DEF Continue
<1>16. /\ JobShape(job') /\ job'.step = "stack" /\ job'.stack = job.stack /\ job'.mapped = job.mapped
       /\ job'.req = job.req /\ job'.elf = job.elf /\ job'.segs = job.segs
       /\ job'.child = job.child /\ job'.info = job.info /\ job'.copies = job.copies
  BY <1>15 DEF Inv, Typed, JobShape, JobSteps
<1>17. Base' = Base /\ Top' = Base /\ Top = Base
  <2>1. Base' = Base
    BY <1>1, <1>13, <1>16 DEF Base
  <2> QED
    BY <1>1, <1>16, <2>1 DEF Top
<1>18. Lower(k, k', Top)
  <2> HIDE DEF m
  <2>1. \A i \in 1..Base : i \in 1..m /\ i # s
    BY <1>3, <1>7 DEF s
  <2>2. Base <= m
    BY <1>3, <1>7 DEF s
  <2>3. Len(k.pmos) <= Len(k'.pmos) /\ Base <= Len(k.pmos)
    BY <1>3, <1>13, <2>2 DEF m
  <2> QED
    BY <1>2, <1>3, <1>13, <1>14, <1>17, <2>1, <2>3 DEF Lower
<1>19. Beginning' /\ Loading' /\ Making' /\ Room'
  <2>1. job'.step \in Later /\ job'.mapped \in 0..2
    BY <1>3, <1>16 DEF Later
  <2>2. job'.mapped <= Len(job.segs)
    BY <1>1, <1>2, <1>16, ChildMade
  <2>3. k'.maps[Newest] = SoFar(job.req, Base, job'.step, job'.mapped)
    BY <1>1, <1>3, <1>13, <1>16 DEF SoFar, ChildRegions
  <2>4. \A i \in 1..Len(job.segs) : k'.pmos[Base + i] = k.pmos[Base + i]
    <3> DEFINE n == Len(job.segs)
    <3>1. n = 2
      BY <1>1, <1>2, ChildMade
    <3> HIDE DEF m, n
    <3>2. \A i \in 1..n : Base + i \in 1..m /\ Base + i # s
      BY <1>3, <1>7, <3>1 DEF s
    <3> QED
      BY <1>13, <3>2 DEF n
  <2> QED
    BY <1>1, <1>2, <1>3, <1>13, <1>14, <1>15, <1>16, <1>17, <2>1, <2>2, <2>3, <2>4, GoesOnCells
<1>20. Stacked'
  <2>1. Names(k', 0, job.stack, "pmo", s)
    BY <1>2, <1>3, <1>7, <1>13, <1>14, NamesKept
  <2> QED
    BY <1>13, <1>16, <1>17, <2>1 DEF Stacked, s
<1>21. Sent'
  BY <1>1, <1>13, <1>14, <1>16, SentStays
<1>22. Environed'
  <2>1. ASSUME NEW i \in 1..PageSize PROVE k'.pmos[s][StackSize - PageSize + i] = env[i]
    <3> DEFINE j == off + i
    <3>1. j \in 1..StackSize /\ j - off = i
      BY <1>8
    <3>3. j = StackSize - PageSize + i
      BY DEF off
    <3> HIDE DEF j
    <3>2. k'.pmos[s][j] = env[i]
      <4>1. k'.pmos[s][j] = IF j - off \in DOMAIN env THEN env[j - off] ELSE k.pmos[s][j]
        BY <1>12, <3>1
      <4>2. j - off \in DOMAIN env
        BY <1>6, <3>1
      <4> QED
        BY <3>1, <4>1, <4>2
    <3> QED
      BY <3>2, <3>3
  <2>2. EnvAt(k', s, env)
    BY <1>13, <2>1 DEF EnvAt
  <2> QED
    BY <1>5, <1>16, <1>17, <2>2 DEF Environed, s
<1>23. JobOk'
  BY <1>19, <1>20, <1>21, <1>22 DEF JobOk
<1>24. app' = [app EXCEPT ![0] = "launches"] /\ ~(job'.step \in {"read", "segments"})
  BY <1>1, <1>15, <1>16 DEF Inv, Typed
<1>25. k'.pmos[InfoPmo] = k.pmos[InfoPmo]
  BY <1>1, <1>9, <1>13, InfoIs
<1>27. PageKept(k, k')
  BY <1>25 DEF PageKept
<1>26. Top' \in Int /\ Top <= Top'
  BY <1>3, <1>17
<1> QED
  BY <1>1, <1>13, <1>16, <1>18, <1>23, <1>24, <1>26, <1>27, LowerKeeps

\* The child is complete when it starts.
LEMMA StartChildKeeps ==
  ASSUME Inv, StartChild
  PROVE  Inv'
<1> DEFINE sp == StackTop - PageSize
           entry == job.elf.header.e_entry
           made == CreateThread(k, 0, job.child, sp, entry)
           m == Len(k.pmos)
           main == [sp |-> sp, pc |-> entry]
<1> SUFFICES ASSUME NEW c, c = Newest PROVE Inv'
  OBVIOUS
<1>1. /\ app[0] = "launches" /\ job.step = "thread" /\ launched' = launched /\ k' = made[1]
      /\ IF made[2] < 0 THEN Fails
         ELSE /\ job' = [job EXCEPT !.step = "idle"]
              /\ app' = [app EXCEPT ![Obj(k, 0, job.child, "process")] = "main"]
  BY DEF StartChild, Launching
<1>2. job.step \in Later /\ job.step # "map" /\ Typed /\ Kernel(k) /\ Unmade /\ RootAt(k, "launches")
  BY <1>1 DEF Later, Inv, Typed, RootOk
<1>3. /\ 0 \in Procs /\ c \in Procs /\ c \in Children /\ c # 0 /\ app[c] = "none"
      /\ launched[c] = job.req /\ job.req \in Requests /\ Names(k, 0, job.child, "process", c)
      /\ FileOf(job.req.path) # ENOENT /\ job.elf = ElfOf(job.req.path)
      /\ Base \in Nat /\ InfoPmo \in Nat /\ InfoPmo <= Base /\ m \in Nat /\ job.mapped = 2
      /\ k.maps[c] = SoFar(job.req, Base, job.step, job.mapped)
  BY <1>1, <1>2, ChildMade
<1>4. Len(Ph(job.req.path)) = 2 /\ SegmentsLoaded(k, job.req.path, Base, 2)
  BY <1>1, <1>2, ChildMade
<1>5. m = Base + 3
  <2> DEFINE n == Len(job.segs)
  <2>1. m = Base + n + 1
    BY <1>1, <1>2, ChildMade
  <2>2. n = 2
    BY <1>1, <1>2, ChildMade
  <2> HIDE DEF n, m
  <2> QED
    BY <1>3, <2>1, <2>2
<1>6. /\ StartedThread(k, made[1], c, main) /\ made[2] \in Nat
      /\ \A other \in Procs \ {0, c} : made[1].caps[other] = k.caps[other]
  BY <1>2, <1>3, CreatesThread
<1>7. k' = made[1] /\ job' = [job EXCEPT !.step = "idle"] /\ app' = [app EXCEPT ![c] = "main"]
  <2>1. Obj(k, 0, job.child, "process") = c
    BY <1>2, <1>3, Named
  <2>2. ~(made[2] < 0)
    BY <1>6
  <2> QED
    BY <1>1, <2>1, <2>2
<1>8. /\ Kernel(k') /\ Kept(k, k') /\ k'.pmos = k.pmos /\ k'.maps = k.maps /\ k'.next = k.next
      /\ k'.main = [k.main EXCEPT ![c] = main]
      /\ \A other \in Procs \ {0, c} : k'.caps[other] = k.caps[other]
  BY <1>6, <1>7 DEF StartedThread
<1> HIDE DEF made, main
<1>9. k'.main[c] = main /\ \A p \in Procs : p # c => k'.main[p] = k.main[p]
  BY <1>2, <1>3, <1>8 DEF Kernel
<1>10. app'[c] = "main" /\ \A p \in Procs : p # c => app'[p] = app[p]
  BY <1>2, <1>3, <1>7 DEF Typed
<1>11. JobShape(job') /\ job'.step = "idle" /\ job'.info = job.info
  BY <1>7 DEF Inv, Typed, JobShape, JobSteps
<1>12. Children \subseteq Procs /\ 0 \notin Children /\ k.next \in Int /\ c = k.next - 1
  BY <1>2, <1>3, ProcsAre DEF Children, Newest, Kernel
<1>13. Typed'
  <2>1. app' = [p \in Procs |-> app'[p]]
    BY <1>2, <1>3, <1>7 DEF Typed
  <2>2. \A p \in Children : app'[p] \in ChildSteps
    BY <1>2, <1>10, <1>12 DEF Typed, ChildSteps
  <2>3. app'[0] = "launches"
    BY <1>1, <1>3, <1>10
  <2> QED
    BY <1>1, <1>2, <1>8, <1>11, <2>1, <2>2, <2>3 DEF Typed, JobShape, RootSteps
<1>14. Unmade'
  <2>1. \A p \in Procs : p < k'.next => Names(k', p, 0, "process", p)
    BY <1>2, <1>8, NamesKept DEF Unmade
  <2>2. ASSUME NEW p \in Procs, p >= k'.next
        PROVE  /\ k'.caps[p] = <<>> /\ k'.maps[p] = {} /\ k'.main[p] = Nobody
               /\ app'[p] = "none" /\ launched'[p] = Nobody
    <3>1. p >= k.next /\ p # c /\ p # 0
      BY <1>2, <1>8, <1>12, <2>2, ProcsAre DEF RootAt
    <3> QED
      BY <1>1, <1>2, <1>8, <1>9, <1>10, <3>1 DEF Unmade
  <2> QED
    BY <2>1, <2>2 DEF Unmade
<1>15. Lower(k, k', Top) /\ Top \in Int /\ Top <= m
  BY <1>2, <1>8, TopIs, KernelIs DEF Lower
<1>16. Top' = m /\ m \in Int
  BY <1>3, <1>8, <1>11 DEF Top
<1>17. RootOk'
  <2>1. RootAt(k', "launches")
    <3>1. InfoPmo <= Top
      BY <1>1, TopIs
    <3>2. k'.main[0] = k.main[0] /\ k'.maps[0] = k.maps[0] /\ k'.next >= k.next
      BY <1>3, <1>8, <1>9, <1>12
    <3> QED
      BY <1>2, <1>15, <3>1, <3>2, RootKept
  <2>2. /\ launched[0] = [path |-> RootPath, info |-> FALSE]
        /\ Names(k, 0, job.info, "pmo", InfoPmo)
    BY <1>1 DEF Inv, RootOk
  <2>3. Names(k', 0, job'.info, "pmo", InfoPmo)
    BY <1>2, <1>3, <1>8, <1>11, <2>2, NamesKept
  <2>4. app'[0] = "launches"
    BY <1>1, <1>3, <1>10
  <2> QED
    BY <1>1, <2>1, <2>2, <2>3, <2>4 DEF RootOk
<1>18. ChildGood(k', c, "main", job.req, Top')
  <2> DEFINE cap == IF job.req.info THEN job.copies[1] ELSE 0
             req == job.req
  <2>1. k'.main[c] = [sp |-> StackTop - PageSize, pc |-> ElfOf(job.req.path).header.e_entry]
    BY <1>3, <1>9 DEF main
  <2>2. job.req.info => Names(k', c, job.copies[1], "pmo", InfoPmo)
    <3>1. job.req.info => Names(k, c, job.copies[1], "pmo", InfoPmo)
      BY <1>1 DEF Inv, JobOk, Sent
    <3> QED
      BY <1>2, <1>3, <1>8, <3>1, NamesKept
  <2>3. cap \in 0..Len(k'.caps[c])
    <3> DEFINE n == Len(k'.caps[c])
    <3>1. n \in Nat
      BY <1>3, <1>8, KernelIs
    <3>2. job.req.info => job.copies[1] \in Nat /\ job.copies[1] + 1 \in 1..n
      BY <2>2 DEF Names
    <3> HIDE DEF n
    <3>3. cap \in 0..n
      BY <3>1, <3>2
    <3> QED
      BY <3>3 DEF n
  <2>4. job.req.info => Names(k', c, cap, "pmo", InfoPmo)
    BY <2>2
  <2>5. EnvAt(k', Base + 3, ChildEnv(job.req, cap))
    <3>1. EnvAt(k, Base + 3, ChildEnv(job.req, job.copies[1]))
      BY <1>1 DEF Inv, JobOk, Environed
    <3>2. ChildEnv(job.req, job.copies[1]) = ChildEnv(job.req, cap)
      BY DEF ChildEnv
    <3> HIDE DEF cap
    <3> QED
      BY <1>8, <3>1, <3>2 DEF EnvAt
  <2>6. SegmentsLoaded(k', job.req.path, Base, 2)
    BY <1>4, <1>8 DEF SegmentsLoaded
  <2>7. k'.maps[c] = ChildRegions(job.req.path, Base, 2, job.req.info, TRUE, FALSE)
    <3>1. (job.req.info /\ job.step \in {"env", "stack", "thread"}) <=> job.req.info
      BY <1>1
    <3>2. k.maps[c] = SoFar(job.req, Base, "thread", 2)
      BY <1>1, <1>3
    <3> QED
      BY <1>8, <3>2 DEF SoFar, ChildRegions
  <2>8. Base \in 0..Len(k'.pmos) /\ Base + 3 <= Top' /\ Base + 3 <= Len(k'.pmos)
    <3>1. Base \in 0..m /\ Base + 3 <= m
      BY <1>3, <1>5
    <3> QED
      BY <1>8, <1>16, <3>1
  <2> HIDE DEF cap
  <2>9. ChildAt(k', c, job.req, Base, cap, FALSE)
    BY <1>3, <1>4, <2>4, <2>5, <2>6, <2>7, <2>8 DEF ChildAt
  <2>10. \E b \in 0..Len(k'.pmos), cap1 \in 0..Len(k'.caps[c]) :
            b + 3 <= Top' /\ ChildAt(k', c, job.req, b, cap1, FALSE)
    BY <2>3, <2>8, <2>9
  <2>11. \E b \in 0..Len(k'.pmos), cap1 \in 0..Len(k'.caps[c]) :
            b + 3 <= Top' /\ ChildAt(k', c, job.req, b, cap1, "main" = "reads")
    <3>1. ("main" = "reads") = FALSE
      OBVIOUS
    <3> QED
      BY <2>10, <3>1
  <2> QED
    BY <1>3, <2>1, <2>11 DEF ChildGood
<1>19. ChildrenOk'
  <2> SUFFICES ASSUME NEW p \in Children PROVE ChildGood(k', p, app'[p], launched'[p], Top')
    BY DEF ChildrenOk
  <2>1. CASE p = c
    BY <1>1, <1>3, <1>10, <1>18, <2>1
  <2>2. CASE p # c
    <3>1. p \in Procs /\ ChildGood(k, p, app[p], launched[p], Top)
      BY <1>12 DEF Inv, ChildrenOk
    <3>2. app[p] \in {"maps", "reads", "waits"} => launched[p].info
      BY <3>1 DEF ChildGood
    <3>4. Top' \in Int /\ Top <= Top'
      BY <1>15, <1>16
    <3>5. k'.main[p] = k.main[p] /\ k'.maps[p] = k.maps[p]
      BY <1>8, <1>9, <2>2, <3>1
    <3>3. ChildGood(k', p, app[p], launched[p], Top')
      BY <1>15, <3>1, <3>2, <3>4, <3>5, ChildGoodKept
    <3> QED
      BY <1>1, <1>10, <2>2, <3>1, <3>3
  <2> QED
    BY <2>1, <2>2
<1>20. InfoOk'
  <2>1. \A p \in Children : (Informed(p))' = Informed(p)
    BY <1>1 DEF Informed
  <2>2. \A p \in Children : app'[p] \notin {"none", "main"} <=> app[p] \notin {"none", "main"}
    BY <1>3, <1>10, <1>12
  <2>3. Changed' = Changed
    BY <2>1, <2>2 DEF Changed
  <2>4. app'[0] = "launches"
    BY <1>1, <1>3, <1>10
  <2> QED
    BY <1>1, <1>8, <1>11, <2>1, <2>3, <2>4 DEF Inv, InfoOk
<1>21. JobOk'
  BY <1>11, Idle
<1> QED
  BY <1>13, <1>14, <1>17, <1>19, <1>20, <1>21 DEF Inv

-----------------------------------------------------------------------------
(* The steps after a launch                                                  *)

\* A word is written to the info page, in whoever has it.
LEMMA FlagWritten ==
  ASSUME NEW kk, Kernel(kk), InfoPmo \in 1..Len(kk.pmos), Len(kk.pmos[InfoPmo]) = PageSize,
         NEW flag \in {0, 1}, NEW w, w = WriteObject(kk, InfoPmo, flag, << 1 >>)
  PROVE  OnlyCells(kk, w, InfoPmo) /\ PageKept(kk, w) /\ w.pmos[InfoPmo][flag + 1] = 1
<1> DEFINE b == InfoPmo
           cells == <<1>>
<1>1. /\ OnlyCells(kk, w, b)
      /\ \A i \in 1..Len(kk.pmos[b]) : w.pmos[b][i] = IF i - flag \in DOMAIN cells THEN cells[i - flag]
                                                     ELSE kk.pmos[b][i]
  BY Written
<1>2. DOMAIN cells = {1} /\ cells[1] = 1
  OBVIOUS
<1>3. PageSize \in Nat /\ 40 + 2 * StrSize <= PageSize /\ StrSize \in Nat
  BY Sizes
<1>4. PageSize >= 40
  BY <1>3
<1> HIDE DEF cells, b
<1>5. ASSUME NEW i \in 3..PageSize PROVE w.pmos[b][i] = kk.pmos[b][i]
  <2>1. i \in 1..PageSize /\ i - flag # 1
    BY <1>4
  <2> QED
    BY <1>1, <1>2, <2>1 DEF b
<1>6. w.pmos[b][flag + 1] = 1
  <2> DEFINE i == flag + 1
  <2>1. i \in 1..PageSize /\ i - flag = 1
    BY <1>4
  <2> HIDE DEF i
  <2>2. w.pmos[b][i] = IF i - flag \in DOMAIN cells THEN cells[i - flag] ELSE kk.pmos[b][i]
    BY <1>1, <2>1 DEF b
  <2>3. w.pmos[b][i] = 1
    BY <1>2, <2>1, <2>2
  <2> QED
    BY <2>3 DEF i
<1> QED
  BY <1>1, <1>5, <1>6 DEF PageKept, OnlyCells, b

\* Writing the info page leaves every other object alone.
LEMMA CellsGrown ==
  ASSUME NEW kk, Kernel(kk), NEW w, OnlyCells(kk, w, InfoPmo)
  PROVE  Grown(kk, w) /\ Len(w.pmos) = Len(kk.pmos)
<1>1. Kept(kk, w) /\ Len(kk.pmos) \in Nat
  BY KeptSame, KernelIs DEF OnlyCells
<1> QED
  BY <1>1 DEF OnlyCells, Grown

\* The info page is in the root process, at InfoVaddr.
LEMMA InfoInRoot ==
  ASSUME NEW kk, NEW step, step \notin {"main", "info"}, kk.maps[0] = RootRegions(step),
         NEW off, off \in Nat, off < PageSize
  PROVE  CellAt(kk, 0, InfoVaddr + off, InfoPmo, off, VMR_RW)
<1> DEFINE r == Region(InfoVaddr, PageSize, VMR_RW, InfoPmo)
           addr == InfoVaddr + off
<1>1. r \in kk.maps[0]
  BY DEF RootRegions
<1>2. r.start = InfoVaddr /\ r.size = PageSize /\ r.perm = VMR_RW /\ r.pmo = InfoPmo
  BY DEF Region
<1>3. Separate(kk.maps[0])
  BY RootSeparate
<1>4. InfoVaddr \in Nat /\ PageSize \in Nat
  BY Sizes
<1>5. addr \in Int /\ InfoVaddr <= addr /\ addr < InfoVaddr + PageSize /\ addr - InfoVaddr = off
  BY <1>4
<1> HIDE DEF r, addr
<1>6. CellAt(kk, 0, addr, r.pmo, addr - r.start, r.perm)
  BY <1>1, <1>2, <1>3, <1>5, InRegion
<1> QED
  BY <1>2, <1>5, <1>6 DEF addr

\* The root process sets the flag its child waits for, and ends.
LEMMA FinishKeeps ==
  ASSUME Inv, Finish
  PROVE  Inv'
<1>1. /\ app[0] = "launches" /\ job.step = "idle" /\ app' = [app EXCEPT ![0] = "done"]
      /\ job' = job /\ launched' = launched
      /\ k' = IF HasInfoChild THEN Store(k, 0, InfoVaddr + ExitFlag, <<1>>) ELSE k
  BY DEF Finish, Launching
<1>2. Kernel(k) /\ k.maps[0] = RootRegions("launches")
  BY <1>1 DEF Inv, Typed, RootOk, RootAt
<1>3. InfoPmo \in 1..Len(k.pmos) /\ Len(k.pmos[InfoPmo]) = PageSize /\ Len(k.pmos) \in Nat
  BY <1>1, <1>2, InfoIs, KernelIs
<1>4. /\ Grown(k, k') /\ PageKept(k, k') /\ k'.main = k.main /\ k'.next = k.next
      /\ k'.maps = k.maps /\ k'.caps = k.caps /\ Len(k'.pmos) = Len(k.pmos)
  <2>1. CASE HasInfoChild
    <3>1. 1 < PageSize
      <4>1. PageSize \in Nat /\ StrSize \in Nat /\ 40 + 2 * StrSize <= PageSize
        BY Sizes
      <4> QED
        BY <4>1
    <3>2. CellAt(k, 0, InfoVaddr + 1, InfoPmo, 1, VMR_RW)
      <4>1. "launches" \notin {"main", "info"} /\ 1 \in Nat
        OBVIOUS
      <4>2. \A off : off \in Nat /\ off < PageSize => CellAt(k, 0, InfoVaddr + off, InfoPmo, off, VMR_RW)
        BY <1>2, <4>1, InfoInRoot
      <4> QED
        BY <3>1, <4>2
    <3>3. k' = WriteObject(k, InfoPmo, 1, <<1>>)
      BY <1>1, <2>1, <3>2 DEF CellAt, ExitFlag
    <3>4. OnlyCells(k, k', InfoPmo) /\ PageKept(k, k')
      BY <1>2, <1>3, <3>3, FlagWritten
    <3> QED
      BY <1>2, <3>4, CellsGrown DEF OnlyCells
  <2>2. CASE ~HasInfoChild
    BY <1>1, <1>2, <2>2, SameGrown DEF PageKept
  <2> QED
    BY <2>1, <2>2
<1>5. JobShape(job')
  BY <1>1 DEF Inv, Typed, JobShape
<1>6. JobOk'
  BY <1>1, Idle
<1>7. Top' \in Int /\ Top <= Top'
  <2>1. Top' = Top
    BY <1>1, <1>4 DEF Top
  <2>2. Top \in Int
    BY TopIs
  <2> QED
    BY <2>1, <2>2
<1>8. Lower(k, k', Top)
  BY <1>4, TopIs, GrownLower
<1> QED
  BY <1>1, <1>4, <1>5, <1>6, <1>7, <1>8, LowerKeeps

\* A step of a child: nothing changes for the others.
LEMMA ChildKeeps ==
  ASSUME Inv, NEW p \in Children, app[p] # "none", NEW then, then \in ChildSteps,
         app' = [app EXCEPT ![p] = then], UNCHANGED <<job, launched>>,
         Grown(k, k'), Len(k'.pmos) = Len(k.pmos), k'.main = k.main, k'.next = k.next,
         \A q \in Procs : q # p => k'.maps[q] = k.maps[q] /\ k'.caps[q] = k.caps[q],
         ChildGood(k', p, then, launched[p], Top), InfoOk'
  PROVE  Inv'
<1>1. Typed /\ Unmade /\ Kernel(k) /\ Kernel(k') /\ Kept(k, k') /\ k.next \in Int /\ Len(k.pmos) \in Nat
  BY KernelIs, ProcsAre DEF Inv, Typed, Grown, Kernel
<1>2. p \in Procs /\ p # 0 /\ 0 \in Procs /\ Children \subseteq Procs /\ 0 \notin Children
  BY ProcsAre DEF Children
<1>3. app'[p] = then /\ \A q \in Procs : q # p => app'[q] = app[q]
  BY <1>1, <1>2 DEF Typed
<1>4. Typed'
  <2>1. app' = [q \in Procs |-> app'[q]]
    BY <1>1 DEF Typed
  <2>2. \A q \in Children : app'[q] \in ChildSteps
    BY <1>1, <1>2, <1>3 DEF Typed
  <2> QED
    BY <1>1, <1>2, <1>3, <2>1, <2>2 DEF Typed
<1>5. p < k.next
  BY <1>1, <1>2, ProcsAre DEF Unmade
<1>6. Unmade'
  <2>1. \A q \in Procs : q < k'.next => Names(k', q, 0, "process", q)
    BY <1>1, NamesKept DEF Unmade
  <2>2. ASSUME NEW q \in Procs, q >= k'.next
        PROVE  /\ k'.caps[q] = <<>> /\ k'.maps[q] = {} /\ k'.main[q] = Nobody
               /\ app'[q] = "none" /\ launched'[q] = Nobody
    <3>1. q # p
      BY <1>1, <1>2, <1>5, <2>2, ProcsAre
    <3> QED
      BY <1>1, <1>3, <2>2, <3>1 DEF Unmade
  <2> QED
    BY <2>1, <2>2 DEF Unmade
<1>7. Lower(k, k', Top) /\ Top \in Int
  BY TopIs, GrownLower
<1>8. Top' = Top
  BY DEF Top, Base
<1>9. app[0] # "none" /\ app'[0] = app[0]
  <2>1. k.next # 0
    BY <1>1, <1>2, <1>5, ProcsAre
  <2> QED
    BY <1>2, <1>3, <2>1 DEF Inv, RootOk
<1>10. RootOk'
  <2>1. app[0] \notin {"main", "info"}
    <3>1. app[0] \in {"main", "info"} => k.next = 1
      BY <1>9 DEF Inv, RootOk
    <3> QED
      BY <1>2, <1>5, <3>1, ProcsAre
  <2>2. /\ RootAt(k, app[0]) /\ launched[0] = [path |-> RootPath, info |-> FALSE]
        /\ Names(k, 0, job.info, "pmo", InfoPmo)
    BY <1>9, <2>1 DEF Inv, RootOk
  <2>3. InfoPmo <= Top /\ k'.next >= k.next
    BY <1>1, <1>9, <2>1, TopIs
  <2>4. RootAt(k', app[0])
    BY <1>2, <1>7, <2>1, <2>2, <2>3, RootKept
  <2>5. Names(k', 0, job.info, "pmo", InfoPmo)
    BY <1>1, <1>2, <2>2, NamesKept
  <2> QED
    BY <1>9, <2>1, <2>2, <2>4, <2>5 DEF RootOk
<1>11. ChildrenOk'
  <2> SUFFICES ASSUME NEW q \in Children PROVE ChildGood(k', q, app'[q], launched'[q], Top')
    BY DEF ChildrenOk
  <2>1. CASE q = p
    BY <1>3, <1>8, <2>1
  <2>2. CASE q # p
    <3>1. q \in Procs /\ ChildGood(k, q, app[q], launched[q], Top)
      BY <1>2 DEF Inv, ChildrenOk
    <3>2. app[q] \in {"maps", "reads", "waits"} => launched[q].info
      BY <3>1 DEF ChildGood
    <3>3. k'.main[q] = k.main[q] /\ k'.maps[q] = k.maps[q] /\ Top <= Top
      BY <1>7, <2>2, <3>1
    <3>4. ChildGood(k', q, app[q], launched[q], Top)
      BY <1>7, <3>1, <3>2, <3>3, ChildGoodKept
    <3> QED
      BY <1>3, <1>8, <2>2, <3>1, <3>4
  <2> QED
    BY <2>1, <2>2
<1>12. JobOk'
  <2>1. Newest \in Children /\ app[Newest] = "none" =>
            /\ k'.maps[Newest] = k.maps[Newest]
            /\ app'[Newest] = app[Newest] /\ launched'[Newest] = launched[Newest]
    BY <1>2, <1>3
  <2> QED
    BY <2>1, JobKept DEF Inv
<1> QED
  BY <1>4, <1>6, <1>10, <1>11, <1>12 DEF Inv

-----------------------------------------------------------------------------
(* What main() reads from its environment page                               *)

\* The words come first in the page and do not reach the name.
LEMMA PageWords ==
  ASSUME NEW words, IsSeq(words), Len(words) <= 40, NEW path
  PROVE  LET env == EnvPage(words, path)
         IN  /\ \A i \in 1..Len(words) : env[i] = words[i]
             /\ env[PageSize - StrSize + 1] = path
<1> DEFINE env == EnvPage(words, path)
           n == Len(words)
           e == PageSize - StrSize + 1
<1>1. n \in Nat /\ DOMAIN words = 1..n
  BY DEF IsSeq
<1>2. PageSize \in Nat /\ StrSize \in Nat /\ 40 + 2 * StrSize <= PageSize /\ StrSize # 0
  BY Sizes
<1>3. n <= 40
  OBVIOUS
<1>4. e \in 1..PageSize /\ e > n /\ \A i \in 1..n : i \in 1..PageSize
  <2> HIDE DEF n
  <2> QED
    BY <1>1, <1>2, <1>3
<1>5. \A i \in 1..PageSize : env[i] = IF i \in DOMAIN words THEN words[i]
                                      ELSE IF i = e THEN path
                                      ELSE IF i = PageSize - 2 * StrSize + 1 THEN Plat ELSE 0
  BY DEF EnvPage
<1>6. e \notin 1..n
  <2> HIDE DEF n, e
  <2> QED
    BY <1>1, <1>4
<1> HIDE DEF n, e, env
<1> QED
  BY <1>1, <1>4, <1>5, <1>6 DEF n, e, env

\* A tuple is a sequence.
LEMMA Tuples ==
  /\ IsSeq(<<>>) /\ Len(<<>>) = 0
  /\ \A a : IsSeq(<<a>>) /\ Len(<<a>>) = 1
  /\ \A a, b, c : IsSeq(<<a, b, c>>) /\ Len(<<a, b, c>>) = 3
  /\ \A a, b, c, d : IsSeq(<<a, b, c, d>>) /\ Len(<<a, b, c, d>>) = 4
  /\ \A a, b, c, d, e, f, g :
        IsSeq(<<a, b, c, d, e, f, g>>) /\ Len(<<a, b, c, d, e, f, g>>) = 7
  /\ \A a, b, c, d, e, f, g, h :
        IsSeq(<<a, b, c, d, e, f, g, h>>) /\ Len(<<a, b, c, d, e, f, g, h>>) = 8
  BY DEF IsSeq

\* u is the words of s and then those of t.
Words(s, t, u) ==
    /\ IsSeq(u) /\ Len(u) = Len(s) + Len(t)
    /\ \A i \in 1..Len(s) : u[i] = s[i]
    /\ \A i \in 1..Len(t) : u[Len(s) + i] = t[i]

\* What \o gives, as words.
LEMMA Joins ==
  ASSUME NEW s, IsSeq(s), NEW t, IsSeq(t)
  PROVE  Words(s, t, s \o t)
  BY Joined DEF Words

\* The first part of the auxiliary vector has 24 words.
LEMMA AuxWords ==
  ASSUME NEW meta
  PROVE  IsSeq(AuxHead(meta)) /\ Len(AuxHead(meta)) = 24
  BY DEF AuxHead, IsSeq

\* The page of the root process
LEMMA RootWords ==
  LET env == prepare_env(StackTop, Meta(RootElf), RootPath)
  IN  /\ env[1] = 1 /\ env[2] = StackTop - StrSize /\ env[3] = 0 /\ env[4] = 0
      /\ env[PageSize - StrSize + 1] = RootPath
<1> DEFINE first == <<1, StackTop - StrSize, 0, 0>>
           aux == AuxHead(Meta(RootElf))
           last == <<AT_HWCAP, 0, AT_PLATFORM, StackTop - 2 * StrSize,
                     AT_RANDOM, StackTop - StrSize, AT_NULL, 0>>
           words == first \o aux \o last
           env == EnvPage(words, RootPath)
<1>1. IsSeq(first) /\ Len(first) = 4 /\ IsSeq(aux) /\ Len(aux) = 24 /\ IsSeq(last) /\ Len(last) = 8
  BY Tuples, AuxWords
<1>2. first[1] = 1 /\ first[2] = StackTop - StrSize /\ first[3] = 0 /\ first[4] = 0
  OBVIOUS
<1>3. env = prepare_env(StackTop, Meta(RootElf), RootPath)
  BY DEF prepare_env
<1> HIDE DEF first, aux, last
<1> DEFINE both == first \o aux
<1>4. IsSeq(both) /\ Len(both) = 28 /\ \A i \in 1..4 : both[i] = first[i]
  <2>1. Words(first, aux, both)
    BY <1>1, Joins, Zenon
  <2> HIDE DEF both
  <2> QED
    BY <1>1, <2>1 DEF Words
<1>6. IsSeq(words) /\ Len(words) = 36 /\ \A i \in 1..28 : words[i] = both[i]
  <2>1. Words(both, last, words)
    BY <1>1, <1>4, Joins, Zenon
  <2> HIDE DEF both, words
  <2> QED
    BY <1>1, <1>4, <2>1 DEF Words
<1> HIDE DEF both, words
<1>7. \A i \in 1..4 : words[i] = first[i]
  BY <1>4, <1>6
<1>8. Len(words) <= 40
  BY <1>6
<1>9. (\A i \in 1..36 : env[i] = words[i]) /\ env[PageSize - StrSize + 1] = RootPath
  <2>1. (\A i \in 1..Len(words) : env[i] = words[i]) /\ env[PageSize - StrSize + 1] = RootPath
    <3> DEFINE Then(w, path) == /\ \A i \in 1..Len(w) : EnvPage(w, path)[i] = w[i]
                                /\ EnvPage(w, path)[PageSize - StrSize + 1] = path
    <3>1. \A w, path : IsSeq(w) /\ Len(w) <= 40 => Then(w, path)
      BY PageWords
    <3> HIDE DEF Then
    <3>2. Then(words, RootPath)
      BY <1>6, <1>8, <3>1, Zenon
    <3> QED
      BY <3>2 DEF Then
  <2> HIDE DEF env
  <2> QED
    BY <1>6, <2>1
<1> HIDE DEF env
<1> QED
  BY <1>2, <1>3, <1>7, <1>9

\* The page of a child
LEMMA ChildWords ==
  ASSUME NEW req, NEW cap
  PROVE  LET env == ChildEnv(req, cap)
         IN  /\ env[1] = 1 /\ env[2] = StackTop - StrSize /\ env[3] = 0
             /\ env[4] = IF req.info THEN SharedInfo ELSE 0
             /\ req.info => env[5] = cap /\ env[6] = 0
             /\ env[PageSize - StrSize + 1] = req.path
<1> DEFINE meta == Meta(ElfOf(req.path))
           first == <<1, StackTop - StrSize, 0>>
           reqs == IF req.info THEN <<[pmo_cap |-> 0, addr |-> SharedInfo, perm |-> VMR_RW]>> ELSE <<>>
           addrs == IF reqs = <<>> THEN <<0>> ELSE [i \in DOMAIN reqs |-> reqs[i].addr]
           caps == IF req.info THEN <<cap>> ELSE <<>>
           zero == <<0>>
           aux == AuxHead(meta)
           last == <<AT_HWCAP, AT_PLATFORM, StackTop - 2 * StrSize,
                     AT_RANDOM, StackTop - StrSize, AT_NULL, 0>>
           words == first \o addrs \o caps \o zero \o aux \o last
           env == EnvPage(words, req.path)
<1>1. IsSeq(first) /\ Len(first) = 3 /\ IsSeq(aux) /\ Len(aux) = 24 /\ IsSeq(last) /\ Len(last) = 7
      /\ IsSeq(zero) /\ Len(zero) = 1
  BY Tuples, AuxWords
<1>2. first[1] = 1 /\ first[2] = StackTop - StrSize /\ first[3] = 0 /\ zero[1] = 0
  OBVIOUS
<1>3. addrs = <<IF req.info THEN SharedInfo ELSE 0>>
  <2>1. CASE req.info
    <3>1. reqs = <<[pmo_cap |-> 0, addr |-> SharedInfo, perm |-> VMR_RW]>>
      BY <2>1
    <3>2. reqs # <<>> /\ DOMAIN reqs = {1} /\ reqs[1].addr = SharedInfo
      BY <3>1
    <3> HIDE DEF reqs
    <3>3. addrs = [i \in {1} |-> SharedInfo]
      BY <3>2
    <3>4. addrs = <<SharedInfo>>
      BY <3>3
    <3> QED
      BY <2>1, <3>4
  <2>2. CASE ~req.info
    BY <2>2
  <2> QED
    BY <2>1, <2>2
<1>4. env = ChildEnv(req, cap)
  BY DEF ChildEnv, construct_init_env
<1>5. IsSeq(addrs) /\ Len(addrs) = 1 /\ addrs[1] = IF req.info THEN SharedInfo ELSE 0
  <2> HIDE DEF addrs
  <2> QED
    BY <1>3, Tuples
<1>6. /\ IsSeq(caps) /\ Len(caps) \in 0..1 /\ (req.info => Len(caps) = 1 /\ caps[1] = cap)
  <2>1. CASE req.info
    <3>1. caps = <<cap>>
      BY <2>1
    <3> HIDE DEF caps
    <3> QED
      BY <2>1, <3>1, Tuples
  <2>2. CASE ~req.info
    <3>1. caps = <<>>
      BY <2>2
    <3> HIDE DEF caps
    <3> QED
      BY <2>2, <3>1, Tuples
  <2> QED
    BY <2>1, <2>2
<1> HIDE DEF first, addrs, caps, zero, aux, last
<1> DEFINE a == first \o addrs
           b == a \o caps
           c == b \o zero
           d == c \o aux
           n == Len(caps)
<1>7. IsSeq(a) /\ Len(a) = 4 /\ (\A i \in 1..3 : a[i] = first[i]) /\ a[4] = addrs[1]
  <2>0. Words(first, addrs, a)
    BY <1>1, <1>5, Joins, Zenon
  <2> HIDE DEF a
  <2>1. IsSeq(a) /\ Len(a) = 4 /\ (\A i \in 1..3 : a[i] = first[i]) /\ \A i \in 1..1 : a[3 + i] = addrs[i]
    BY <1>1, <1>5, <2>0 DEF Words
  <2>2. 1 \in 1..1 /\ 3 + 1 = 4
    OBVIOUS
  <2>3. a[3 + 1] = addrs[1]
    BY <2>1, <2>2
  <2> QED
    BY <2>1, <2>2, <2>3
<1> HIDE DEF a
<1>8. IsSeq(b) /\ Len(b) = 4 + n /\ (\A i \in 1..4 : b[i] = a[i]) /\ (req.info => b[5] = cap)
  <2>0. Words(a, caps, b)
    BY <1>6, <1>7, Joins, Zenon
  <2> HIDE DEF b
  <2>1. IsSeq(b) /\ Len(b) = 4 + n /\ (\A i \in 1..4 : b[i] = a[i]) /\ \A i \in 1..n : b[4 + i] = caps[i]
    BY <1>6, <1>7, <2>0 DEF Words
  <2>2. ASSUME req.info PROVE b[5] = cap
    <3>1. 1 \in 1..n /\ 4 + 1 = 5
      BY <1>6, <2>2
    <3>2. b[4 + 1] = caps[1]
      BY <2>1, <3>1
    <3> QED
      BY <1>6, <2>2, <3>1, <3>2
  <2> QED
    BY <2>1, <2>2
<1> HIDE DEF b
<1>9. n \in 0..1 /\ (req.info => n = 1)
  BY <1>6
<1> HIDE DEF n
<1>10. /\ IsSeq(c) /\ Len(c) = 5 + n /\ (\A i \in 1..4 : c[i] = a[i])
       /\ req.info => c[5] = cap /\ c[6] = 0
  <2>1. /\ IsSeq(c) /\ Len(c) = Len(b) + Len(zero) /\ (\A i \in 1..Len(b) : c[i] = b[i])
        /\ \A i \in 1..1 : c[Len(b) + i] = zero[i]
    <3>1. Words(b, zero, c)
      BY <1>1, <1>8, Joins, Zenon
    <3> HIDE DEF c
    <3> QED
      BY <1>1, <3>1 DEF Words
  <2> HIDE DEF c
  <2>2. Len(c) = 5 + n /\ \A i \in 1..4 : i \in 1..(4 + n)
    BY <1>1, <1>8, <1>9, <2>1
  <2>3. \A i \in 1..4 : c[i] = a[i]
    BY <1>8, <2>1, <2>2
  <2>4. ASSUME req.info PROVE c[5] = cap /\ c[6] = 0
    <3>1. Len(b) = 5 /\ 5 \in 1..5 /\ 1 \in 1..1 /\ 5 + 1 = 6
      BY <1>8, <1>9, <2>4
    <3>2. c[5 + 1] = zero[1] /\ c[5] = b[5]
      BY <2>1, <3>1
    <3> QED
      BY <1>2, <1>8, <2>4, <3>1, <3>2
  <2> QED
    BY <2>1, <2>2, <2>3, <2>4
<1> HIDE DEF c
<1>11. IsSeq(d) /\ Len(d) = 29 + n /\ (\A i \in 1..(5 + n) : d[i] = c[i])
  <2>1. IsSeq(d) /\ Len(d) = Len(c) + 24 /\ (\A i \in 1..Len(c) : d[i] = c[i])
    <3>1. Words(c, aux, d)
      BY <1>1, <1>10, Joins, Zenon
    <3> HIDE DEF d
    <3> QED
      BY <1>1, <3>1 DEF Words
  <2> HIDE DEF d
  <2> QED
    BY <1>9, <1>10, <2>1
<1>12. Words(d, last, words)
  <2>1. words = d \o last
    BY DEF a, b, c, d
  <2> HIDE DEF words, d
  <2> QED
    BY <1>1, <1>11, <2>1, Joins, Zenon
<1> HIDE DEF d, words
<1>13. IsSeq(words) /\ Len(words) = 36 + n /\ (\A i \in 1..(29 + n) : words[i] = d[i])
  <2>1. IsSeq(words) /\ Len(words) = Len(d) + 7 /\ (\A i \in 1..Len(d) : words[i] = d[i])
    BY <1>1, <1>12 DEF Words
  <2> QED
    BY <1>9, <1>11, <2>1
<1>14. /\ Len(words) <= 40 /\ \A i \in 1..(5 + n) : i \in 1..(29 + n) /\ i \in 1..Len(words)
  BY <1>9, <1>13
<1>15. (\A i \in 1..Len(words) : env[i] = words[i]) /\ env[PageSize - StrSize + 1] = req.path
  BY <1>13, <1>14, PageWords
<1> HIDE DEF env
<1>16. \A i \in 1..(5 + n) : env[i] = c[i]
  BY <1>11, <1>13, <1>14, <1>15
<1>17. \A i \in 1..4 : env[i] = a[i]
  <2>1. \A i \in 1..4 : i \in 1..(5 + n)
    BY <1>9
  <2> QED
    BY <1>10, <1>16, <2>1
<1>18. req.info => env[5] = cap /\ env[6] = 0
  <2>1. req.info => 5 \in 1..(5 + n) /\ 6 \in 1..(5 + n)
    BY <1>9
  <2> QED
    BY <1>10, <1>16, <2>1
<1>19. env[1] = 1 /\ env[2] = StackTop - StrSize /\ env[3] = 0 /\ env[4] = IF req.info THEN SharedInfo ELSE 0
  BY <1>2, <1>5, <1>7, <1>17
<1> QED
  BY <1>4, <1>15, <1>18, <1>19

\* Where the areas of a child are.
LEMMA ChildMap ==
  ASSUME NEW kk, NEW p, NEW req, NEW b, NEW cap, NEW again \in BOOLEAN, ChildAt(kk, p, req, b, cap, again)
  PROVE  /\ Separate(kk.maps[p])
         /\ Region(StackBase, StackSize, VMR_RW, b + 3) \in kk.maps[p]
         /\ req.info => Region(SharedInfo, PageSize, VMR_RW, InfoPmo) \in kk.maps[p]
         /\ again => Region(SharedVaddr, PageSize, VMR_RW, InfoPmo) \in kk.maps[p]
<1>1. /\ req \in Requests /\ FileOf(req.path) # ENOENT /\ b \in Nat /\ Len(Ph(req.path)) = 2
      /\ kk.maps[p] = ChildRegions(req.path, b, 2, req.info, TRUE, again)
  BY DEF ChildAt
<1>2. Separate(ChildRegions(req.path, b, 2, TRUE, TRUE, TRUE))
  <2>1. Separate(ChildRegions(req.path, b, Len(Ph(req.path)), TRUE, TRUE, TRUE))
    BY <1>1, ChildSeparate
  <2> QED
    BY <1>1, <2>1
<1>3. kk.maps[p] \subseteq ChildRegions(req.path, b, 2, TRUE, TRUE, TRUE)
  BY <1>1 DEF ChildRegions
<1>4. Separate(kk.maps[p])
  BY <1>2, <1>3, FewerSeparate
<1> QED
  BY <1>1, <1>4 DEF ChildRegions

\* A cell of an area that is mapped for reading and writing.
LEMMA AreaCell ==
  ASSUME NEW kk, NEW p, Separate(kk.maps[p]), NEW start \in Nat, NEW size \in Nat, NEW pmo,
         Region(start, size, VMR_RW, pmo) \in kk.maps[p], NEW off, off \in Nat, off < size
  PROVE  CellAt(kk, p, start + off, pmo, off, VMR_RW)
<1> DEFINE r == Region(start, size, VMR_RW, pmo)
           addr == start + off
<1>1. r \in kk.maps[p]
  OBVIOUS
<1>2. r.start = start /\ r.size = size /\ r.perm = VMR_RW /\ r.pmo = pmo
  BY DEF Region
<1>3. addr \in Int /\ start <= addr /\ addr < start + size /\ addr - start = off
  OBVIOUS
<1> HIDE DEF r, addr
<1>4. CellAt(kk, p, addr, r.pmo, addr - r.start, r.perm)
  BY <1>1, <1>2, <1>3, InRegion
<1> QED
  BY <1>2, <1>3, <1>4 DEF addr

\* The last page of the stack
LEMMA StackCell ==
  ASSUME NEW kk, NEW p, Separate(kk.maps[p]), NEW pmo,
         Region(StackBase, StackSize, VMR_RW, pmo) \in kk.maps[p], NEW env, EnvAt(kk, pmo, env),
         NEW i, i \in Nat, i < PageSize
  PROVE  Load(kk, p, StackTop - PageSize + i) = env[i + 1]
<1> DEFINE off == StackSize - PageSize + i
<1>1. StackBase \in Nat /\ StackSize \in Nat /\ PageSize \in Nat /\ 2 * PageSize <= StackSize
      /\ StackTop = StackBase + StackSize
  BY Sizes
<1>2. off \in Nat /\ off < StackSize /\ StackBase + off = StackTop - PageSize + i
      /\ off + 1 = StackSize - PageSize + (i + 1) /\ i + 1 \in 1..PageSize
  BY <1>1
<1> HIDE DEF off
<1>3. CellAt(kk, p, StackBase + off, pmo, off, VMR_RW)
  BY <1>1, <1>2, AreaCell
<1>4. Load(kk, p, StackBase + off) = kk.pmos[pmo][off + 1]
  BY <1>3 DEF CellAt
<1>5. kk.pmos[pmo][StackSize - PageSize + (i + 1)] = env[i + 1]
  BY <1>2 DEF EnvAt
<1> QED
  BY <1>2, <1>4, <1>5

\* What _start_c() and main() of a child find there.
LEMMA ChildReads ==
  ASSUME NEW p, NEW req, NEW b, NEW cap, NEW again \in BOOLEAN, ChildAt(k, p, req, b, cap, again),
         k.main[p].sp = StackTop - PageSize
  PROVE  /\ argc(p) = 1 /\ argv(p, 0) = StackTop - StrSize /\ argv(p, 1) = 0
         /\ envp(p, 0) = IF req.info THEN SharedInfo ELSE 0
         /\ req.info => envp(p, 1) = cap /\ envp(p, 2) = 0
         /\ Load(k, p, StackTop - StrSize) = req.path
<1> DEFINE env == ChildEnv(req, cap)
<1>1. Separate(k.maps[p]) /\ Region(StackBase, StackSize, VMR_RW, b + 3) \in k.maps[p]
  BY ChildMap
<1>2. EnvAt(k, b + 3, env)
  BY DEF ChildAt
<1>3. /\ env[1] = 1 /\ env[2] = StackTop - StrSize /\ env[3] = 0
      /\ env[4] = IF req.info THEN SharedInfo ELSE 0
      /\ req.info => env[5] = cap /\ env[6] = 0
      /\ env[PageSize - StrSize + 1] = req.path
  BY ChildWords
<1> HIDE DEF env
<1>4. /\ PageSize \in Nat /\ StrSize \in Nat /\ 40 + 2 * StrSize <= PageSize /\ StrSize # 0
      /\ StackTop \in Nat
  BY Sizes
<1>5. \A i : i \in Nat /\ i < PageSize => Load(k, p, StackTop - PageSize + i) = env[i + 1]
  BY <1>1, <1>2, StackCell
<1>6. \A i \in 0..5 : Word(p, i) = env[i + 1]
  <2> TAKE i \in 0..5
  <2>1. i \in Nat /\ i < PageSize
    BY <1>4
  <2>2. Load(k, p, StackTop - PageSize + i) = env[i + 1]
    BY <1>5, <2>1
  <2>3. Word(p, i) = Load(k, p, StackTop - PageSize + i)
    BY Zenon DEF Word
  <2> QED
    BY <2>2, <2>3
<1>7. Load(k, p, StackTop - StrSize) = env[PageSize - StrSize + 1]
  <2> DEFINE i == PageSize - StrSize
  <2>1. i \in Nat /\ i < PageSize /\ StackTop - PageSize + i = StackTop - StrSize
    BY <1>4
  <2> HIDE DEF i
  <2>2. Load(k, p, StackTop - PageSize + i) = env[i + 1]
    BY <1>5, <2>1
  <2> QED
    BY <2>1, <2>2 DEF i
<1>8. Word(p, 0) = env[1] /\ Word(p, 1) = env[2] /\ Word(p, 2) = env[3]
      /\ Word(p, 3) = env[4] /\ Word(p, 4) = env[5] /\ Word(p, 5) = env[6]
  BY <1>6
<1>9. argc(p) = Word(p, 0) /\ argv(p, 0) = Word(p, 1) /\ argv(p, 1) = Word(p, 2)
      /\ envp(p, 0) = Word(p, 3) /\ envp(p, 1) = Word(p, 4) /\ envp(p, 2) = Word(p, 5)
  BY DEF argc, argv, envp
<1> QED
  BY <1>3, <1>7, <1>8, <1>9

-----------------------------------------------------------------------------
(* The steps of a child                                                      *)

\* A child that runs, and the info page.
LEMMA ChildIs ==
  ASSUME Inv, NEW p \in Children, app[p] # "none"
  PROVE  /\ Kernel(k) /\ p \in Procs /\ 0 \in Procs /\ p # 0 /\ p < k.next
         /\ launched[p] \in Requests /\ launched[p].info \in BOOLEAN
         /\ Informed(p) <=> launched[p].info
         /\ app[0] \notin {"none", "main", "info"} /\ RootAt(k, app[0])
         /\ k.main[p] = [sp |-> StackTop - PageSize, pc |-> ElfOf(launched[p].path).header.e_entry]
         /\ InfoPmo \in 1..Len(k.pmos) /\ Len(k.pmos[InfoPmo]) = PageSize
         /\ k.pmos[InfoPmo][NrArgs + 1] = Len(Msg) + 1
         /\ ChildGood(k, p, app[p], launched[p], Top)
         /\ app[p] \in {"maps", "reads", "waits"} => launched[p].info
<1>1. Kernel(k) /\ Typed /\ Unmade /\ k.next \in Int /\ ChildGood(k, p, app[p], launched[p], Top)
  <2>1. Typed /\ Unmade /\ ChildrenOk
    BY DEF Inv
  <2>2. Kernel(k)
    BY <2>1 DEF Typed
  <2>3. k.next \in Int
    BY <2>2 DEF Kernel
  <2>4. ChildGood(k, p, app[p], launched[p], Top)
    BY <2>1 DEF ChildrenOk
  <2> QED
    BY <2>1, <2>2, <2>3, <2>4
<1>2. p \in Procs /\ 0 \in Procs /\ p # 0 /\ Procs \subseteq Nat
  BY ProcsAre DEF Children
<1>3. p < k.next
  BY <1>1, <1>2 DEF Unmade
<1>4. /\ launched[p] \in Requests
      /\ k.main[p] = [sp |-> StackTop - PageSize, pc |-> ElfOf(launched[p].path).header.e_entry]
      /\ app[p] \in {"maps", "reads", "waits"} => launched[p].info
  BY <1>1 DEF ChildGood
<1>5. Nobody \notin Requests /\ launched[p].info \in BOOLEAN
  BY <1>4, RequestsAssumption
<1>6. Informed(p) <=> launched[p].info
  BY <1>4, <1>5 DEF Informed
<1>7. app[0] \notin {"none", "main", "info"}
  BY <1>1, <1>2, <1>3 DEF Inv, RootOk
<1>8. RootAt(k, app[0]) /\ Len(k.pmos) >= NR + 3
  BY <1>7 DEF Inv, RootOk, RootAt
<1>9. Len(k.pmos[InfoPmo]) = PageSize /\ k.pmos[InfoPmo][NrArgs + 1] = Len(Msg) + 1
  BY <1>7 DEF Inv, InfoOk
<1>10. InfoPmo \in 1..Len(k.pmos)
  BY <1>1, <1>8, Numbers, KernelIs
<1> QED
  BY <1>1, <1>2, <1>3, <1>4, <1>5, <1>6, <1>7, <1>8, <1>9, <1>10

\* The info page keeps the message, and is as changed as before.
LEMMA InfoStays ==
  ASSUME Inv, NEW p \in Children, app[p] # "none", NEW then, app' = [app EXCEPT ![p] = then],
         UNCHANGED <<job, launched>>, PageKept(k, k'),
         Informed(p) => (app[p] \in {"none", "main"} <=> then \in {"none", "main"})
  PROVE  InfoOk'
<1>1. app[0] \notin {"none", "main", "info"} /\ p \in Procs /\ p # 0
      /\ Len(k.pmos[InfoPmo]) = PageSize
  BY ChildIs
<1>2. app'[p] = then /\ \A q \in Procs : q # p => app'[q] = app[q]
  BY <1>1 DEF Inv, Typed
<1>3. app'[0] = app[0] /\ Children \subseteq Procs
  BY <1>1, <1>2, ProcsAre DEF Children
<1>4. \A q \in Children : (Informed(q))' = Informed(q)
  BY DEF Informed
<1>5. Changed' = Changed
  <2>1. \A q \in Children : Informed(q) => (app'[q] \notin {"none", "main"} <=> app[q] \notin {"none", "main"})
    BY <1>2, <1>3
  <2> QED
    BY <1>4, <2>1 DEF Changed
<1>6. /\ Len(k'.pmos[InfoPmo]) = PageSize
      /\ k'.pmos[InfoPmo][NrArgs + 1] = k.pmos[InfoPmo][NrArgs + 1]
      /\ \A i \in 1..Len(Msg) : k'.pmos[InfoPmo][Args + i] = k.pmos[InfoPmo][Args + i]
  BY <1>1, PageInfo
<1>7. /\ \A q, r \in Children : Informed(q) /\ Informed(r) => q = r
      /\ job.step \in {"read", "segments"} /\ job.req.info => \A q \in Children : ~Informed(q)
      /\ k.pmos[InfoPmo][NrArgs + 1] = Len(Msg) + 1
      /\ \A i \in 1..Len(Msg) : k.pmos[InfoPmo][Args + i] = IF Changed THEN Msg[i] + 1 ELSE Msg[i]
  BY <1>1 DEF Inv, InfoOk
<1> QED
  BY <1>4, <1>5, <1>6, <1>7 DEF InfoOk

\* A child goes on and nothing else changes.
LEMMA GoesOnQuietly ==
  ASSUME Inv, NEW p \in Children, app[p] # "none", NEW then, then \in {"done"},
         app' = [app EXCEPT ![p] = then], UNCHANGED <<k, job, launched>>,
         app[p] # "reads", Informed(p) => app[p] # "main"
  PROVE  Inv'
<1>1. /\ Kernel(k) /\ p \in Procs /\ ChildGood(k, p, app[p], launched[p], Top)
  BY ChildIs
<1>2. Grown(k, k') /\ k' = k
  BY <1>1, SameGrown
<1>3. Lower(k, k', Top) /\ Top \in Int
  BY <1>2, TopIs, GrownLower
<1>4. ChildGood(k', p, then, launched[p], Top)
  <2>1. Top <= Top /\ then # "none" /\ then # "reads" /\ then \notin {"maps", "reads", "waits"}
    BY <1>3
  <2>2. k'.main[p] = k.main[p] /\ k'.maps[p] = k.maps[p]
    BY <1>2
  <2> QED
    BY <1>1, <1>3, <2>1, <2>2, ChildGoodKept
<1>5. PageKept(k, k')
  BY <1>2 DEF PageKept
<1>6. InfoOk'
  BY <1>5, InfoStays
<1> QED
  BY <1>2, <1>4, <1>6, ChildKeeps DEF ChildSteps

\* A child that sees the flag ends.
LEMMA WaitForExitKeeps ==
  ASSUME Inv, NEW p \in Children, WaitForExit(p)
  PROVE  Inv'
<1>1. app[p] = "waits" /\ app' = [app EXCEPT ![p] = "done"] /\ UNCHANGED <<k, job, launched>>
  BY DEF WaitForExit
<1> QED
  BY <1>1, GoesOnQuietly

\* The message is changed where the child finds it.
LEMMA ReadInfoKeeps ==
  ASSUME Inv, NEW p \in Children, ReadInfo(p)
  PROVE  Inv'
<1>1. app[p] = "main" /\ UNCHANGED <<job, launched>>
  BY DEF ReadInfo
<1>2. /\ Kernel(k) /\ p \in Procs /\ launched[p] \in Requests /\ launched[p].info \in BOOLEAN
      /\ Informed(p) <=> launched[p].info
      /\ app[0] \notin {"none", "main", "info"}
      /\ k.main[p] = [sp |-> StackTop - PageSize, pc |-> ElfOf(launched[p].path).header.e_entry]
      /\ InfoPmo \in 1..Len(k.pmos) /\ Len(k.pmos[InfoPmo]) = PageSize
      /\ k.pmos[InfoPmo][NrArgs + 1] = Len(Msg) + 1
      /\ ChildGood(k, p, app[p], launched[p], Top)
  BY <1>1, ChildIs
<1> DEFINE req == launched[p]
<1>3. PICK b \in 0..Len(k.pmos), cap \in 0..Len(k.caps[p]) : ChildAt(k, p, req, b, cap, FALSE)
  <2>1. ("main" = "reads") = FALSE
    OBVIOUS
  <2> QED
    BY <1>1, <1>2, <2>1 DEF ChildGood
<1>4. k.main[p].sp = StackTop - PageSize
  BY <1>2
<1>5. envp(p, 0) = IF req.info THEN SharedInfo ELSE 0
  <2> HIDE DEF req
  <2> QED
    BY <1>3, <1>4, ChildReads
<1>6. CASE ~req.info
  <2>1. app' = [app EXCEPT ![p] = "done"] /\ UNCHANGED k
    BY <1>5, <1>6 DEF ReadInfo
  <2> QED
    BY <1>1, <1>2, <1>6, <2>1, GoesOnQuietly
<1>7. CASE req.info
  <2> DEFINE args == SharedInfo + 3
             l == Len(Msg)
             cells == [i \in 1..l |-> Load(k, p, args + i - 1) + 1]
             page == k.pmos[InfoPmo]
  <2>1. /\ SharedInfo \in Nat /\ PageSize \in Nat /\ SharedInfo # 0 /\ l \in Nat /\ 3 + l + 1 <= PageSize
    <3>1. SharedInfo # 0 /\ Msg \in Seq(Int) /\ 3 + l + 1 <= PageSize
      BY AddressesAssumption DEF Args
    <3>2. l \in Nat
      BY <3>1, LenProperties
    <3> QED
      BY <3>1, <3>2, Sizes
  <2>2. envp(p, 0) = SharedInfo
    BY <1>5, <1>7
  <2>3. \A off : off \in Nat /\ off < PageSize => CellAt(k, p, SharedInfo + off, InfoPmo, off, VMR_RW)
    <3>1. Separate(k.maps[p]) /\ Region(SharedInfo, PageSize, VMR_RW, InfoPmo) \in k.maps[p]
      <4> HIDE DEF req
      <4> QED
        BY <1>3, <1>7, ChildMap
    <3> QED
      BY <2>1, <3>1, AreaCell
  <2>4. Load(k, p, SharedInfo + 2) = l + 1
    <3>1. CellAt(k, p, SharedInfo + 2, InfoPmo, 2, VMR_RW)
      <4>1. 2 \in Nat /\ 2 < PageSize
        BY <2>1
      <4> QED
        BY <2>3, <4>1, Zenon
    <3> QED
      BY <1>2, <3>1 DEF CellAt, NrArgs
  <2>5. /\ k' = Store(k, p, args, [i \in 1..(l + 1 - 1) |-> Load(k, p, args + i - 1) + 1])
        /\ app' = [app EXCEPT ![p] = "maps"]
    <3>1. Load(k, p, envp(p, 0) + NrArgs) = l + 1
      BY <2>2, <2>4 DEF NrArgs
    <3>2. envp(p, 0) + Args = args /\ envp(p, 0) # 0
      BY <2>1, <2>2 DEF Args
    <3> DEFINE Stores(a, n) ==
                   Store(k, p, a, [i \in 1..(n - 1) |-> Load(k, p, a + i - 1) + 1])
    <3>3. /\ k' = Stores(envp(p, 0) + Args, Load(k, p, envp(p, 0) + NrArgs))
          /\ app' = [app EXCEPT ![p] = "maps"]
      BY <3>2, Zenon DEF ReadInfo
    <3>4. k' = Stores(args, l + 1)
      <4> HIDE DEF args, l, Stores
      <4> QED
        BY <3>1, <3>2, <3>3
    <3> QED
      BY <3>3, <3>4
  <2>6. k' = WriteObject(k, InfoPmo, 3, cells)
    <3>1. CellAt(k, p, args, InfoPmo, 3, VMR_RW)
      <4>1. 3 \in Nat /\ 3 < PageSize
        BY <2>1
      <4> QED
        BY <2>3, <4>1, Zenon
    <3>2. l + 1 - 1 = l
      BY <2>1
    <3>3. k' = Store(k, p, args, cells)
      BY <2>5, <3>2
    <3> HIDE DEF args, cells
    <3> QED
      BY <3>1, <3>3 DEF CellAt
  <2>7. \A i \in 1..l : cells[i] = page[3 + i] + 1
    <3> TAKE i \in 1..l
    <3> DEFINE off == 2 + i
    <3>1. off \in Nat /\ off < PageSize /\ SharedInfo + off = args + i - 1 /\ off + 1 = 3 + i
      BY <2>1
    <3> HIDE DEF off, args
    <3>2. CellAt(k, p, SharedInfo + off, InfoPmo, off, VMR_RW)
      BY <2>3, <3>1
    <3>3. Load(k, p, args + i - 1) = page[3 + i]
      BY <3>1, <3>2 DEF CellAt
    <3> QED
      BY <3>3
  <2> HIDE DEF cells, args
  <2>8. DOMAIN cells = 1..l
    BY DEF cells
  <2>9. /\ OnlyCells(k, k', InfoPmo)
        /\ \A i \in 1..PageSize : k'.pmos[InfoPmo][i] = IF i - 3 \in 1..l THEN cells[i - 3] ELSE page[i]
    <3> DEFINE w == WriteObject(k, InfoPmo, 3, cells)
               Then(kk, offset, c, bb) ==
          LET x == WriteObject(kk, bb, offset, c)
          IN  /\ OnlyCells(kk, x, bb)
              /\ \A i \in 1..Len(kk.pmos[bb]) :
                    x.pmos[bb][i] = IF i - offset \in DOMAIN c THEN c[i - offset] ELSE kk.pmos[bb][i]
    <3>4. Kernel(k) /\ InfoPmo \in 1..Len(k.pmos)
      BY <1>2
    <3>1. \A offset, c : Then(k, offset, c, InfoPmo)
      BY <3>4, Written
    <3>2. Then(k, 3, cells, InfoPmo)
      BY <3>1, Zenon
    <3>3. /\ OnlyCells(k, w, InfoPmo)
          /\ \A i \in 1..Len(page) : w.pmos[InfoPmo][i] = IF i - 3 \in DOMAIN cells THEN cells[i - 3] ELSE page[i]
      BY <3>2
    <3> HIDE DEF w
    <3> QED
      BY <1>2, <2>6, <2>8, <3>3 DEF w
  <2>10. Grown(k, k') /\ Len(k'.pmos) = Len(k.pmos)
    BY <1>2, <2>9, CellsGrown
  <2>11. k'.main = k.main /\ k'.next = k.next /\ k'.maps = k.maps /\ k'.caps = k.caps
         /\ Len(k'.pmos[InfoPmo]) = PageSize
    BY <1>2, <2>9 DEF OnlyCells
  <2>12. Lower(k, k', Top) /\ Top \in Int
    BY <2>10, TopIs, GrownLower
  <2>13. ChildGood(k', p, "maps", req, Top)
    <3> HIDE DEF req
    <3>1. Top <= Top /\ k'.main[p] = k.main[p] /\ k'.maps[p] = k.maps[p]
      BY <2>11, <2>12
    <3>2. ChildGood(k, p, app[p], req, Top)
      BY <1>2 DEF req
    <3> QED
      BY <1>1, <1>2, <1>7, <2>12, <3>1, <3>2, ChildGoodKept
  <2>14. InfoOk'
    <3>1. app'[p] = "maps" /\ \A q \in Procs : q # p => app'[q] = app[q]
      BY <1>2, <2>5 DEF Inv, Typed
    <3>2. \A q \in Children : (Informed(q))' = Informed(q)
      BY <1>1 DEF Informed
    <3>3. Changed'
      BY <1>2, <1>7, <3>1, <3>2 DEF Changed
    <3>4. /\ \A q, r \in Children : Informed(q) /\ Informed(r) => q = r
          /\ job.step \in {"read", "segments"} /\ job.req.info => \A q \in Children : ~Informed(q)
          /\ \A i \in 1..l : page[3 + i] = IF Changed THEN Msg[i] + 1 ELSE Msg[i]
      BY <1>2 DEF Inv, InfoOk, Args
    <3>5. ~Changed
      BY <1>1, <1>2, <1>7, <3>4 DEF Changed
    <3>6. \A i \in 1..l : k'.pmos[InfoPmo][3 + i] = Msg[i] + 1
      <4> TAKE i \in 1..l
      <4> DEFINE j == 3 + i
      <4>1. j \in 1..PageSize /\ j - 3 = i
        BY <2>1
      <4> HIDE DEF j
      <4>2. k'.pmos[InfoPmo][j] = cells[i]
        BY <2>9, <4>1
      <4>3. cells[i] = page[3 + i] + 1 /\ page[3 + i] = Msg[i]
        BY <2>7, <3>4, <3>5
      <4> QED
        BY <4>2, <4>3 DEF j
    <3>7. k'.pmos[InfoPmo][3] = l + 1
      <4>1. 3 \in 1..PageSize /\ 3 - 3 \notin 1..l
        BY <2>1
      <4>2. k'.pmos[InfoPmo][3] = page[3]
        BY <2>9, <4>1
      <4> QED
        BY <1>2, <4>2 DEF NrArgs
    <3> QED
      BY <1>1, <2>11, <3>2, <3>3, <3>4, <3>6, <3>7 DEF InfoOk, NrArgs, Args
  <2>15. "maps" \in ChildSteps /\ app[p] # "none"
    BY <1>1 DEF ChildSteps
  <2> QED
    BY <1>1, <2>5, <2>10, <2>11, <2>13, <2>14, <2>15, ChildKeeps
<1> QED
  BY <1>2, <1>6, <1>7

\* The page is mapped a second time, with the capability in the environment.
LEMMA MapAgainKeeps ==
  ASSUME Inv, NEW p \in Children, MapAgain(p)
  PROVE  Inv'
<1> DEFINE mapped == MapPmo(k, p, 0, envp(p, 1), SharedVaddr, VMR_RW)
           req == launched[p]
           r == Region(SharedVaddr, PageSize, VMR_RW, InfoPmo)
<1>1. /\ app[p] = "maps" /\ UNCHANGED <<job, launched>>
      /\ k' = mapped[1] /\ app' = [app EXCEPT ![p] = IF mapped[2] < 0 THEN "exited" ELSE "reads"]
  BY DEF MapAgain
<1>2. /\ Kernel(k) /\ p \in Procs /\ p < k.next /\ launched[p] \in Requests /\ launched[p].info
      /\ k.main[p] = [sp |-> StackTop - PageSize, pc |-> ElfOf(launched[p].path).header.e_entry]
      /\ InfoPmo \in 1..Len(k.pmos) /\ Len(k.pmos[InfoPmo]) = PageSize
      /\ ChildGood(k, p, app[p], launched[p], Top)
  BY <1>1, ChildIs
<1>3. PICK b \in 0..Len(k.pmos), cap \in 0..Len(k.caps[p]) :
         b + 3 <= Top /\ ChildAt(k, p, req, b, cap, FALSE)
  <2>1. ("maps" = "reads") = FALSE
    OBVIOUS
  <2> QED
    BY <1>1, <1>2, <2>1 DEF ChildGood
<1>4. k.main[p].sp = StackTop - PageSize
  BY <1>2
<1>5. envp(p, 1) = cap
  <2> HIDE DEF req
  <2>1. ChildAt(k, p, req, b, cap, FALSE) /\ req.info
    BY <1>2, <1>3 DEF req
  <2>2. req.info => envp(p, 1) = cap /\ envp(p, 2) = 0
    BY <1>4, <2>1, ChildReads
  <2> QED
    BY <2>1, <2>2
<1>6. Names(k, p, cap, "pmo", InfoPmo)
  BY <1>2, <1>3 DEF ChildAt
<1>7. Names(k, p, 0, "process", p)
  BY <1>2 DEF Inv, Unmade
<1>8. SharedVaddr \in Nat /\ ROUND_DOWN(SharedVaddr) = SharedVaddr /\ VMR_RW \in Nat
  BY Sizes, PageAreas
<1>9. IF Clashes(k, p, SharedVaddr, PageSize) THEN mapped[1] = k /\ mapped[2] = EPERM
      ELSE mapped[2] \in Nat /\ WithRegion(k, mapped[1], p, r)
  <2> DEFINE Then(c) ==
        LET x == MapPmo(k, p, 0, c, SharedVaddr, VMR_RW)
        IN  IF Clashes(k, p, SharedVaddr, Len(k.pmos[InfoPmo])) THEN x[1] = k /\ x[2] = EPERM
            ELSE x[2] \in Nat /\ WithRegion(k, x[1], p, Region(SharedVaddr, Len(k.pmos[InfoPmo]), VMR_RW, InfoPmo))
  <2>1. Then(cap)
    BY <1>2, <1>6, <1>7, <1>8, MapsObject
  <2>2. Then(envp(p, 1))
    BY <1>5, <2>1
  <2> QED
    BY <1>2, <2>2
<1> HIDE DEF mapped
<1>10. CASE Clashes(k, p, SharedVaddr, PageSize)
  <2>1. k' = k /\ app' = [app EXCEPT ![p] = "exited"]
    <3>1. mapped[1] = k /\ mapped[2] = EPERM
      BY <1>9, <1>10
    <3>2. EPERM < 0
      BY DEF EPERM
    <3> QED
      BY <1>1, <3>1, <3>2
  <2>2. Grown(k, k') /\ Lower(k, k', Top) /\ Top \in Int
    BY <1>2, <2>1, SameGrown, TopIs, GrownLower
  <2>3. ChildGood(k', p, "exited", req, Top)
    <3>1. Top <= Top /\ k'.main[p] = k.main[p] /\ k'.maps[p] = k.maps[p]
      BY <2>1, <2>2
    <3>2. ChildGood(k, p, app[p], req, Top)
      BY <1>2
    <3> HIDE DEF req
    <3> QED
      BY <1>1, <1>2, <2>2, <3>1, <3>2, ChildGoodKept
  <2>4. PageKept(k, k')
    BY <2>1 DEF PageKept
  <2>5. InfoOk'
    <3>1. app[p] # "none" /\ (app[p] \in {"none", "main"} <=> "exited" \in {"none", "main"})
      BY <1>1
    <3> QED
      BY <1>1, <2>1, <2>4, <3>1, InfoStays
  <2>6. "exited" \in ChildSteps /\ app[p] # "none"
    BY <1>1 DEF ChildSteps
  <2> QED
    BY <1>1, <2>1, <2>2, <2>3, <2>5, <2>6, ChildKeeps
<1>11. CASE ~Clashes(k, p, SharedVaddr, PageSize)
  <2>1. WithRegion(k, k', p, r) /\ app' = [app EXCEPT ![p] = "reads"]
    <3>1. mapped[2] \in Nat /\ WithRegion(k, mapped[1], p, r)
      BY <1>9, <1>11, Zenon
    <3>2. \A n \in Nat : ~(n < 0)
      OBVIOUS
    <3>3. ~(mapped[2] < 0)
      BY <3>1, <3>2, Zenon
    <3>4. k' = mapped[1] /\ app' = [app EXCEPT ![p] = "reads"]
      BY <1>1, <3>3
    <3> QED
      BY <3>1, <3>4, Zenon
  <2>2. /\ Kernel(k') /\ Kept(k, k') /\ k'.pmos = k.pmos /\ k'.main = k.main /\ k'.next = k.next
        /\ k'.maps[p] = k.maps[p] \cup {r}
        /\ \A q \in Procs : q # p => k'.maps[q] = k.maps[q] /\ k'.caps[q] = k.caps[q]
    BY <2>1 DEF WithRegion
  <2>3. Grown(k, k') /\ Len(k'.pmos) = Len(k.pmos)
    BY <1>2, <2>2, KernelIs DEF Grown
  <2>4. ChildAt(k', p, req, b, cap, TRUE)
    <3>1. k'.maps[p] = ChildRegions(req.path, b, 2, req.info, TRUE, TRUE)
      BY <1>3, <2>2 DEF ChildAt, ChildRegions
    <3>2. Names(k', p, cap, "pmo", InfoPmo)
      BY <1>2, <1>6, <2>2, NamesKept
    <3> HIDE DEF req
    <3> QED
      BY <1>3, <2>2, <3>1, <3>2 DEF ChildAt, SegmentsLoaded, EnvAt
  <2>5. ChildGood(k', p, "reads", req, Top)
    <3>1. b \in 0..Len(k'.pmos) /\ cap \in 0..Len(k'.caps[p])
      <4>1. Len(k.caps[p]) \in Nat /\ Len(k'.caps[p]) \in Nat /\ Len(k.caps[p]) <= Len(k'.caps[p])
        BY <1>2, <2>2, KernelIs DEF Kept
      <4> QED
        BY <2>2, <4>1
    <3>2. ("reads" = "reads") = TRUE
      OBVIOUS
    <3>3. \E b1 \in 0..Len(k'.pmos), cap1 \in 0..Len(k'.caps[p]) :
             b1 + 3 <= Top /\ ChildAt(k', p, req, b1, cap1, "reads" = "reads")
      <4> HIDE DEF req
      <4> QED
        BY <1>3, <2>4, <3>1, <3>2
    <3> HIDE DEF req
    <3>4. req \in Requests /\ req.info
          /\ k'.main[p] = [sp |-> StackTop - PageSize, pc |-> ElfOf(req.path).header.e_entry]
      BY <1>2, <2>2 DEF req
    <3> QED
      BY <3>3, <3>4 DEF ChildGood
  <2>6. PageKept(k, k')
    BY <2>2 DEF PageKept
  <2>7. InfoOk'
    <3>1. app[p] # "none" /\ (app[p] \in {"none", "main"} <=> "reads" \in {"none", "main"})
      BY <1>1
    <3> QED
      BY <1>1, <2>1, <2>6, <3>1, InfoStays
  <2>8. "reads" \in ChildSteps /\ app[p] # "none"
    BY <1>1 DEF ChildSteps
  <2> QED
    BY <1>1, <2>1, <2>2, <2>3, <2>5, <2>7, <2>8, ChildKeeps
<1> QED
  BY <1>10, <1>11

\* In a child only the page itself starts where it is mapped the second time.
LEMMA StartsAre ==
  ASSUME NEW req \in Requests, FileOf(req.path) # ENOENT, Len(Ph(req.path)) = 2, NEW b \in Nat,
         NEW r \in ChildRegions(req.path, b, 2, req.info, TRUE, FALSE)
  PROVE  r.start # SharedVaddr
<1>1. /\ PageSize \in Nat \ {0} /\ StackSize \in Nat \ {0}
      /\ StackBase \in Nat /\ SharedInfo \in Nat /\ SharedVaddr \in Nat
  BY Sizes
<1>2. \A a, l : a \in Nat /\ l \in Nat \ {0} /\ Apart(a, l, SharedVaddr, PageSize) => a # SharedVaddr
  BY <1>1 DEF Apart
<1>3. StackBase # SharedVaddr /\ SharedInfo # SharedVaddr
  BY <1>1, <1>2, AreasApart
<1>4. CASE r \in {SegmentAt(Ph(req.path)[i], b + i) : i \in 1..2}
  <2> DEFINE ph == Ph(req.path)
             area == <<SharedVaddr, PageSize>>
  <2>1. PICK i \in 1..2 : r = SegmentAt(ph[i], b + i)
    BY <1>4
  <2>2. area \in ChildAreas /\ area[1] = SharedVaddr /\ area[2] = PageSize
    BY DEF ChildAreas
  <2>3. Parts(FileOf(req.path), ElfOf(req.path), Programs[req.path], ChildAreas)
    BY ChildParts
  <2>4. ph[i] \in PageHeader /\ Apart(ROUND_DOWN(ph[i].p_vaddr), MapSize(ph[i]), area[1], area[2])
    <3> HIDE DEF area
    <3>1. i \in 1..Len(Ph(req.path))
      OBVIOUS
    <3> QED
      BY <2>2, <2>3, <3>1 DEF Parts, Ph
  <2>5. Apart(ROUND_DOWN(ph[i].p_vaddr), MapSize(ph[i]), SharedVaddr, PageSize)
    <3> HIDE DEF area
    <3> QED
      BY <2>2, <2>4
  <2>6. ROUND_DOWN(ph[i].p_vaddr) \in Nat /\ MapSize(ph[i]) \in Nat \ {0}
    BY <2>4, SegmentPages
  <2>7. r.start = ROUND_DOWN(ph[i].p_vaddr)
    BY <2>1 DEF SegmentAt, Region
  <2> HIDE DEF ph
  <2> QED
    BY <1>2, <2>5, <2>6, <2>7
<1>5. CASE r \notin {SegmentAt(Ph(req.path)[i], b + i) : i \in 1..2}
  <2>1. r.start = SharedInfo \/ r.start = StackBase
    BY <1>5 DEF ChildRegions, Region
  <2> QED
    BY <1>3, <2>1
<1> QED
  BY <1>4, <1>5

\* It lets go of the page at one address and says it is ready through the other.
LEMMA BecomeReadyKeeps ==
  ASSUME Inv, NEW p \in Children, BecomeReady(p)
  PROVE  Inv'
<1> DEFINE kk == UnmapPmo(k, p, SharedVaddr)
           req == launched[p]
           again == Region(SharedVaddr, PageSize, VMR_RW, InfoPmo)
<1>1. /\ app[p] = "reads" /\ UNCHANGED <<job, launched>>
      /\ k' = Store(kk, p, envp(p, 0) + ReadyFlag, <<1>>) /\ app' = [app EXCEPT ![p] = "waits"]
  BY DEF BecomeReady
<1>2. /\ Kernel(k) /\ p \in Procs /\ launched[p] \in Requests /\ launched[p].info
      /\ k.main[p] = [sp |-> StackTop - PageSize, pc |-> ElfOf(launched[p].path).header.e_entry]
      /\ InfoPmo \in 1..Len(k.pmos) /\ Len(k.pmos[InfoPmo]) = PageSize
      /\ ChildGood(k, p, app[p], launched[p], Top)
  BY <1>1, ChildIs
<1>3. PICK b \in 0..Len(k.pmos), cap \in 0..Len(k.caps[p]) :
         b + 3 <= Top /\ ChildAt(k, p, req, b, cap, TRUE)
  <2>1. ("reads" = "reads") = TRUE
    OBVIOUS
  <2> QED
    BY <1>1, <1>2, <2>1 DEF ChildGood
<1>4. k.main[p].sp = StackTop - PageSize
  BY <1>2
<1>5. envp(p, 0) = SharedInfo
  <2>1. envp(p, 0) = IF req.info THEN SharedInfo ELSE 0
    <3> HIDE DEF req
    <3> QED
      BY <1>3, <1>4, ChildReads
  <2> QED
    BY <1>2, <2>1
<1>6. /\ OnlyMaps(k, kk) /\ kk.maps[p] = {vmr \in k.maps[p] : vmr.start # SharedVaddr}
      /\ \A q \in Procs : q # p => kk.maps[q] = k.maps[q]
  BY <1>2, Unmaps
<1> HIDE DEF kk
<1>7. /\ Kernel(kk) /\ kk.pmos = k.pmos /\ kk.caps = k.caps /\ kk.main = k.main /\ kk.next = k.next
  BY <1>6 DEF OnlyMaps
<1>8. ChildAt(kk, p, req, b, cap, FALSE)
  <2>1. k.maps[p] = ChildRegions(req.path, b, 2, req.info, TRUE, FALSE) \cup {again}
    BY <1>3 DEF ChildAt, ChildRegions
  <2>2. \A r \in ChildRegions(req.path, b, 2, req.info, TRUE, FALSE) : r.start # SharedVaddr
    <3>1. req \in Requests /\ FileOf(req.path) # ENOENT /\ Len(Ph(req.path)) = 2 /\ b \in Nat
      BY <1>3 DEF ChildAt
    <3> HIDE DEF req
    <3> QED
      BY <3>1, StartsAre
  <2>3. again.start = SharedVaddr
    BY DEF Region
  <2> HIDE DEF req, again
  <2>4. kk.maps[p] = ChildRegions(req.path, b, 2, req.info, TRUE, FALSE)
    BY <1>6, <2>1, <2>2, <2>3
  <2> QED
    BY <1>3, <1>7, <2>4 DEF ChildAt, SegmentsLoaded, EnvAt, Names
<1>9. k' = WriteObject(kk, InfoPmo, 0, <<1>>)
  <2>1. SharedInfo \in Nat /\ PageSize \in Nat /\ PageSize # 0
    BY Sizes
  <2>2. Separate(kk.maps[p]) /\ Region(SharedInfo, PageSize, VMR_RW, InfoPmo) \in kk.maps[p]
    <3>1. req.info
      BY <1>2
    <3> HIDE DEF req
    <3> QED
      BY <1>8, <3>1, ChildMap
  <2>3. \A off : off \in Nat /\ off < PageSize => CellAt(kk, p, SharedInfo + off, InfoPmo, off, VMR_RW)
    BY <2>1, <2>2, AreaCell
  <2>4. CellAt(kk, p, SharedInfo + 0, InfoPmo, 0, VMR_RW)
    <3>1. 0 \in Nat /\ 0 < PageSize
      BY <2>1
    <3> QED
      BY <2>3, <3>1, Zenon
  <2>5. k' = Store(kk, p, SharedInfo + 0, <<1>>)
    BY <1>1, <1>5 DEF ReadyFlag
  <2> QED
    BY <2>4, <2>5 DEF CellAt
<1>10. OnlyCells(kk, k', InfoPmo) /\ PageKept(kk, k')
  <2>1. InfoPmo \in 1..Len(kk.pmos) /\ Len(kk.pmos[InfoPmo]) = PageSize /\ 0 \in {0, 1}
    BY <1>2, <1>7
  <2> QED
    BY <1>7, <1>9, <2>1, FlagWritten
<1>11. /\ Kernel(k') /\ k'.caps = k.caps /\ k'.maps = kk.maps /\ k'.main = k.main /\ k'.next = k.next
       /\ Len(k'.pmos) = Len(k.pmos)
       /\ \A i \in 1..Len(k.pmos) : i # InfoPmo => k'.pmos[i] = k.pmos[i]
  <2>1. /\ Kernel(k') /\ k'.caps = kk.caps /\ k'.maps = kk.maps /\ k'.main = kk.main
        /\ k'.next = kk.next /\ Len(k'.pmos) = Len(kk.pmos)
        /\ \A i \in 1..Len(kk.pmos) : i # InfoPmo => k'.pmos[i] = kk.pmos[i]
    BY <1>10 DEF OnlyCells
  <2> QED
    BY <1>7, <2>1
<1>12. Grown(k, k')
  <2>1. Kept(k, k') /\ Kernel(k)
    BY <1>2, <1>11, KeptSame
  <2>2. Len(k.pmos) <= Len(k'.pmos)
    BY <1>11, <2>1, KernelIs
  <2> QED
    BY <1>11, <2>1, <2>2 DEF Grown
<1>13. PageKept(k, k')
  BY <1>7, <1>10 DEF PageKept
<1>14. Grown(kk, k')
  BY <1>7, <1>10, CellsGrown
<1>15. Lower(kk, k', Top) /\ Top \in Int
  BY <1>7, <1>14, TopIs, GrownLower
<1>16. ChildAt(k', p, req, b, cap, FALSE)
  <2>1. b + 3 <= Top /\ k'.maps[p] = kk.maps[p]
    BY <1>3, <1>11
  <2> HIDE DEF req
  <2> QED
    BY <1>2, <1>8, <1>15, <2>1, ChildKept
<1>17. ChildGood(k', p, "waits", req, Top)
  <2>1. b \in 0..Len(k'.pmos) /\ cap \in 0..Len(k'.caps[p])
    BY <1>11
  <2>2. ("waits" = "reads") = FALSE
    OBVIOUS
  <2>3. \E b1 \in 0..Len(k'.pmos), cap1 \in 0..Len(k'.caps[p]) :
           b1 + 3 <= Top /\ ChildAt(k', p, req, b1, cap1, "waits" = "reads")
    <3> HIDE DEF req
    <3> QED
      BY <1>3, <1>16, <2>1, <2>2
  <2>4. req \in Requests /\ req.info
        /\ k'.main[p] = [sp |-> StackTop - PageSize, pc |-> ElfOf(req.path).header.e_entry]
    BY <1>2, <1>11
  <2> HIDE DEF req
  <2> QED
    BY <2>3, <2>4 DEF ChildGood
<1>18. InfoOk'
  <2>1. app[p] # "none" /\ (app[p] \in {"none", "main"} <=> "waits" \in {"none", "main"})
    BY <1>1
  <2> QED
    BY <1>1, <1>13, <2>1, InfoStays
<1>19. \A q \in Procs : q # p => k'.maps[q] = k.maps[q] /\ k'.caps[q] = k.caps[q]
  BY <1>6, <1>11
<1>20. "waits" \in ChildSteps /\ app[p] # "none"
  BY <1>1 DEF ChildSteps
<1> QED
  BY <1>1, <1>11, <1>12, <1>17, <1>18, <1>19, <1>20, ChildKeeps

-----------------------------------------------------------------------------
(* The root process on its own                                               *)

\* Before there are children.
LEMMA Alone ==
  ASSUME Typed', k'.next = 1, Names(k', 0, 0, "process", 0),
         \A p \in Children : /\ k'.caps[p] = <<>> /\ k'.maps[p] = {} /\ k'.main[p] = Nobody
                             /\ app'[p] = "none" /\ launched'[p] = Nobody,
         RootOk', job'.step = "idle",
         app'[0] \notin {"none", "main", "info"} =>
            /\ Len(k'.pmos[InfoPmo]) = PageSize /\ k'.pmos[InfoPmo][NrArgs + 1] = Len(Msg) + 1
            /\ \A i \in 1..Len(Msg) : k'.pmos[InfoPmo][Args + i] = Msg[i]
  PROVE  Inv'
<1>1. Procs \subseteq Nat /\ Children = Procs \ {0}
  BY ProcsAre DEF Children
<1>2. Unmade'
  <2>1. \A p \in Procs : p < k'.next => Names(k', p, 0, "process", p)
    <3> SUFFICES ASSUME NEW p \in Procs, p < k'.next PROVE Names(k', p, 0, "process", p)
      OBVIOUS
    <3>1. p = 0
      BY <1>1
    <3> QED
      BY <3>1
  <2>2. \A p \in Procs : p >= k'.next => p \in Children
    BY <1>1
  <2> QED
    BY <2>1, <2>2 DEF Unmade
<1>3. ChildrenOk'
  BY DEF ChildrenOk, ChildGood
<1>4. InfoOk'
  <2>1. \A p \in Children : ~(Informed(p))'
    BY DEF Informed
  <2>2. ~Changed'
    BY <2>1 DEF Changed
  <2> QED
    BY <2>1, <2>2 DEF InfoOk
<1>5. JobOk'
  BY Idle
<1> QED
  BY <1>2, <1>3, <1>4, <1>5 DEF Inv

\* That they stay away.
LEMMA AloneIs ==
  ASSUME Inv, app[0] \in {"main", "info"}
  PROVE  /\ Kernel(k) /\ Typed /\ 0 \in Procs /\ k.next = 1 /\ Names(k, 0, 0, "process", 0)
         /\ RootAt(k, app[0]) /\ launched[0] = [path |-> RootPath, info |-> FALSE]
         /\ \A p \in Children : /\ p \in Procs /\ p # 0
                                /\ k.caps[p] = <<>> /\ k.maps[p] = {} /\ k.main[p] = Nobody
                                /\ app[p] = "none" /\ launched[p] = Nobody
         /\ job.step = "idle" /\ Len(k.pmos) \in Nat
<1>1. Kernel(k) /\ Typed /\ Unmade /\ RootOk
  BY DEF Inv, Typed
<1>2. 0 \in Procs /\ Procs \subseteq Nat /\ Children = Procs \ {0}
  BY ProcsAre DEF Children
<1>3. k.next = 1 /\ RootAt(k, app[0]) /\ launched[0] = [path |-> RootPath, info |-> FALSE]
  BY <1>1 DEF RootOk
<1>4. job.step = "idle"
  BY <1>1 DEF Typed
<1>5. Names(k, 0, 0, "process", 0)
  BY <1>1, <1>2, <1>3 DEF Unmade
<1>6. \A p \in Children : p \in Procs /\ p # 0 /\ p >= k.next
  BY <1>2, <1>3
<1>7. Len(k.pmos) \in Nat
  BY <1>1, KernelIs
<1> QED
  BY <1>1, <1>2, <1>3, <1>4, <1>5, <1>6, <1>7 DEF Unmade

\* A region the root process is to have is free until it has it.
LEMMA RootRoom ==
  ASSUME NEW kk, Kernel(kk), NEW step, kk.maps[0] \subseteq RootRegions(step),
         NEW r \in RootRegions(step), r \notin kk.maps[0]
  PROVE  ~Clashes(kk, 0, r.start, r.size) /\ r \in Regions
<1>1. Separate(RootRegions(step)) /\ 0 \in Procs
  BY RootSeparate, ProcsAre
<1>2. r \in Regions /\ r.start \in Nat /\ r.size \in Nat \ {0}
  BY <1>1 DEF Separate, Regions
<1>3. \A s \in kk.maps[0] : Apart(r.start, r.size, s.start, s.size)
  BY <1>1 DEF Separate
<1>4. ~Clashes(kk, 0, r.start, r.size)
  BY <1>1, <1>2, <1>3, NoClash
<1> QED
  BY <1>2, <1>4

\* The objects the regions of the root process are of
LEMMA RootObjects ==
  ASSUME NEW step, step \in {"main", "info"}, NEW r \in RootRegions(step)
  PROVE  r.pmo \in 1..(IF step = "main" THEN NR + 1 ELSE NR + 2)
<1>1. NR \in Nat /\ ArchivePmo = NR + 2
  BY Numbers
<1>2. CASE r \in RootImage
  <2>1. PICK i \in 1..NR : r = SegmentAt(RootPh[i], i + 1)
    BY <1>2 DEF RootImage
  <2>2. r.pmo = i + 1
    BY <2>1 DEF SegmentAt, Region
  <2> QED
    BY <1>1, <2>2
<1>3. CASE r = Region(StackBase, StackSize, VMR_RW, 1)
  <2>1. r.pmo = 1
    BY <1>3 DEF Region
  <2> QED
    BY <1>1, <2>1
<1>4. CASE step = "info" /\ r = Region(CpioBin, Len(Archived), VMR_READ, ArchivePmo)
  <2>1. r.pmo = NR + 2
    BY <1>1, <1>4 DEF Region
  <2> QED
    BY <1>1, <1>4, <2>1
<1> QED
  BY <1>2, <1>3, <1>4 DEF RootRegions

\* The image and the stack of the root process stay as they are when objects are added.
LEMMA RootStays ==
  ASSUME NEW kk, NEW w, NEW step, RootAt(kk, step), \A i \in 1..(NR + 1) : w.pmos[i] = kk.pmos[i]
  PROVE  RootLoaded(w) /\ EnvAt(w, 1, prepare_env(StackTop, Meta(RootElf), RootPath))
<1>1. NR \in Nat
  BY Numbers
<1>2. w.pmos[1] = kk.pmos[1] /\ \A i \in 1..NR : w.pmos[i + 1] = kk.pmos[i + 1]
  BY <1>1
<1>3. RootLoaded(kk) /\ EnvAt(kk, 1, prepare_env(StackTop, Meta(RootElf), RootPath))
  BY DEF RootAt
<1>4. RootLoaded(w)
  BY <1>2, <1>3 DEF RootLoaded
<1>5. EnvAt(w, 1, prepare_env(StackTop, Meta(RootElf), RootPath))
  BY <1>2, <1>3 DEF EnvAt
<1> QED
  BY <1>4, <1>5

\* The root process gets the archive.
LEMMA LoadCpioKeeps ==
  ASSUME Inv, LoadCpio
  PROVE  Inv'
<1> DEFINE m == Len(k.pmos)
           s == Len(Ramdisk)
           n == Len(Archived)
           made == CreatePmo(k, 0, s)
           kk == made[1]
           pmo == Len(kk.pmos)
           r == Region(CpioBin, n, VMR_READ, ArchivePmo)
           w == MapIgnored(kk, 0, CpioBin, VMR_READ, pmo)
<1>1. /\ app[0] = "main" /\ app' = [app EXCEPT ![0] = "info"] /\ job' = job /\ launched' = launched
      /\ k' = WriteObject(w, pmo, 0, Ramdisk)
  BY Zenon DEF LoadCpio
<1>2. /\ Kernel(k) /\ Typed /\ 0 \in Procs /\ k.next = 1 /\ Names(k, 0, 0, "process", 0)
      /\ RootAt(k, "main") /\ launched[0] = [path |-> RootPath, info |-> FALSE]
      /\ \A p \in Children : /\ p \in Procs /\ p # 0
                             /\ k.caps[p] = <<>> /\ k.maps[p] = {} /\ k.main[p] = Nobody
                             /\ app[p] = "none" /\ launched[p] = Nobody
      /\ job.step = "idle" /\ m \in Nat
  BY <1>1, AloneIs
<1>3. /\ NR \in Nat /\ ArchivePmo = NR + 2 /\ m = NR + 1 /\ k.maps[0] = RootRegions("main")
      /\ n \in Nat \ {0} /\ n = ROUND_UP(s) /\ DOMAIN Ramdisk = 1..s /\ s \in Nat /\ s <= n
  BY <1>2, Numbers, ArchiveIs DEF RootAt
<1>4. OneMore(k, kk, n) /\ \A q \in Procs : q # 0 => kk.caps[q] = k.caps[q]
  <2> HIDE DEF n, s
  <2> QED
    BY <1>2, <1>3, Created
<1> HIDE DEF kk, made
<1>5. /\ Kernel(kk) /\ Kept(k, kk) /\ kk.maps = k.maps /\ kk.main = k.main /\ kk.next = k.next
      /\ pmo = m + 1 /\ (\A i \in 1..m : kk.pmos[i] = k.pmos[i]) /\ Len(kk.pmos[pmo]) = n
      /\ \A i \in 1..n : kk.pmos[pmo][i] = Junk
  BY <1>4 DEF OneMore
<1>6. pmo = ArchivePmo /\ pmo \in 1..Len(kk.pmos) /\ pmo = NR + 2
  <2> HIDE DEF m, pmo
  <2>1. pmo = NR + 2 /\ pmo \in 1..pmo
    BY <1>3, <1>5
  <2> QED
    BY <1>3, <2>1 DEF pmo
<1>7. ~Clashes(kk, 0, CpioBin, n)
  <2>1. RootRegions("info") = RootRegions("main") \cup {r}
    BY DEF RootRegions
  <2>2. r \notin RootRegions("main")
    <3>1. r.pmo = NR + 2
      BY <1>3 DEF Region
    <3>2. \A x \in RootRegions("main") : x.pmo \in 1..(NR + 1)
      BY RootObjects
    <3>3. NR + 2 \notin 1..(NR + 1)
      BY <1>3
    <3> HIDE DEF r
    <3> QED
      BY <3>1, <3>2, <3>3
  <2>3. r.start = CpioBin /\ r.size = n
    BY DEF Region
  <2> HIDE DEF r
  <2> QED
    BY <1>3, <1>5, <2>1, <2>2, <2>3, RootRoom
<1>8. w = MapRange(kk, 0, CpioBin, VMR_READ, pmo)
  BY <1>5, <1>7 DEF MapIgnored
<1> HIDE DEF pmo
<1>9. /\ OnlyMaps(kk, w) /\ w.maps[0] = kk.maps[0] \cup {r}
      /\ \A q \in Procs : q # 0 => w.maps[q] = kk.maps[q]
  <2>1. CpioBin \in Nat /\ VMR_READ \in Nat
    BY Sizes, PageAreas
  <2> HIDE DEF w, n
  <2>2. /\ OnlyMaps(kk, w) /\ w.maps[0] = kk.maps[0] \cup {Region(CpioBin, Len(kk.pmos[pmo]), VMR_READ, pmo)}
        /\ \A q \in Procs : q # 0 => w.maps[q] = kk.maps[q]
    BY <1>2, <1>5, <1>6, <1>8, <2>1, Mapped
  <2> QED
    BY <1>5, <1>6, <2>2
<1> HIDE DEF w, r, n, s, m
<1>10. /\ Kernel(w) /\ w.pmos = kk.pmos /\ w.caps = kk.caps /\ w.main = kk.main /\ w.next = kk.next
  BY <1>9 DEF OnlyMaps
<1>11. /\ OnlyCells(w, k', pmo)
       /\ \A i \in 1..n : k'.pmos[pmo][i] = IF i \in 1..s THEN Ramdisk[i] ELSE Junk
  <2> DEFINE x == WriteObject(w, pmo, 0, Ramdisk)
  <2>1. pmo \in 1..Len(w.pmos) /\ Len(w.pmos[pmo]) = n
    BY <1>5, <1>6, <1>10
  <2>2. /\ OnlyCells(w, x, pmo)
        /\ \A i \in 1..n : x.pmos[pmo][i] = IF i - 0 \in DOMAIN Ramdisk THEN Ramdisk[i - 0] ELSE w.pmos[pmo][i]
    <3> DEFINE Then(offset, cells) ==
          LET y == WriteObject(w, pmo, offset, cells)
          IN  /\ OnlyCells(w, y, pmo)
              /\ \A i \in 1..Len(w.pmos[pmo]) :
                    y.pmos[pmo][i] = IF i - offset \in DOMAIN cells THEN cells[i - offset] ELSE w.pmos[pmo][i]
    <3>1. Kernel(w) /\ pmo \in 1..Len(w.pmos)
      BY <1>10, <2>1
    <3>2. \A offset, cells : Then(offset, cells)
      BY <3>1, Written
    <3>3. Then(0, Ramdisk)
      BY <3>2, Zenon
    <3> QED
      BY <2>1, <3>3
  <2>3. k' = x
    BY <1>1
  <2> HIDE DEF x
  <2>4. \A i \in 1..n : i - 0 = i /\ w.pmos[pmo][i] = Junk
    BY <1>3, <1>5, <1>10
  <2> QED
    BY <1>3, <2>2, <2>3, <2>4
<1>12. /\ Kernel(k') /\ k'.caps = kk.caps /\ k'.maps = w.maps /\ k'.main = k.main /\ k'.next = 1
       /\ Len(k'.pmos) = m + 1 /\ Len(k'.pmos[pmo]) = n
       /\ \A i \in 1..(m + 1) : i # pmo => k'.pmos[i] = kk.pmos[i]
  BY <1>2, <1>5, <1>10, <1>11 DEF OnlyCells, pmo
<1>13. k'.pmos[ArchivePmo] = Archived
  <2> DEFINE cells == k'.pmos[ArchivePmo]
  <2>1. IsSeq(cells) /\ Len(cells) = n
    <3>1. ArchivePmo \in 1..Len(k'.pmos)
      BY <1>3, <1>12
    <3> QED
      BY <1>6, <1>12, <3>1, KernelIs
  <2>2. \A i \in 1..n : cells[i] = IF i \in DOMAIN Ramdisk THEN Ramdisk[i] ELSE Junk
    BY <1>3, <1>6, <1>11
  <2> HIDE DEF cells
  <2>3. cells = [i \in 1..n |-> cells[i]]
    BY <2>1 DEF IsSeq
  <2>4. Archived = [i \in 1..n |-> IF i \in DOMAIN Ramdisk THEN Ramdisk[i] ELSE Junk]
    BY <1>3 DEF Archived, s
  <2>5. cells = Archived
    BY <2>2, <2>3, <2>4
  <2> QED
    BY <2>5 DEF cells
<1>14. RootAt(k', "info")
  <2>1. k'.maps[0] = RootRegions("info")
    BY <1>3, <1>5, <1>9, <1>12 DEF RootRegions, r, n
  <2>2. \A i \in 1..(NR + 1) : k'.pmos[i] = k.pmos[i]
    <3>1. \A i \in 1..(NR + 1) : i \in 1..(m + 1) /\ i # pmo /\ i \in 1..m
      BY <1>3, <1>6
    <3> QED
      BY <1>5, <1>12, <3>1
  <2>3. Len(k'.pmos) = NR + 2 /\ k'.next >= 1
    BY <1>3, <1>12
  <2>4. k'.main[0] = [sp |-> StackTop - PageSize, pc |-> RootElf.header.e_entry]
    BY <1>2, <1>12 DEF RootAt
  <2>5. RootLoaded(k') /\ EnvAt(k', 1, prepare_env(StackTop, Meta(RootElf), RootPath))
    BY <1>2, <2>2, RootStays
  <2> QED
    BY <1>13, <2>1, <2>3, <2>4, <2>5 DEF RootAt
<1>15. app'[0] = "info" /\ \A p \in Procs : p # 0 => app'[p] = app[p]
  BY <1>1, <1>2 DEF Typed
<1>16. RootOk'
  BY <1>1, <1>2, <1>12, <1>14, <1>15 DEF RootOk
<1>17. Typed'
  <2>1. app' = [p \in Procs |-> app'[p]]
    BY <1>1, <1>2 DEF Typed
  <2>2. \A p \in Children : app'[p] \in ChildSteps
    BY <1>2, <1>15 DEF ChildSteps
  <2> QED
    BY <1>1, <1>2, <1>12, <1>15, <2>1, <2>2 DEF Typed, RootSteps
<1>18. Names(k', 0, 0, "process", 0)
  <2>1. Kept(k, k')
    BY <1>5, <1>12 DEF Kept
  <2> QED
    BY <1>2, <1>12, <2>1, NamesKept
<1>19. \A p \in Children : /\ k'.caps[p] = <<>> /\ k'.maps[p] = {} /\ k'.main[p] = Nobody
                           /\ app'[p] = "none" /\ launched'[p] = Nobody
  <2> TAKE p \in Children
  <2>1. p \in Procs /\ p # 0
    BY <1>2
  <2>2. k'.caps[p] = k.caps[p] /\ k'.maps[p] = k.maps[p]
    BY <1>4, <1>5, <1>9, <1>12, <2>1
  <2> QED
    BY <1>1, <1>2, <1>12, <1>15, <2>1, <2>2
<1> QED
  BY <1>1, <1>2, <1>12, <1>15, <1>16, <1>17, <1>18, <1>19, Alone

\* The words of the info page as the parent writes them
LEMMA InfoWords ==
  LET l == Len(Msg)
      words == <<0, 0, l + 1>> \o Msg \o <<0>>
  IN  /\ l \in Nat /\ DOMAIN words = 1..(l + 4) /\ words[3] = l + 1
      /\ \A i \in 1..l : words[3 + i] = Msg[i]
<1> DEFINE l == Len(Msg)
           first == <<0, 0, l + 1>>
           zero == <<0>>
           both == first \o Msg
           words == both \o zero
<1>1. IsSeq(Msg) /\ l \in Nat
  <2>1. Msg \in Seq(Int)
    BY AddressesAssumption
  <2>2. l \in Nat /\ DOMAIN Msg = 1..l
    BY <2>1, LenProperties
  <2>3. Msg = [i \in 1..l |-> Msg[i]]
    BY <2>1, <2>2
  <2> QED
    BY <2>2, <2>3 DEF IsSeq
<1>2. IsSeq(first) /\ Len(first) = 3 /\ IsSeq(zero) /\ Len(zero) = 1 /\ first[3] = l + 1
  BY Tuples
<1> HIDE DEF first, zero
<1>3. Words(first, Msg, both)
  BY <1>1, <1>2, Joins, Zenon
<1> HIDE DEF both
<1>4. IsSeq(both) /\ Len(both) = 3 + l /\ both[3] = l + 1 /\ \A i \in 1..l : both[3 + i] = Msg[i]
  <2>1. 3 \in 1..3
    OBVIOUS
  <2> HIDE DEF l
  <2> QED
    BY <1>2, <1>3, <2>1 DEF Words, l
<1>5. Words(both, zero, words)
  BY <1>2, <1>4, Joins, Zenon
<1> HIDE DEF words, l
<1>6. IsSeq(words) /\ Len(words) = l + 4 /\ \A i \in 1..(3 + l) : words[i] = both[i]
  BY <1>1, <1>2, <1>4, <1>5 DEF Words
<1>7. DOMAIN words = 1..(l + 4)
  BY <1>6 DEF IsSeq
<1>8. 3 \in 1..(3 + l) /\ \A i \in 1..l : 3 + i \in 1..(3 + l)
  BY <1>1
<1>9. words[3] = l + 1 /\ \A i \in 1..l : words[3 + i] = Msg[i]
  BY <1>4, <1>6, <1>8
<1> QED
  BY <1>1, <1>7, <1>9 DEF words, both, first, zero, l

\* The root process gets the info page, with the message in it.
LEMMA PrepareInfoKeeps ==
  ASSUME Inv, PrepareInfo
  PROVE  Inv'
<1> DEFINE m == Len(k.pmos)
           l == Len(Msg)
           made == CreatePmo(k, 0, PageSize)
           kk == made[1]
           cap == made[2]
           mapped == MapPmo(kk, 0, 0, cap, InfoVaddr, VMR_RW)
           w == mapped[1]
           words == <<0, 0, l + 1>> \o Msg \o <<0>>
           r == Region(InfoVaddr, PageSize, VMR_RW, InfoPmo)
<1>1. /\ app[0] = "info" /\ app' = [app EXCEPT ![0] = "launches"] /\ launched' = launched
      /\ k' = Store(w, 0, InfoVaddr, words) /\ job' = [job EXCEPT !.info = cap]
  BY Zenon DEF PrepareInfo
<1>2. /\ Kernel(k) /\ Typed /\ 0 \in Procs /\ k.next = 1 /\ Names(k, 0, 0, "process", 0)
      /\ RootAt(k, "info") /\ launched[0] = [path |-> RootPath, info |-> FALSE]
      /\ \A p \in Children : /\ p \in Procs /\ p # 0
                             /\ k.caps[p] = <<>> /\ k.maps[p] = {} /\ k.main[p] = Nobody
                             /\ app[p] = "none" /\ launched[p] = Nobody
      /\ job.step = "idle" /\ m \in Nat
  BY <1>1, AloneIs
<1>3. /\ NR \in Nat /\ InfoPmo = NR + 3 /\ ArchivePmo = NR + 2 /\ m = NR + 2
      /\ k.maps[0] = RootRegions("info") /\ k.pmos[ArchivePmo] = Archived
  BY <1>2, Numbers DEF RootAt
<1>4. /\ PageSize \in Nat \ {0} /\ InfoVaddr \in Nat /\ VMR_RW \in Nat
      /\ ROUND_UP(PageSize) = PageSize /\ ROUND_DOWN(InfoVaddr) = InfoVaddr
      /\ l \in Nat /\ 3 + l + 1 <= PageSize
  BY Sizes, PageAreas, AddressesAssumption, InfoWords DEF Args
<1>5. /\ OneMore(k, kk, PageSize) /\ Names(kk, 0, cap, "pmo", m + 1)
      /\ \A q \in Procs : q # 0 => kk.caps[q] = k.caps[q]
  BY <1>2, <1>4, Created
<1> HIDE DEF made, kk, cap
<1>6. /\ Kernel(kk) /\ Kept(k, kk) /\ kk.maps = k.maps /\ kk.main = k.main /\ kk.next = k.next
      /\ Len(kk.pmos) = m + 1 /\ (\A i \in 1..m : kk.pmos[i] = k.pmos[i])
      /\ Len(kk.pmos[m + 1]) = PageSize
  BY <1>5 DEF OneMore
<1>7. m + 1 = InfoPmo /\ InfoPmo \in 1..Len(kk.pmos)
  <2> HIDE DEF m
  <2>1. m + 1 = InfoPmo /\ InfoPmo \in 1..(m + 1)
    BY <1>3
  <2> QED
    BY <1>6, <2>1
<1>8. ~Clashes(kk, 0, InfoVaddr, PageSize)
  <2>1. RootRegions("launches") = RootRegions("info") \cup {r}
    BY DEF RootRegions
  <2>2. r \notin RootRegions("info")
    <3>1. r.pmo = NR + 3
      BY <1>3 DEF Region
    <3>2. \A x \in RootRegions("info") : x.pmo \in 1..(NR + 2)
      BY RootObjects
    <3>3. NR + 3 \notin 1..(NR + 2)
      BY <1>3
    <3> HIDE DEF r
    <3> QED
      BY <3>1, <3>2, <3>3
  <2>3. r.start = InfoVaddr /\ r.size = PageSize
    BY DEF Region
  <2> HIDE DEF r
  <2> QED
    BY <1>3, <1>6, <2>1, <2>2, <2>3, RootRoom
<1>9. WithRegion(kk, w, 0, r)
  <2>1. Names(kk, 0, 0, "process", 0) /\ Names(kk, 0, cap, "pmo", InfoPmo)
    BY <1>2, <1>5, <1>6, <1>7, NamesKept
  <2>2. Len(kk.pmos[InfoPmo]) = PageSize
    BY <1>6, <1>7
  <2> DEFINE Then(b) ==
          LET x == MapPmo(kk, 0, 0, cap, InfoVaddr, VMR_RW)
              n == Len(kk.pmos[b])
          IN  IF Clashes(kk, 0, InfoVaddr, n) THEN x[1] = kk /\ x[2] = EPERM
              ELSE x[2] \in Nat /\ WithRegion(kk, x[1], 0, Region(InfoVaddr, n, VMR_RW, b))
  <2>3. Then(InfoPmo)
    BY <1>2, <1>4, <1>6, <1>7, <2>1, MapsObject
  <2> QED
    BY <1>8, <2>2, <2>3
<1> HIDE DEF mapped, w
<1>10. /\ Kernel(w) /\ Kept(kk, w) /\ w.pmos = kk.pmos /\ w.main = kk.main /\ w.next = kk.next
       /\ w.maps[0] = kk.maps[0] \cup {r}
       /\ \A q \in Procs : q # 0 => w.maps[q] = kk.maps[q] /\ w.caps[q] = kk.caps[q]
  BY <1>9 DEF WithRegion
<1>11. w.maps[0] = RootRegions("launches")
  BY <1>3, <1>6, <1>10 DEF RootRegions
<1>12. k' = WriteObject(w, InfoPmo, 0, words)
  <2>1. \A off : off \in Nat /\ off < PageSize => CellAt(w, 0, InfoVaddr + off, InfoPmo, off, VMR_RW)
    <3>1. "launches" \notin {"main", "info"}
      OBVIOUS
    <3> QED
      BY <1>11, <3>1, InfoInRoot
  <2>2. 0 \in Nat /\ 0 < PageSize /\ InfoVaddr + 0 = InfoVaddr
    BY <1>4
  <2>3. CellAt(w, 0, InfoVaddr + 0, InfoPmo, 0, VMR_RW)
    BY <2>1, <2>2, Zenon
  <2> HIDE DEF words
  <2> QED
    BY <1>1, <2>2, <2>3 DEF CellAt
<1>13. /\ DOMAIN words = 1..(l + 4) /\ words[3] = l + 1 /\ \A i \in 1..l : words[3 + i] = Msg[i]
  BY InfoWords
<1> HIDE DEF words, l, m, r
<1>14. /\ OnlyCells(w, k', InfoPmo)
       /\ \A i \in 1..(l + 4) : k'.pmos[InfoPmo][i] = words[i]
  <2> DEFINE x == WriteObject(w, InfoPmo, 0, words)
             Then(offset, cells) ==
          LET y == WriteObject(w, InfoPmo, offset, cells)
          IN  /\ OnlyCells(w, y, InfoPmo)
              /\ \A i \in 1..Len(w.pmos[InfoPmo]) :
                    y.pmos[InfoPmo][i] = IF i - offset \in DOMAIN cells THEN cells[i - offset]
                                         ELSE w.pmos[InfoPmo][i]
  <2>1. Kernel(w) /\ InfoPmo \in 1..Len(w.pmos) /\ Len(w.pmos[InfoPmo]) = PageSize
    BY <1>6, <1>7, <1>10
  <2>2. \A offset, cells : Then(offset, cells)
    BY <2>1, Written
  <2>3. Then(0, words)
    BY <2>2, Zenon
  <2>4. /\ OnlyCells(w, x, InfoPmo)
        /\ \A i \in 1..PageSize : x.pmos[InfoPmo][i] = IF i - 0 \in DOMAIN words THEN words[i - 0]
                                                       ELSE w.pmos[InfoPmo][i]
    BY <2>1, <2>3
  <2> HIDE DEF x
  <2>5. k' = x
    BY <1>12 DEF x
  <2>6. \A i \in 1..(l + 4) : i \in 1..PageSize /\ i - 0 = i
    BY <1>4
  <2> QED
    BY <1>13, <2>4, <2>5, <2>6
<1>15. /\ Kernel(k') /\ k'.caps = w.caps /\ k'.maps = w.maps /\ k'.main = k.main /\ k'.next = 1
       /\ Len(k'.pmos) = m + 1 /\ Len(k'.pmos[InfoPmo]) = PageSize
       /\ \A i \in 1..(m + 1) : i # InfoPmo => k'.pmos[i] = kk.pmos[i]
  BY <1>2, <1>6, <1>7, <1>10, <1>14 DEF OnlyCells
<1>16. RootAt(k', "launches")
  <2>1. k'.maps[0] = RootRegions("launches")
    BY <1>11, <1>15
  <2>2. \A i \in 1..(NR + 2) : k'.pmos[i] = k.pmos[i]
    <3>1. \A i \in 1..(NR + 2) : i \in 1..(m + 1) /\ i # InfoPmo /\ i \in 1..m
      BY <1>3
    <3> QED
      BY <1>6, <1>15, <3>1
  <2>3. Len(k'.pmos) = NR + 3 /\ k'.next >= 1
    BY <1>3, <1>15
  <2>4. k'.main[0] = [sp |-> StackTop - PageSize, pc |-> RootElf.header.e_entry]
    BY <1>2, <1>15 DEF RootAt
  <2>5. RootLoaded(k') /\ EnvAt(k', 1, prepare_env(StackTop, Meta(RootElf), RootPath))
    <3>1. \A i \in 1..(NR + 1) : k'.pmos[i] = k.pmos[i]
      BY <1>3, <2>2
    <3> QED
      BY <1>2, <3>1, RootStays
  <2>6. k'.pmos[ArchivePmo] = Archived
    BY <1>3, <2>2
  <2>7. Len(k'.pmos) >= NR + 3
    BY <1>3, <2>3
  <2> QED
    BY <2>1, <2>3, <2>4, <2>5, <2>6, <2>7 DEF RootAt
<1>17. app'[0] = "launches" /\ \A p \in Procs : p # 0 => app'[p] = app[p]
  BY <1>1, <1>2 DEF Typed
<1>18. JobShape(job') /\ job'.step = "idle" /\ job'.info = cap
  BY <1>1, <1>2 DEF Typed, JobShape
<1>19. Names(k', 0, cap, "pmo", InfoPmo) /\ Names(k', 0, 0, "process", 0)
  <2>1. Names(w, 0, cap, "pmo", InfoPmo) /\ Names(w, 0, 0, "process", 0)
    <3>1. Names(kk, 0, 0, "process", 0) /\ Names(kk, 0, cap, "pmo", InfoPmo)
      BY <1>2, <1>5, <1>6, <1>7, NamesKept
    <3> QED
      BY <1>2, <1>6, <1>10, <3>1, NamesKept
  <2> QED
    BY <1>15, <2>1 DEF Names
<1>20. RootOk'
  BY <1>1, <1>2, <1>16, <1>17, <1>18, <1>19 DEF RootOk
<1>21. Typed'
  <2>1. app' = [p \in Procs |-> app'[p]]
    BY <1>1, <1>2 DEF Typed
  <2>2. \A p \in Children : app'[p] \in ChildSteps
    BY <1>2, <1>17 DEF ChildSteps
  <2> QED
    BY <1>1, <1>2, <1>15, <1>17, <1>18, <2>1, <2>2 DEF Typed, RootSteps, JobShape
<1>22. \A p \in Children : /\ k'.caps[p] = <<>> /\ k'.maps[p] = {} /\ k'.main[p] = Nobody
                           /\ app'[p] = "none" /\ launched'[p] = Nobody
  <2> TAKE p \in Children
  <2>1. p \in Procs /\ p # 0
    BY <1>2
  <2>2. k'.caps[p] = k.caps[p] /\ k'.maps[p] = k.maps[p]
    BY <1>5, <1>6, <1>10, <1>15, <2>1
  <2> QED
    BY <1>1, <1>2, <1>15, <1>17, <2>1, <2>2
<1>23. /\ k'.pmos[InfoPmo][NrArgs + 1] = Len(Msg) + 1
       /\ \A i \in 1..Len(Msg) : k'.pmos[InfoPmo][Args + i] = Msg[i]
  <2>1. 3 \in 1..(l + 4) /\ \A i \in 1..l : 3 + i \in 1..(l + 4)
    BY <1>4
  <2>2. k'.pmos[InfoPmo][3] = l + 1 /\ \A i \in 1..l : k'.pmos[InfoPmo][3 + i] = Msg[i]
    BY <1>13, <1>14, <2>1
  <2> QED
    BY <2>2 DEF NrArgs, Args, l
<1> QED
  BY <1>15, <1>18, <1>19, <1>20, <1>21, <1>22, <1>23, Alone

-----------------------------------------------------------------------------
(* The image of the root process                                             *)

\* A round of the loop of load_binary()
LoadRound(kk, code, ph) ==
    LET made == CreatePmo(kk, 0, MapSize(ph))[1]
        pmo  == Len(made.pmos)
        at   == ROUND_DOWN(ph.p_vaddr)
        full == WriteObject(made, pmo, ph.p_vaddr - at, FileBytes(code, ph))
    IN  IF Clashes(full, 0, at, MapSize(ph)) THEN [full EXCEPT !.halted = TRUE]
        ELSE MapRange(full, 0, at, PFLAGS2VMRFLAGS(ph.p_flags), pmo)

\* The loop is a sequence of states, one for each round.
LEMMA LoadRounds ==
  ASSUME NEW kk, NEW code, NEW elf, Len(Loadable(elf)) \in Nat
  PROVE  \E f : /\ load_binary(kk, code, elf) = f[Len(Loadable(elf))] /\ f[0] = kk
                /\ \A i \in 1..Len(Loadable(elf)) : f[i] = LoadRound(f[i - 1], code, Loadable(elf)[i])
<1> DEFINE ph == Loadable(elf)
           n == Len(ph)
           Body(f, i) == IF i = 0 THEN kk ELSE LoadRound(f[i - 1], code, ph[i])
           loaded == CHOOSE f : f = [i \in 0..n |-> Body(f, i)]
           Good == {m \in Nat : \E f : f = [i \in 0..m |-> Body(f, i)]}
<1>1. load_binary(kk, code, elf) = loaded[n]
  BY Zenon DEF load_binary, LoadRound
<1>2. n \in Nat
  OBVIOUS
<1> HIDE DEF n, ph
<1>3. 0 \in Good
  <2> DEFINE f == [i \in 0..0 |-> kk]
  <2>1. f = [i \in 0..0 |-> Body(f, i)]
    OBVIOUS
  <2> QED
    BY <2>1
<1>4. ASSUME NEW m \in 1..n, m - 1 \in Good PROVE m \in Good
  <2>1. PICK f : f = [i \in 0..(m - 1) |-> Body(f, i)]
    BY <1>4
  <2> DEFINE h == [i \in 0..m |-> Body(f, i)]
  <2>2. \A i \in 0..m : i # 0 => h[i - 1] = f[i - 1]
    <3> SUFFICES ASSUME NEW i \in 0..m, i # 0 PROVE h[i - 1] = f[i - 1]
      OBVIOUS
    <3>1. i - 1 \in 0..(m - 1) /\ i - 1 \in 0..m
      OBVIOUS
    <3> HIDE DEF Body
    <3> QED
      BY <2>1, <3>1
  <2>3. \A i \in 0..m : Body(h, i) = Body(f, i)
    <3> HIDE DEF h
    <3> QED
      BY <2>2
  <2>4. h = [i \in 0..m |-> Body(h, i)]
    <3> HIDE DEF Body
    <3>1. h = [i \in 0..m |-> Body(f, i)]
      OBVIOUS
    <3> HIDE DEF h
    <3> QED
      BY <2>3, <3>1, Zenon
  <2>5. m \in Nat
    OBVIOUS
  <2> HIDE DEF h, Body
  <2> QED
    BY <2>4, <2>5
<1>5. n \in Good
  <2> HIDE DEF Good
  <2> QED
    BY <1>2, <1>3, <1>4, UpTo
<1>6. loaded = [i \in 0..n |-> Body(loaded, i)]
  <2>1. \E f : f = [i \in 0..n |-> Body(f, i)]
    BY <1>5
  <2> HIDE DEF Body
  <2> QED
    BY <2>1
<1> HIDE DEF loaded
<1>7. \A i \in 0..n : loaded[i] = Body(loaded, i)
  <2> HIDE DEF Body
  <2> QED
    BY <1>6
<1>8. loaded[0] = kk /\ \A i \in 1..n : loaded[i] = LoadRound(loaded[i - 1], code, ph[i])
  <2>1. 0 \in 0..n /\ \A i \in 1..n : i \in 0..n /\ i # 0
    BY <1>2
  <2> QED
    BY <1>7, <2>1
<1> QED
  BY <1>1, <1>8 DEF n, ph

\* The bytes of a segment of the root process are where its program wants them.
BytesAt(w, i) ==
    LET bytes == FileBytes(RootCode, RootPh[i])
    IN  \A j \in DOMAIN bytes :
            w.pmos[i + 1][RootPh[i].p_vaddr - ROUND_DOWN(RootPh[i].p_vaddr) + j] = bytes[j]

\* The kernel has loaded i segments since kk.
LoadedTo(kk, w, i) ==
    /\ Kernel(w) /\ ~w.halted /\ Kept(kk, w) /\ w.main = kk.main /\ w.next = kk.next
    /\ Len(w.pmos) = i + 1 /\ w.pmos[1] = kk.pmos[1]
    /\ w.maps[0] = {Region(StackBase, StackSize, VMR_RW, 1)} \cup {SegmentAt(RootPh[j], j + 1) : j \in 1..i}
    /\ \A q \in Procs : q # 0 => w.maps[q] = kk.maps[q] /\ w.caps[q] = kk.caps[q]
    /\ \A j \in 1..i : BytesAt(w, j)

\* A round of load_binary(): the next segment of the root process, in an object of its own.
LEMMA LoadsNext ==
  ASSUME NEW kk, Kernel(kk), NEW i \in 1..NR, NEW w, LoadedTo(kk, w, i - 1)
  PROVE  LoadedTo(kk, LoadRound(w, RootCode, RootPh[i]), i)
<1> DEFINE ph == RootPh[i]
           bytes == FileBytes(RootCode, ph)
           at == ROUND_DOWN(ph.p_vaddr)
           off == ph.p_vaddr - at
           n == MapSize(ph)
           perm == PFLAGS2VMRFLAGS(ph.p_flags)
           made == CreatePmo(w, 0, n)[1]
           pmo == Len(made.pmos)
           full == WriteObject(made, pmo, off, bytes)
           x == MapRange(full, 0, at, perm, pmo)
           r == SegmentAt(ph, i + 1)
<1>1. /\ NR \in Nat /\ i \in Nat /\ ph \in PageHeader
      /\ Len(bytes) \in Nat /\ DOMAIN bytes = 1..Len(bytes) /\ Len(bytes) <= ph.p_memsz
  <2>1. i \in 1..Len(RootPh)
    BY DEF NR
  <2> QED
    BY <2>1, RootParts DEF Parts, RootPh
<1>2. /\ at \in Nat /\ off \in Nat /\ n \in Nat \ {0} /\ ROUND_UP(n) = n /\ perm \in Nat
      /\ off + ph.p_memsz <= n /\ ph.p_memsz \in Nat
  <2>1. /\ at \in Nat /\ ph.p_vaddr \in Nat /\ at <= ph.p_vaddr /\ n \in Nat \ {0} /\ ROUND_UP(n) = n
        /\ perm \in Nat /\ ph.p_vaddr - at + ph.p_memsz <= n /\ ph.p_memsz \in Nat
    <3> HIDE DEF ph
    <3> QED
      BY <1>1, SegmentPages
  <2> HIDE DEF at, n, perm, ph
  <2> QED
    BY <2>1
<1>3. LoadRound(w, RootCode, ph) = IF Clashes(full, 0, at, n) THEN [full EXCEPT !.halted = TRUE] ELSE x
  BY Zenon DEF LoadRound
<1> HIDE DEF ph, bytes, at, off, n, perm
<1>4. /\ Kernel(w) /\ ~w.halted /\ Kept(kk, w) /\ w.main = kk.main /\ w.next = kk.next
      /\ Len(w.pmos) = i - 1 + 1 /\ w.pmos[1] = kk.pmos[1]
      /\ w.maps[0] = {Region(StackBase, StackSize, VMR_RW, 1)}
                       \cup {SegmentAt(RootPh[j], j + 1) : j \in 1..(i - 1)}
      /\ \A q \in Procs : q # 0 => w.maps[q] = kk.maps[q] /\ w.caps[q] = kk.caps[q]
      /\ \A j \in 1..(i - 1) : BytesAt(w, j)
  BY DEF LoadedTo
<1>5. 0 \in Procs /\ Len(w.pmos) = i
  BY <1>1, <1>4, ProcsAre
<1>6. OneMore(w, made, n) /\ \A q \in Procs : q # 0 => made.caps[q] = w.caps[q]
  BY <1>2, <1>4, <1>5, Created
<1> HIDE DEF made
<1>7. /\ Kernel(made) /\ Kept(w, made) /\ made.maps = w.maps /\ made.main = w.main /\ made.next = w.next
      /\ made.halted = w.halted /\ pmo = i + 1 /\ (\A j \in 1..i : made.pmos[j] = w.pmos[j])
      /\ Len(made.pmos[pmo]) = n
  BY <1>5, <1>6 DEF OneMore
<1>8. pmo \in 1..Len(made.pmos)
  BY <1>1, <1>7
<1> HIDE DEF pmo
<1>9. /\ OnlyCells(made, full, pmo)
      /\ \A c \in 1..n : full.pmos[pmo][c] = IF c - off \in DOMAIN bytes THEN bytes[c - off]
                                             ELSE made.pmos[pmo][c]
  <2> DEFINE Then(offset, cells) ==
        LET y == WriteObject(made, pmo, offset, cells)
        IN  /\ OnlyCells(made, y, pmo)
            /\ \A c \in 1..Len(made.pmos[pmo]) :
                  y.pmos[pmo][c] = IF c - offset \in DOMAIN cells THEN cells[c - offset]
                                   ELSE made.pmos[pmo][c]
  <2>1. Kernel(made) /\ pmo \in 1..Len(made.pmos)
    BY <1>7, <1>8
  <2>2. \A offset, cells : Then(offset, cells)
    BY <2>1, Written
  <2>3. Then(off, bytes)
    BY <2>2, Zenon
  <2> QED
    BY <1>7, <2>3
<1> HIDE DEF full
<1>10. /\ Kernel(full) /\ full.caps = made.caps /\ full.maps = w.maps /\ full.main = w.main
       /\ full.next = w.next /\ full.halted = w.halted
       /\ Len(full.pmos) = i + 1 /\ Len(full.pmos[pmo]) = n
       /\ \A j \in 1..i : full.pmos[j] = w.pmos[j]
  <2>1. \A j \in 1..i : j \in 1..(i + 1) /\ j # i + 1
    BY <1>1
  <2> QED
    BY <1>7, <1>9, <2>1 DEF OnlyCells, pmo
<1>11. r = Region(at, n, perm, pmo) /\ r.start = at /\ r.size = n
  BY <1>7 DEF SegmentAt, Region, at, n, perm
<1>12. ~Clashes(full, 0, at, n)
  <2>1. r \in RootRegions("main") /\ full.maps[0] \subseteq RootRegions("main")
    <3>1. {SegmentAt(RootPh[j], j + 1) : j \in 1..(i - 1)} \subseteq RootImage
      <4>1. \A j \in 1..(i - 1) : j \in 1..NR
        BY <1>1
      <4> QED
        BY <4>1 DEF RootImage
    <3>2. r \in RootImage
      BY DEF RootImage, ph
    <3> QED
      BY <1>4, <1>10, <3>1, <3>2 DEF RootRegions
  <2>2. r \notin full.maps[0]
    <3>1. r.pmo = i + 1
      BY DEF SegmentAt, Region
    <3>2. \A j \in 1..(i - 1) : SegmentAt(RootPh[j], j + 1).pmo = j + 1 /\ j + 1 # i + 1
      BY <1>1 DEF SegmentAt, Region
    <3>3. Region(StackBase, StackSize, VMR_RW, 1).pmo = 1 /\ 1 # i + 1
      BY <1>1 DEF Region
    <3> HIDE DEF r
    <3>4. \A s \in full.maps[0] : s.pmo # i + 1
      BY <1>4, <1>10, <3>2, <3>3
    <3> QED
      BY <3>1, <3>4
  <2> HIDE DEF r
  <2> QED
    BY <1>10, <1>11, <2>1, <2>2, RootRoom
<1>13. LoadRound(w, RootCode, ph) = x
  BY <1>3, <1>12
<1>14. /\ OnlyMaps(full, x) /\ x.maps[0] = full.maps[0] \cup {r}
       /\ \A q \in Procs : q # 0 => x.maps[q] = full.maps[q]
  <2>1. pmo \in 1..Len(full.pmos)
    BY <1>1, <1>7, <1>10
  <2> HIDE DEF x, r
  <2>2. /\ OnlyMaps(full, x) /\ x.maps[0] = full.maps[0] \cup {Region(at, Len(full.pmos[pmo]), perm, pmo)}
        /\ \A q \in Procs : q # 0 => x.maps[q] = full.maps[q]
    BY <1>2, <1>5, <1>10, <2>1, Mapped DEF x
  <2> QED
    BY <1>10, <1>11, <2>2
<1> HIDE DEF x, r
<1>15. /\ Kernel(x) /\ x.pmos = full.pmos /\ x.caps = made.caps /\ x.main = kk.main /\ x.next = kk.next
       /\ ~x.halted
  BY <1>4, <1>7, <1>10, <1>14 DEF OnlyMaps
<1>16. Kept(kk, x)
  <2>1. Kept(w, x)
    BY <1>7, <1>15 DEF Kept
  <2> QED
    BY <1>4, <1>15, <2>1, KeptTwice
<1>17. x.maps[0] = {Region(StackBase, StackSize, VMR_RW, 1)} \cup {SegmentAt(RootPh[j], j + 1) : j \in 1..i}
  <2> DEFINE S(j) == SegmentAt(RootPh[j], j + 1)
  <2>1. \A j \in 1..i : j \in 1..(i - 1) \/ j = i
    BY <1>1
  <2>2. \A j \in 1..(i - 1) : j \in 1..i
    BY <1>1
  <2>3. r = S(i) /\ i \in 1..i
    BY <1>1 DEF r, ph
  <2> HIDE DEF S
  <2>4. {S(j) : j \in 1..i} = {S(j) : j \in 1..(i - 1)} \cup {r}
    BY <2>1, <2>2, <2>3
  <2>5. x.maps[0] = {Region(StackBase, StackSize, VMR_RW, 1)} \cup {S(j) : j \in 1..(i - 1)} \cup {r}
    BY <1>4, <1>10, <1>14 DEF S
  <2>6. x.maps[0] = {Region(StackBase, StackSize, VMR_RW, 1)} \cup {S(j) : j \in 1..i}
    BY <2>4, <2>5
  <2> QED
    BY <2>6 DEF S
<1>18. \A q \in Procs : q # 0 => x.maps[q] = kk.maps[q] /\ x.caps[q] = kk.caps[q]
  BY <1>4, <1>6, <1>10, <1>14, <1>15
<1>19. \A j \in 1..i : BytesAt(x, j)
  <2> SUFFICES ASSUME NEW j \in 1..i PROVE BytesAt(x, j)
    OBVIOUS
  <2>1. CASE j # i
    <3>1. j \in 1..(i - 1) /\ j + 1 \in 1..i
      BY <1>1, <2>1
    <3>2. x.pmos[j + 1] = w.pmos[j + 1] /\ BytesAt(w, j)
      BY <1>4, <1>10, <1>15, <3>1
    <3> QED
      BY <3>2 DEF BytesAt
  <2>2. CASE j = i
    <3>1. ASSUME NEW c \in DOMAIN bytes PROVE full.pmos[pmo][off + c] = bytes[c]
      <4> DEFINE d == off + c
      <4>1. c \in Nat /\ 1 <= c /\ c <= Len(bytes)
        BY <1>1, <3>1
      <4>2. d \in 1..n /\ d - off = c
        BY <1>1, <1>2, <4>1
      <4> HIDE DEF d
      <4>3. full.pmos[pmo][d] = bytes[c]
        BY <1>9, <3>1, <4>2
      <4> QED
        BY <4>3 DEF d
    <3>2. \A c \in DOMAIN bytes : x.pmos[i + 1][off + c] = bytes[c]
      BY <1>7, <1>15, <3>1
    <3>3. BytesAt(x, i)
      BY <3>2 DEF BytesAt, off, at, bytes, ph
    <3> QED
      BY <2>2, <3>3
  <2> QED
    BY <2>1, <2>2
<1>20. Len(x.pmos) = i + 1 /\ x.pmos[1] = kk.pmos[1]
  <2>1. 1 \in 1..i
    BY <1>1
  <2> QED
    BY <1>4, <1>10, <1>15, <2>1
<1>21. LoadedTo(kk, x, i)
  BY <1>15, <1>16, <1>17, <1>18, <1>19, <1>20 DEF LoadedTo
<1> QED
  BY <1>13, <1>21 DEF ph

\* load_binary() leaves every segment of the root process in place, and never stops the kernel.
LEMMA LoadsRoot ==
  ASSUME NEW kk, LoadedTo(kk, kk, 0)
  PROVE  LoadedTo(kk, load_binary(kk, RootCode, RootElf), NR)
<1>1. NR \in Nat /\ NR = Len(Loadable(RootElf)) /\ RootPh = Loadable(RootElf) /\ Kernel(kk)
  BY Numbers DEF NR, RootPh, LoadedTo
<1>2. PICK f : /\ load_binary(kk, RootCode, RootElf) = f[NR] /\ f[0] = kk
               /\ \A i \in 1..NR : f[i] = LoadRound(f[i - 1], RootCode, RootPh[i])
  <2>1. Len(Loadable(RootElf)) \in Nat
    BY <1>1
  <2>2. \E f : /\ load_binary(kk, RootCode, RootElf) = f[Len(Loadable(RootElf))] /\ f[0] = kk
               /\ \A i \in 1..Len(Loadable(RootElf)) :
                      f[i] = LoadRound(f[i - 1], RootCode, Loadable(RootElf)[i])
    BY <2>1, LoadRounds
  <2> QED
    BY <1>1, <2>2
<1> DEFINE Good == {i \in 0..NR : LoadedTo(kk, f[i], i)}
<1>3. 0 \in Good
  BY <1>1, <1>2
<1>4. ASSUME NEW i \in 1..NR, i - 1 \in Good PROVE i \in Good
  <2>1. LoadedTo(kk, f[i - 1], i - 1) /\ i \in 0..NR
    BY <1>4
  <2>2. LoadedTo(kk, LoadRound(f[i - 1], RootCode, RootPh[i]), i)
    BY <1>1, <2>1, LoadsNext
  <2>3. LoadedTo(kk, f[i], i)
    BY <1>2, <2>2
  <2> QED
    BY <2>1, <2>3
<1>5. 0..NR \subseteq Good
  <2> HIDE DEF Good
  <2> QED
    BY <1>1, <1>3, <1>4, UpTo
<1>6. LoadedTo(kk, f[NR], NR)
  BY <1>1, <1>5
<1> QED
  BY <1>2, <1>6

\* The root process gets its image, its stack and its thread.
LEMMA CreateRootKeeps ==
  ASSUME Inv, CreateRoot
  PROVE  Inv'
<1> DEFINE k0 == NewProcess(k, 0)
           made == CreatePmo(k0, 0, StackSize)[1]
           pmo == Len(made.pmos)
           kk == MapRange(made, 0, StackBase, VMR_RW, pmo)
           loaded == load_binary(kk, RootCode, RootElf)
           env == prepare_env(StackTop, Meta(RootElf), RootPath)
           off == StackSize - PageSize
           ready == WriteObject(loaded, pmo, off, env)
           main == [sp |-> StackTop - PageSize, pc |-> RootElf.header.e_entry]
           w == [ready EXCEPT !.main[0] = main]
           stack == Region(StackBase, StackSize, VMR_RW, 1)
<1>1. /\ app[0] = "none" /\ job' = job
      /\ k' = thread_create_main(NewProcess(k, 0), RootCode, RootElf)
      /\ app' = [app EXCEPT ![0] = IF k'.halted THEN "halted" ELSE "main"]
      /\ launched' = [launched EXCEPT ![0] = [path |-> RootPath, info |-> FALSE]]
  BY DEF CreateRoot, RootCode, RootElf
<1>2. k' = WithCap(w, 0, "thread", 0)[1]
  BY <1>1, Zenon DEF thread_create_main
<1>3. /\ Kernel(k) /\ Typed /\ 0 \in Procs /\ k.next = 0 /\ k.pmos = <<>> /\ ~k.halted
      /\ job.step = "idle"
      /\ \A p \in Procs : /\ k.caps[p] = <<>> /\ k.maps[p] = {} /\ k.main[p] = Nobody
                          /\ app[p] = "none" /\ launched[p] = Nobody
  <2>1. Kernel(k) /\ Typed /\ Unmade /\ k.next = 0 /\ k.pmos = <<>> /\ ~k.halted
    BY <1>1 DEF Inv, Typed, RootOk
  <2>2. job.step = "idle"
    BY <1>1, <2>1 DEF Typed
  <2>3. \A p \in Procs : p >= k.next
    BY <2>1, ProcsAre
  <2> QED
    BY <2>1, <2>2, <2>3, ProcsAre DEF Unmade
<1>4. /\ MadeProcess(k, k0, 0) /\ \A q \in Procs : q # 0 => k0.caps[q] = k.caps[q]
  BY <1>3, MakesProcess
<1> HIDE DEF k0
<1>5. /\ Kernel(k0) /\ k0.pmos = <<>> /\ k0.maps = k.maps /\ k0.main = k.main /\ ~k0.halted
      /\ k0.next = 1 /\ Names(k0, 0, 0, "process", 0)
  BY <1>3, <1>4 DEF MadeProcess
<1>6. /\ StackSize \in Nat \ {0} /\ PageSize \in Nat \ {0} /\ StackBase \in Nat /\ VMR_RW \in Nat
      /\ ROUND_UP(StackSize) = StackSize /\ 2 * PageSize <= StackSize
      /\ off \in Nat /\ off + PageSize = StackSize
  BY Sizes, PageAreas
<1>7. OneMore(k0, made, StackSize) /\ \A q \in Procs : q # 0 => made.caps[q] = k0.caps[q]
  BY <1>3, <1>5, <1>6, Created
<1> HIDE DEF made
<1>8. /\ Kernel(made) /\ Kept(k0, made) /\ made.maps = k.maps /\ made.main = k.main /\ made.next = 1
      /\ ~made.halted /\ pmo = 1 /\ Len(made.pmos[1]) = StackSize
  <2>1. Len(k0.pmos) = 0
    BY <1>5
  <2> QED
    BY <1>5, <1>7, <2>1 DEF OneMore
<1>9. pmo \in 1..Len(made.pmos)
  BY <1>8
<1> HIDE DEF pmo
<1>10. /\ OnlyMaps(made, kk) /\ kk.maps[0] = made.maps[0] \cup {stack}
       /\ \A q \in Procs : q # 0 => kk.maps[q] = made.maps[q]
  <2> HIDE DEF kk
  <2>1. /\ OnlyMaps(made, kk)
        /\ kk.maps[0] = made.maps[0] \cup {Region(StackBase, Len(made.pmos[pmo]), VMR_RW, pmo)}
        /\ \A q \in Procs : q # 0 => kk.maps[q] = made.maps[q]
    BY <1>3, <1>6, <1>8, <1>9, Mapped DEF kk
  <2> QED
    BY <1>8, <2>1
<1> HIDE DEF kk
<1>11. /\ Kernel(kk) /\ kk.pmos = made.pmos /\ kk.caps = made.caps /\ kk.main = k.main /\ kk.next = 1
       /\ ~kk.halted /\ kk.maps[0] = {stack}
  BY <1>3, <1>8, <1>10 DEF OnlyMaps
<1>12. LoadedTo(kk, loaded, NR)
  <2>1. LoadedTo(kk, kk, 0)
    <3>1. Kept(kk, kk) /\ Len(kk.pmos) = 0 + 1
      BY <1>8, <1>11, KeptSame DEF pmo
    <3>2. {SegmentAt(RootPh[j], j + 1) : j \in 1..0} = {} /\ \A j \in 1..0 : BytesAt(kk, j)
      OBVIOUS
    <3> QED
      BY <1>11, <3>1, <3>2 DEF LoadedTo
  <2> QED
    BY <2>1, LoadsRoot
<1> HIDE DEF loaded
<1>13. /\ Kernel(loaded) /\ ~loaded.halted /\ Kept(kk, loaded) /\ loaded.main = k.main /\ loaded.next = 1
       /\ NR \in Nat /\ Len(loaded.pmos) = NR + 1 /\ Len(loaded.pmos[1]) = StackSize
       /\ loaded.maps[0] = RootRegions("main")
       /\ \A q \in Procs : q # 0 => loaded.maps[q] = k.maps[q] /\ loaded.caps[q] = k.caps[q]
       /\ \A j \in 1..NR : BytesAt(loaded, j)
  <2>1. loaded.maps[0] = RootRegions("main")
    BY <1>12 DEF LoadedTo, RootRegions, RootImage
  <2> QED
    BY <1>4, <1>7, <1>8, <1>10, <1>11, <1>12, <2>1, Numbers DEF LoadedTo
<1>14. DOMAIN env = 1..PageSize
  BY DEF prepare_env, EnvPage
<1> HIDE DEF env, off
<1>15. /\ OnlyCells(loaded, ready, 1)
       /\ \A c \in 1..StackSize : ready.pmos[1][c] = IF c - off \in DOMAIN env THEN env[c - off]
                                                     ELSE loaded.pmos[1][c]
  <2> DEFINE Then(offset, cells) ==
        LET y == WriteObject(loaded, 1, offset, cells)
        IN  /\ OnlyCells(loaded, y, 1)
            /\ \A c \in 1..Len(loaded.pmos[1]) :
                  y.pmos[1][c] = IF c - offset \in DOMAIN cells THEN cells[c - offset]
                                 ELSE loaded.pmos[1][c]
  <2>1. Kernel(loaded) /\ 1 \in 1..Len(loaded.pmos)
    BY <1>13
  <2>2. \A offset, cells : Then(offset, cells)
    BY <2>1, Written
  <2>3. Then(off, env)
    BY <2>2, Zenon
  <2>4. ready = WriteObject(loaded, 1, off, env)
    BY <1>8
  <2> HIDE DEF ready
  <2> QED
    BY <1>13, <2>3, <2>4
<1> HIDE DEF ready
<1>16. /\ Kernel(ready) /\ ready.caps = loaded.caps /\ ready.maps = loaded.maps /\ ready.main = k.main
       /\ ready.next = 1 /\ ~ready.halted /\ Len(ready.pmos) = NR + 1
       /\ Len(ready.pmos[1]) = StackSize
       /\ \A i \in 1..(NR + 1) : i # 1 => ready.pmos[i] = loaded.pmos[i]
  BY <1>13, <1>15 DEF OnlyCells
<1> HIDE DEF main
<1>17. StartedThread(ready, w, 0, main) /\ w.caps = ready.caps
  BY <1>3, <1>16, SetsMain
<1> HIDE DEF w
<1>18. /\ Kernel(w) /\ w.pmos = ready.pmos /\ w.maps = loaded.maps /\ w.next = 1 /\ ~w.halted
       /\ w.main = [k.main EXCEPT ![0] = main]
  BY <1>16, <1>17 DEF StartedThread
<1>19. OnlyCaps(w, k') /\ \A q \in Procs : q # 0 => k'.caps[q] = w.caps[q]
  <2>1. "thread" \in CapTypes /\ 0 \in Nat
    BY DEF CapTypes
  <2> QED
    BY <1>2, <1>3, <1>18, <2>1, Allocated
<1>20. /\ Kernel(k') /\ k'.pmos = ready.pmos /\ k'.maps = loaded.maps /\ k'.next = 1 /\ ~k'.halted
       /\ k'.main = [k.main EXCEPT ![0] = main] /\ Kept(w, k')
  BY <1>18, <1>19 DEF OnlyCaps
<1>21. k'.main[0] = main /\ \A q \in Procs : q # 0 => k'.main[q] = k.main[q]
  BY <1>3, <1>20 DEF Kernel
<1>22. EnvAt(k', 1, env)
  <2>1. ASSUME NEW i \in 1..PageSize PROVE k'.pmos[1][StackSize - PageSize + i] = env[i]
    <3> DEFINE j == off + i
    <3>1. j \in 1..StackSize /\ j - off = i
      BY <1>6
    <3>2. j = StackSize - PageSize + i
      BY DEF off
    <3> HIDE DEF j
    <3>3. ready.pmos[1][j] = env[i]
      BY <1>14, <1>15, <3>1
    <3> QED
      BY <1>20, <3>2, <3>3
  <2> QED
    BY <1>16, <1>20, <2>1 DEF EnvAt
<1>23. RootLoaded(k')
  <2>1. \A i \in 1..NR : i + 1 \in 1..(NR + 1) /\ i + 1 # 1
    BY <1>13
  <2>2. \A i \in 1..NR : k'.pmos[i + 1] = loaded.pmos[i + 1]
    BY <1>16, <1>20, <2>1
  <2> QED
    BY <1>13, <2>2 DEF RootLoaded, BytesAt
<1>24. RootAt(k', "main")
  <2>1. k'.maps[0] = RootRegions("main") /\ k'.next >= 1 /\ Len(k'.pmos) = NR + 1
    BY <1>13, <1>16, <1>20
  <2> QED
    BY <1>21, <1>22, <1>23, <2>1 DEF RootAt, main, env
<1>25. app'[0] = "main" /\ \A q \in Procs : q # 0 => app'[q] = app[q]
  BY <1>1, <1>3, <1>20 DEF Typed
<1>26. launched'[0] = [path |-> RootPath, info |-> FALSE] /\ \A q \in Procs : q # 0 => launched'[q] = launched[q]
  BY <1>1, <1>3 DEF Typed
<1>27. RootOk'
  BY <1>20, <1>24, <1>25, <1>26 DEF RootOk
<1>28. 0 \notin Children /\ Children \subseteq Procs
  BY ProcsAre DEF Children
<1>29. Typed'
  <2>1. app' = [p \in Procs |-> app'[p]] /\ launched' = [p \in Procs |-> launched'[p]]
    BY <1>1, <1>3 DEF Typed
  <2>2. \A p \in Children : app'[p] \in ChildSteps /\ launched'[p] \in Requests \cup {Nobody}
    BY <1>3, <1>25, <1>26, <1>28 DEF ChildSteps
  <2> QED
    BY <1>1, <1>3, <1>20, <1>25, <2>1, <2>2 DEF Typed, RootSteps
<1>30. Names(k', 0, 0, "process", 0)
  <2>1. Names(made, 0, 0, "process", 0)
    BY <1>3, <1>5, <1>8, NamesKept
  <2>2. Names(kk, 0, 0, "process", 0)
    BY <1>11, <2>1 DEF Names
  <2>3. Names(loaded, 0, 0, "process", 0)
    BY <1>3, <1>11, <1>13, <2>2, NamesKept
  <2>4. Names(w, 0, 0, "process", 0)
    BY <1>16, <1>17, <2>3 DEF Names
  <2> QED
    BY <1>3, <1>18, <1>20, <2>4, NamesKept
<1>31. \A p \in Children : /\ k'.caps[p] = <<>> /\ k'.maps[p] = {} /\ k'.main[p] = Nobody
                           /\ app'[p] = "none" /\ launched'[p] = Nobody
  <2> TAKE p \in Children
  <2>1. p \in Procs /\ p # 0
    BY <1>28
  <2>2. k'.caps[p] = k.caps[p] /\ k'.maps[p] = k.maps[p]
    BY <1>13, <1>16, <1>17, <1>19, <1>20, <2>1
  <2> QED
    BY <1>3, <1>21, <1>25, <1>26, <2>1, <2>2
<1> QED
  BY <1>1, <1>3, <1>20, <1>25, <1>27, <1>29, <1>30, <1>31, Alone

-----------------------------------------------------------------------------
(* The invariant holds                                                       *)

\* Before the kernel makes the root process nothing is there.
LEMMA InitKeeps ==
  ASSUME Init
  PROVE  Inv
<1>1. /\ k = [pmos |-> <<>>, caps |-> [p \in Procs |-> <<>>], maps |-> [p \in Procs |-> {}],
              main |-> [p \in Procs |-> Nobody], next |-> 0, halted |-> FALSE]
      /\ job = [step |-> "idle", req |-> Nobody, elf |-> Nobody, segs |-> <<>>, mapped |-> 0,
                child |-> -1, stack |-> -1, copies |-> <<>>, info |-> -1]
      /\ app = [p \in Procs |-> "none"] /\ launched = [p \in Procs |-> Nobody]
  BY DEF Init
<1>2. 0 \in Procs /\ Procs \subseteq Nat /\ Children \subseteq Procs /\ MaxSpawns \in Nat
  BY ProcsAre, RequestsAssumption DEF Children
<1>3. /\ k.pmos = <<>> /\ k.next = 0 /\ ~k.halted
      /\ \A p \in Procs : k.caps[p] = <<>> /\ k.maps[p] = {} /\ k.main[p] = Nobody
      /\ \A p \in Procs : app[p] = "none" /\ launched[p] = Nobody
      /\ job.step = "idle"
  BY <1>1
<1>4. Kernel(k)
  <2>1. IsSeq(<<>>) /\ Len(<<>>) = 0
    BY Tuples
  <2>2. IsSeq(k.pmos) /\ \A i \in 1..Len(k.pmos) : IsSeq(k.pmos[i])
    BY <1>3, <2>1
  <2>3. <<>> \in Seq(Cap) /\ {} \in SUBSET Regions
    OBVIOUS
  <2>4. k.caps \in [Procs -> Seq(Cap)] /\ k.maps \in [Procs -> SUBSET Regions]
    BY <1>1, <2>3
  <2>5. k.main = [p \in Procs |-> k.main[p]]
    BY <1>1
  <2>6. k = [pmos |-> k.pmos, caps |-> k.caps, maps |-> k.maps, main |-> k.main,
             next |-> k.next, halted |-> k.halted]
    BY <1>1
  <2> QED
    BY <1>2, <1>3, <2>2, <2>4, <2>5, <2>6 DEF Kernel
<1>5. Typed
  <2>1. app = [p \in Procs |-> app[p]] /\ launched = [p \in Procs |-> launched[p]]
    BY <1>1
  <2>2. job = [step |-> job.step, req |-> job.req, elf |-> job.elf, segs |-> job.segs,
               mapped |-> job.mapped, child |-> job.child, stack |-> job.stack,
               copies |-> job.copies, info |-> job.info]
    BY <1>1
  <2>3. app[0] \in RootSteps /\ job.step \in JobSteps /\ (app[0] # "launches" => job.step = "idle")
    BY <1>2, <1>3 DEF RootSteps, JobSteps
  <2>4. \A p \in Children : app[p] \in ChildSteps /\ launched[p] \in Requests \cup {Nobody}
    BY <1>2, <1>3 DEF ChildSteps
  <2> QED
    BY <1>4, <2>1, <2>2, <2>3, <2>4 DEF Typed
<1>6. Unmade
  <2>1. \A p \in Procs : ~(p < k.next)
    BY <1>2, <1>3
  <2> QED
    BY <1>3, <2>1 DEF Unmade
<1>7. RootOk
  BY <1>2, <1>3 DEF RootOk
<1>8. ChildrenOk
  BY <1>2, <1>3 DEF ChildrenOk, ChildGood
<1>9. InfoOk
  BY <1>2, <1>3 DEF InfoOk, Informed
<1>10. JobOk
  BY <1>3 DEF JobOk, Beginning, Loading, Making, Stacked, Sent, Environed, Room
<1> QED
  BY <1>5, <1>6, <1>7, <1>8, <1>9, <1>10 DEF Inv

\* Nothing of the invariant is about a step.
LEMMA StutterKeeps ==
  ASSUME Inv, UNCHANGED vars
  PROVE  Inv'
<1>1. k' = k /\ job' = job /\ app' = app /\ launched' = launched
  BY DEF vars
<1>2. Base' = Base /\ Newest' = Newest
  BY <1>1 DEF Base, Newest
<1>3. Top' = Top
  BY <1>1, <1>2 DEF Top
<1>4. Typed'
  BY <1>1 DEF Inv, Typed
<1>5. Unmade'
  BY <1>1 DEF Inv, Unmade
<1>6. RootOk'
  BY <1>1 DEF Inv, RootOk
<1>7. ChildrenOk'
  BY <1>1, <1>3 DEF Inv, ChildrenOk
<1>8. InfoOk'
  <2>1. Changed' = Changed /\ \A p \in Children : (Informed(p))' = Informed(p)
    BY <1>1 DEF Changed, Informed
  <2> QED
    BY <1>1, <2>1 DEF Inv, InfoOk
<1>9. JobOk'
  <2>1. Beginning' /\ Room'
    BY <1>1 DEF Inv, JobOk, Beginning, Room
  <2>2. Loading'
    BY <1>1, <1>2 DEF Inv, JobOk, Loading, Segments
  <2>3. Making'
    BY <1>1, <1>2 DEF Inv, JobOk, Making
  <2>4. Stacked' /\ Sent' /\ Environed'
    BY <1>1, <1>2 DEF Inv, JobOk, Stacked, Sent, Environed
  <2> QED
    BY <2>1, <2>2, <2>3, <2>4 DEF JobOk
<1> QED
  BY <1>4, <1>5, <1>6, <1>7, <1>8, <1>9 DEF Inv

\* Every step of the root process, and of every child, keeps the invariant.
LEMMA NextKeeps ==
  ASSUME Inv, Next
  PROVE  Inv'
<1>1. CASE Root
  <2>1. CASE CreateRoot
    BY <2>1, CreateRootKeeps
  <2>2. CASE LoadCpio
    BY <2>2, LoadCpioKeeps
  <2>3. CASE PrepareInfo
    BY <2>3, PrepareInfoKeeps
  <2>4. ASSUME NEW req \in Requests, Spawn(req) PROVE Inv'
    BY <2>4, SpawnKeeps
  <2>5. CASE ReadElf
    BY <2>5, ReadElfKeeps
  <2>6. CASE LoadSegment
    BY <2>6, LoadSegmentKeeps
  <2>7. CASE NewProcessCap
    BY <2>7, NewProcessCapKeeps
  <2>8. CASE MapSegment
    BY <2>8, MapSegmentKeeps
  <2>9. CASE CreateStack
    BY <2>9, CreateStackKeeps
  <2>10. CASE TransferToChild
    BY <2>10, TransferToChildKeeps
  <2>11. CASE MapShared
    BY <2>11, MapSharedKeeps
  <2>12. CASE WriteEnv
    BY <2>12, WriteEnvKeeps
  <2>13. CASE MapStack
    BY <2>13, MapStackKeeps
  <2>14. CASE StartChild
    BY <2>14, StartChildKeeps
  <2>15. CASE Finish
    BY <2>15, FinishKeeps
  <2> QED
    BY <1>1, <2>1, <2>2, <2>3, <2>4, <2>5, <2>6, <2>7, <2>8, <2>9, <2>10, <2>11, <2>12, <2>13,
       <2>14, <2>15 DEF Root, Launch
<1>2. ASSUME NEW p \in Children, Child(p) PROVE Inv'
  <2>1. CASE ReadInfo(p)
    BY <2>1, ReadInfoKeeps
  <2>2. CASE MapAgain(p)
    BY <2>2, MapAgainKeeps
  <2>3. CASE BecomeReady(p)
    BY <2>3, BecomeReadyKeeps
  <2>4. CASE WaitForExit(p)
    BY <2>4, WaitForExitKeeps
  <2> QED
    BY <1>2, <2>1, <2>2, <2>3, <2>4 DEF Child
<1> QED
  BY <1>1, <1>2 DEF Next

\* The inductive invariant: what every object, region, capability and process made so far
\* holds, and how far the launch in hand has come with the next ones.
THEOREM LaunchInvariant == Spec => []Inv
<1>1. Init => Inv
  BY InitKeeps
<1>2. Inv /\ [Next]_vars => Inv'
  BY NextKeeps, StutterKeeps
<1> QED
  BY <1>1, <1>2, PTL DEF Spec

-----------------------------------------------------------------------------
(* What a launch promises                                                    *)

\* Who runs: the root process once it is made, and a child that StartChild has started.
LEMMA RunsIs ==
  ASSUME Inv, NEW p \in Procs, Runs(p)
  PROVE  /\ p = 0 => /\ RootAt(k, app[0]) /\ Separate(k.maps[0])
                     /\ launched[0] = [path |-> RootPath, info |-> FALSE]
         /\ p # 0 => p \in Children /\ app[p] # "none"
<1>1. CASE p = 0
  <2>1. app[0] # "none"
    <3> SUFFICES ASSUME app[0] = "none" PROVE FALSE
      OBVIOUS
    <3>1. k.next = 0
      BY DEF Inv, RootOk
    <3>2. k.main[0] = Nobody
      BY <1>1, <3>1 DEF Inv, Unmade
    <3> QED
      BY <1>1, <3>2 DEF Runs
  <2>2. RootAt(k, app[0]) /\ launched[0] = [path |-> RootPath, info |-> FALSE]
    BY <2>1 DEF Inv, RootOk
  <2>3. Separate(k.maps[0])
    BY <2>2, RootSeparate DEF RootAt
  <2> QED
    BY <1>1, <2>2, <2>3
<1>2. CASE p # 0
  <2>1. p \in Children
    BY <1>2 DEF Children
  <2>2. ChildGood(k, p, app[p], launched[p], Top)
    BY <2>1 DEF Inv, ChildrenOk
  <2> QED
    BY <1>2, <2>1, <2>2 DEF ChildGood, Runs
<1> QED
  BY <1>1, <1>2

\* A child that runs has all that the launch made for it.
LEMMA ChildRuns ==
  ASSUME Inv, NEW p \in Children, app[p] # "none"
  PROVE  \E b \in Nat, cap \in Nat : ChildAt(k, p, launched[p], b, cap, app[p] = "reads")
<1>1. Kernel(k) /\ p \in Procs /\ ChildGood(k, p, app[p], launched[p], Top)
  BY ChildIs
<1>2. Len(k.pmos) \in Nat /\ Len(k.caps[p]) \in Nat
  BY <1>1, KernelIs
<1>3. PICK b \in 0..Len(k.pmos), cap \in 0..Len(k.caps[p]) :
         ChildAt(k, p, launched[p], b, cap, app[p] = "reads")
  BY <1>1 DEF ChildGood
<1>4. b \in Nat /\ cap \in Nat
  BY <1>2
<1> QED
  BY <1>3, <1>4

\* Where a byte of a segment is, and how it may be used.
LEMMA SegmentByte ==
  ASSUME NEW p, Separate(k.maps[p]), NEW ph \in PageHeader, NEW pmo,
         SegmentAt(ph, pmo) \in k.maps[p], NEW i \in 1..ph.p_memsz
  PROVE  LET off == ph.p_vaddr - ROUND_DOWN(ph.p_vaddr)
         IN  /\ PermAt(p, ph.p_vaddr + i - 1) = {PFLAGS2VMRFLAGS(ph.p_flags)}
             /\ Load(k, p, ph.p_vaddr + i - 1) = k.pmos[pmo][off + i]
             /\ off + i \in 1..MapSize(ph) /\ (off + i) - off = i
             /\ ph.p_vaddr % PageSize = off
<1> DEFINE at == ROUND_DOWN(ph.p_vaddr)
           v == ph.p_vaddr
           n == MapSize(ph)
           m == ph.p_memsz
           perm == PFLAGS2VMRFLAGS(ph.p_flags)
           off == v - at
           addr == v + i - 1
           r == SegmentAt(ph, pmo)
<1>1. /\ at \in Nat /\ v \in Nat /\ m \in Nat /\ at <= v /\ n \in Nat /\ v - at + m <= n
      /\ v % PageSize = v - at
  BY SegmentPages
<1>2. r.start = at /\ r.size = n /\ r.perm = perm /\ r.pmo = pmo
  BY DEF SegmentAt, Region
<1>3. r \in k.maps[p] /\ i \in 1..m
  OBVIOUS
<1> HIDE DEF at, v, n, m, perm, r
<1>4. /\ addr \in Int /\ at <= addr /\ addr < at + n /\ (addr - at) + 1 = off + i
      /\ off + i \in 1..n /\ (off + i) - off = i
  BY <1>1, <1>3
<1>5. CellAt(k, p, addr, r.pmo, addr - r.start, r.perm)
  <2> HIDE DEF addr
  <2>1. r.start <= addr /\ addr < r.start + r.size
    BY <1>2, <1>4
  <2> QED
    BY <1>3, <1>4, <2>1, InRegion
<1>6. Load(k, p, addr) = k.pmos[pmo][(addr - at) + 1] /\ PermAtIn(k, p, addr) = {perm}
  BY <1>2, <1>5 DEF CellAt
<1>7. PermAt(p, addr) = {perm}
  BY <1>6, Zenon DEF PermAt, PermAtIn
<1>8. Load(k, p, addr) = k.pmos[pmo][off + i]
  BY <1>4, <1>6
<1> QED
  BY <1>1, <1>4, <1>7, <1>8 DEF at, v, n, m, perm

\* The root process is the program of its file, but for what lies beyond the file.
LEMMA RootImageExact ==
  ASSUME Inv, NEW p \in Procs, p = 0, Runs(p)
  PROVE  /\ k.main[p].pc = Programs[RootPath].entry
         /\ \A part \in Programs[RootPath].parts : \A i \in 1..part.memsz :
               /\ PermAt(p, part.vaddr + i - 1) = {part.perm}
               /\ i \in DOMAIN part.bytes => Load(k, p, part.vaddr + i - 1) = part.bytes[i]
<1>1. RootAt(k, app[0]) /\ Separate(k.maps[p])
  BY RunsIs
<1>2. Parts(RootCode, RootElf, Programs[RootPath], RootAreas) /\ RootPh = Loadable(RootElf)
  BY RootParts DEF RootPh
<1>3. k.main[p].pc = Programs[RootPath].entry
  BY <1>1, <1>2 DEF RootAt, Parts
<1>4. Programs[RootPath].parts = {PartOf(RootCode, RootPh[j]) : j \in 1..NR}
  BY <1>2 DEF Parts, NR
<1>5. ASSUME NEW part \in Programs[RootPath].parts, NEW i \in 1..part.memsz
      PROVE  /\ PermAt(p, part.vaddr + i - 1) = {part.perm}
             /\ i \in DOMAIN part.bytes => Load(k, p, part.vaddr + i - 1) = part.bytes[i]
  <2>1. PICK j \in 1..NR : part = PartOf(RootCode, RootPh[j])
    BY <1>4
  <2> DEFINE ph == RootPh[j]
             off == ph.p_vaddr - ROUND_DOWN(ph.p_vaddr)
  <2>2. /\ part.vaddr = ph.p_vaddr /\ part.memsz = ph.p_memsz
        /\ part.perm = PFLAGS2VMRFLAGS(ph.p_flags) /\ part.bytes = FileBytes(RootCode, ph)
    BY <2>1 DEF PartOf
  <2>3. ph \in PageHeader
    BY <1>2 DEF Parts, NR
  <2>4. SegmentAt(ph, j + 1) \in k.maps[p]
    BY <1>1 DEF RootAt, RootRegions, RootImage
  <2>5. \A c \in DOMAIN FileBytes(RootCode, ph) :
           k.pmos[j + 1][off + c] = FileBytes(RootCode, ph)[c]
    BY <1>1 DEF RootAt, RootLoaded
  <2> HIDE DEF ph
  <2>6. /\ PermAt(p, ph.p_vaddr + i - 1) = {PFLAGS2VMRFLAGS(ph.p_flags)}
        /\ Load(k, p, ph.p_vaddr + i - 1) = k.pmos[j + 1][off + i]
    BY <1>1, <2>2, <2>3, <2>4, SegmentByte
  <2> HIDE DEF off
  <2> QED
    BY <2>2, <2>5, <2>6
<1> QED
  BY <1>3, <1>5

\* A child is the program of its file, with zeros beyond the file.
LEMMA ChildImageExact ==
  ASSUME Inv, NEW p \in Children, app[p] # "none", NEW path, path = launched[p].path
  PROVE  /\ k.main[p].pc = Programs[path].entry
         /\ \A part \in Programs[path].parts : \A i \in 1..part.memsz :
               /\ PermAt(p, part.vaddr + i - 1) = {part.perm}
               /\ i \in DOMAIN part.bytes => Load(k, p, part.vaddr + i - 1) = part.bytes[i]
               /\ i \notin DOMAIN part.bytes => Load(k, p, part.vaddr + i - 1) = 0
<1> DEFINE req == launched[p]
           code == FileOf(path)
           again == app[p] = "reads"
<1>1. PICK b \in Nat, cap \in Nat : ChildAt(k, p, req, b, cap, again)
  BY ChildRuns
<1>2. /\ req \in Requests /\ FileOf(req.path) # ENOENT /\ Len(Ph(path)) = 2
      /\ k.maps[p] = ChildRegions(req.path, b, 2, req.info, TRUE, again)
      /\ SegmentsLoaded(k, req.path, b, 2)
  BY <1>1 DEF ChildAt
<1>3. Separate(k.maps[p])
  <2>1. again \in BOOLEAN
    OBVIOUS
  <2> HIDE DEF again
  <2> QED
    BY <1>1, <2>1, ChildMap
<1>4. Parts(code, ElfOf(path), Programs[path], ChildAreas) /\ Ph(path) = Loadable(ElfOf(path))
  BY <1>2, ChildParts DEF Ph
<1>5. k.main[p].pc = Programs[path].entry
  <2>1. k.main[p] = [sp |-> StackTop - PageSize, pc |-> ElfOf(path).header.e_entry]
    BY ChildIs
  <2> QED
    BY <1>4, <2>1 DEF Parts
<1>6. Programs[path].parts = {PartOf(code, Ph(path)[j]) : j \in 1..2}
  BY <1>2, <1>4 DEF Parts
<1>7. ASSUME NEW part \in Programs[path].parts, NEW i \in 1..part.memsz
      PROVE  /\ PermAt(p, part.vaddr + i - 1) = {part.perm}
             /\ i \in DOMAIN part.bytes => Load(k, p, part.vaddr + i - 1) = part.bytes[i]
             /\ i \notin DOMAIN part.bytes => Load(k, p, part.vaddr + i - 1) = 0
  <2>1. PICK j \in 1..2 : part = PartOf(code, Ph(path)[j])
    BY <1>6
  <2> DEFINE ph == Ph(path)[j]
             off == ph.p_vaddr - ROUND_DOWN(ph.p_vaddr)
             bytes == FileBytes(code, ph)
  <2>2. /\ part.vaddr = ph.p_vaddr /\ part.memsz = ph.p_memsz
        /\ part.perm = PFLAGS2VMRFLAGS(ph.p_flags) /\ part.bytes = bytes
    BY <2>1 DEF PartOf
  <2>3. ph \in PageHeader
    BY <1>2, <1>4 DEF Parts
  <2>4. SegmentAt(ph, b + j) \in k.maps[p]
    BY <1>2 DEF ChildRegions
  <2>5. k.pmos[b + j] = SegmentCells(code, ph)
    BY <1>2 DEF SegmentsLoaded
  <2> HIDE DEF ph
  <2>6. /\ PermAt(p, ph.p_vaddr + i - 1) = {PFLAGS2VMRFLAGS(ph.p_flags)}
        /\ Load(k, p, ph.p_vaddr + i - 1) = k.pmos[b + j][off + i]
        /\ off + i \in 1..MapSize(ph) /\ (off + i) - off = i /\ ph.p_vaddr % PageSize = off
    BY <1>3, <2>2, <2>3, <2>4, SegmentByte
  <2> HIDE DEF off, bytes
  <2>7. SegmentCells(code, ph)
          = [c \in 1..MapSize(ph) |-> IF (c - off) \in DOMAIN bytes THEN bytes[c - off] ELSE 0]
    BY <2>6 DEF SegmentCells, bytes
  <2>8. SegmentCells(code, ph)[off + i] = IF i \in DOMAIN bytes THEN bytes[i] ELSE 0
    BY <2>6, <2>7
  <2> QED
    BY <2>2, <2>5, <2>6, <2>8
<1> QED
  BY <1>5, <1>7

\* The thread of a process starts at the entry point of its program, with the segments of
\* the program in place: whatever the files, the addresses and the number of launches.
THEOREM LaunchImageExact == Spec => []ImageExact
<1>1. Inv => ImageExact
  <2> SUFFICES ASSUME Inv, NEW p \in Procs, Runs(p)
               PROVE  /\ k.main[p].pc = Programs[launched[p].path].entry
                      /\ \A part \in Programs[launched[p].path].parts : \A i \in 1..part.memsz :
                            /\ PermAt(p, part.vaddr + i - 1) = {part.perm}
                            /\ i \in DOMAIN part.bytes =>
                                  Load(k, p, part.vaddr + i - 1) = part.bytes[i]
                            /\ p # 0 /\ i \notin DOMAIN part.bytes =>
                                  Load(k, p, part.vaddr + i - 1) = 0
    BY DEF ImageExact
  <2>1. CASE p = 0
    <3>1. launched[0].path = RootPath
      BY <2>1, RunsIs
    <3> QED
      BY <2>1, <3>1, RootImageExact
  <2>2. CASE p # 0
    <3>1. p \in Children /\ app[p] # "none"
      BY <2>2, RunsIs
    <3> QED
      BY <3>1, ChildImageExact
  <2> QED
    BY <2>1, <2>2
<1> QED
  BY <1>1, LaunchInvariant, PTL

\* The page below the environment page is the stack that main() goes on with.
LEMMA StackBelow ==
  ASSUME NEW p, Separate(k.maps[p]), NEW pmo, Region(StackBase, StackSize, VMR_RW, pmo) \in k.maps[p],
         k.main[p].sp = StackTop - PageSize, NEW below \in 1..PageSize
  PROVE  PermAt(p, k.main[p].sp - below) = {VMR_RW}
<1> DEFINE off == StackSize - PageSize - below
<1>1. StackBase \in Nat /\ StackSize \in Nat /\ PageSize \in Nat /\ 2 * PageSize <= StackSize
      /\ StackTop = StackBase + StackSize
  BY Sizes
<1>2. off \in Nat /\ off < StackSize /\ StackBase + off = StackTop - PageSize - below
  BY <1>1
<1> HIDE DEF off
<1>3. CellAt(k, p, StackBase + off, pmo, off, VMR_RW)
  BY <1>1, <1>2, AreaCell
<1>4. PermAtIn(k, p, StackTop - PageSize - below) = {VMR_RW}
  BY <1>2, <1>3 DEF CellAt
<1> QED
  BY <1>4 DEF PermAt, PermAtIn

\* What _start_c() of the root process finds.
LEMMA RootReads ==
  ASSUME Inv, Runs(0)
  PROVE  /\ argc(0) = 1 /\ Load(k, 0, argv(0, 0)) = RootPath /\ argv(0, 1) = 0 /\ envp(0, 0) = 0
         /\ \A below \in 1..PageSize : PermAt(0, k.main[0].sp - below) = {VMR_RW}
<1> DEFINE env == prepare_env(StackTop, Meta(RootElf), RootPath)
<1>1. RootAt(k, app[0]) /\ Separate(k.maps[0])
  BY RunsIs, ProcsAre
<1>2. EnvAt(k, 1, env) /\ k.main[0].sp = StackTop - PageSize
      /\ Region(StackBase, StackSize, VMR_RW, 1) \in k.maps[0]
  BY <1>1 DEF RootAt, RootRegions
<1>3. env[1] = 1 /\ env[2] = StackTop - StrSize /\ env[3] = 0 /\ env[4] = 0
      /\ env[PageSize - StrSize + 1] = RootPath
  BY RootWords
<1> HIDE DEF env
<1>4. /\ PageSize \in Nat /\ StrSize \in Nat /\ 40 + 2 * StrSize <= PageSize /\ StrSize # 0
      /\ StackTop \in Nat
  BY Sizes
<1>5. \A i : i \in Nat /\ i < PageSize => Load(k, 0, StackTop - PageSize + i) = env[i + 1]
  BY <1>1, <1>2, StackCell
<1>6. \A i \in 0..3 : Word(0, i) = env[i + 1]
  <2> TAKE i \in 0..3
  <2>1. i \in Nat /\ i < PageSize
    BY <1>4
  <2>2. Load(k, 0, StackTop - PageSize + i) = env[i + 1]
    BY <1>5, <2>1
  <2>3. Word(0, i) = Load(k, 0, StackTop - PageSize + i)
    BY <1>2, Zenon DEF Word
  <2> QED
    BY <2>2, <2>3
<1>7. Load(k, 0, StackTop - StrSize) = env[PageSize - StrSize + 1]
  <2> DEFINE i == PageSize - StrSize
  <2>1. i \in Nat /\ i < PageSize /\ StackTop - PageSize + i = StackTop - StrSize
    BY <1>4
  <2> HIDE DEF i
  <2>2. Load(k, 0, StackTop - PageSize + i) = env[i + 1]
    BY <1>5, <2>1
  <2> QED
    BY <2>1, <2>2 DEF i
<1>8. Word(0, 0) = env[1] /\ Word(0, 1) = env[2] /\ Word(0, 2) = env[3] /\ Word(0, 3) = env[4]
  BY <1>6
<1>9. argc(0) = Word(0, 0) /\ argv(0, 0) = Word(0, 1) /\ argv(0, 1) = Word(0, 2)
      /\ envp(0, 0) = Word(0, 3)
  BY DEF argc, argv, envp
<1>10. \A below \in 1..PageSize : PermAt(0, k.main[0].sp - below) = {VMR_RW}
  BY <1>1, <1>2, StackBelow
<1> QED
  BY <1>3, <1>7, <1>8, <1>9, <1>10

\* The shared page, as a child that has it and its parent know it.
LEMMA PageOfBoth ==
  ASSUME Inv, NEW p \in Children, app[p] # "none", launched[p].info
  PROVE  /\ envp(p, 0) = SharedInfo
         /\ {vmr.pmo : vmr \in RegionsAt(k, p, SharedInfo)} = {InfoPmo}
         /\ {vmr.pmo : vmr \in RegionsAt(k, 0, InfoVaddr)} = {InfoPmo}
         /\ PermAt(p, SharedInfo) = {VMR_RW}
         /\ Obj(k, p, envp(p, 1), "pmo") = InfoPmo /\ Obj(k, 0, job.info, "pmo") = InfoPmo
         /\ envp(p, 2) = 0
<1> DEFINE req == launched[p]
           again == app[p] = "reads"
<1>1. /\ Kernel(k) /\ p \in Procs /\ 0 \in Procs /\ app[0] \notin {"none", "main", "info"}
      /\ RootAt(k, app[0]) /\ k.main[p].sp = StackTop - PageSize
  <2>1. k.main[p] = [sp |-> StackTop - PageSize, pc |-> ElfOf(launched[p].path).header.e_entry]
    BY ChildIs
  <2>2. /\ Kernel(k) /\ p \in Procs /\ 0 \in Procs /\ app[0] \notin {"none", "main", "info"}
        /\ RootAt(k, app[0])
    BY ChildIs
  <2> QED
    BY <2>1, <2>2
<1>2. PICK b \in Nat, cap \in Nat : ChildAt(k, p, req, b, cap, again)
  BY ChildRuns
<1>3. again \in BOOLEAN
  OBVIOUS
<1> HIDE DEF again
<1>4. Separate(k.maps[p]) /\ Region(SharedInfo, PageSize, VMR_RW, InfoPmo) \in k.maps[p]
  BY <1>2, <1>3, ChildMap
<1>5. envp(p, 0) = SharedInfo /\ envp(p, 1) = cap /\ envp(p, 2) = 0
  BY <1>1, <1>2, <1>3, ChildReads
<1>6. PageSize \in Nat \ {0} /\ SharedInfo \in Nat /\ InfoVaddr \in Nat
  BY Sizes
<1> DEFINE off == 0
<1>7. off \in Nat /\ off < PageSize /\ SharedInfo + off = SharedInfo /\ InfoVaddr + off = InfoVaddr
  BY <1>6
<1> HIDE DEF off
<1>8. CellAt(k, p, SharedInfo + off, InfoPmo, off, VMR_RW)
  BY <1>4, <1>6, <1>7, AreaCell
<1>9. CellAt(k, 0, InfoVaddr + off, InfoPmo, off, VMR_RW)
  <2>1. app[0] \notin {"main", "info"} /\ k.maps[0] = RootRegions(app[0])
    BY <1>1 DEF RootAt
  <2> QED
    BY <1>7, <2>1, InfoInRoot
<1>10. CellAt(k, p, SharedInfo, InfoPmo, off, VMR_RW) /\ CellAt(k, 0, InfoVaddr, InfoPmo, off, VMR_RW)
  BY <1>7, <1>8, <1>9
<1>11. /\ {vmr.pmo : vmr \in RegionsAt(k, p, SharedInfo)} = {InfoPmo}
       /\ {vmr.pmo : vmr \in RegionsAt(k, 0, InfoVaddr)} = {InfoPmo}
       /\ PermAt(p, SharedInfo) = {VMR_RW}
  BY <1>10 DEF CellAt, PermAt, PermAtIn
<1>12. Obj(k, p, cap, "pmo") = InfoPmo
  <2>1. Names(k, p, cap, "pmo", InfoPmo)
    BY <1>2 DEF ChildAt
  <2> QED
    BY <1>1, <2>1, Named
<1>13. Obj(k, 0, job.info, "pmo") = InfoPmo
  <2>1. Names(k, 0, job.info, "pmo", InfoPmo)
    BY <1>1 DEF Inv, RootOk
  <2> QED
    BY <1>1, <2>1, Named
<1> QED
  BY <1>5, <1>11, <1>12, <1>13

\* main() of every process finds its name, a stack, and, when it was launched with the
\* page, where that is and a capability for it.
THEOREM LaunchArguments == Spec => []ArgumentsReachMain
<1>1. Inv => ArgumentsReachMain
  <2> SUFFICES ASSUME Inv, NEW p \in Procs, Runs(p)
               PROVE  /\ argc(p) = 1 /\ Load(k, p, argv(p, 0)) = launched[p].path /\ argv(p, 1) = 0
                      /\ \A below \in 1..PageSize : PermAt(p, k.main[p].sp - below) = {VMR_RW}
                      /\ IF ~launched[p].info THEN envp(p, 0) = 0
                         ELSE /\ {vmr.pmo : vmr \in RegionsAt(k, p, envp(p, 0))}
                                   = {vmr.pmo : vmr \in RegionsAt(k, 0, InfoVaddr)}
                              /\ PermAt(p, envp(p, 0)) = {VMR_RW}
                              /\ Obj(k, p, envp(p, 1), "pmo") = Obj(k, 0, job.info, "pmo")
                              /\ envp(p, 2) = 0
    BY DEF ArgumentsReachMain
  <2>1. CASE p = 0
    <3>1. launched[0].path = RootPath /\ ~launched[0].info
      BY <2>1, RunsIs
    <3>2. Runs(0)
      BY <2>1
    <3> QED
      BY <2>1, <3>1, <3>2, RootReads
  <2>2. CASE p # 0
    <3> DEFINE req == launched[p]
               again == app[p] = "reads"
    <3>1. p \in Children /\ app[p] # "none"
      BY <2>2, RunsIs
    <3>2. PICK b \in Nat, cap \in Nat : ChildAt(k, p, req, b, cap, again)
      BY <3>1, ChildRuns
    <3>3. k.main[p].sp = StackTop - PageSize
      <4>1. k.main[p] = [sp |-> StackTop - PageSize, pc |-> ElfOf(launched[p].path).header.e_entry]
        BY <3>1, ChildIs
      <4> QED
        BY <4>1
    <3>4. again \in BOOLEAN
      OBVIOUS
    <3> HIDE DEF again
    <3>5. Separate(k.maps[p]) /\ Region(StackBase, StackSize, VMR_RW, b + 3) \in k.maps[p]
      BY <3>2, <3>4, ChildMap
    <3>6. \A below \in 1..PageSize : PermAt(p, k.main[p].sp - below) = {VMR_RW}
      BY <3>3, <3>5, StackBelow
    <3>7. /\ argc(p) = 1 /\ argv(p, 0) = StackTop - StrSize /\ argv(p, 1) = 0
          /\ envp(p, 0) = IF req.info THEN SharedInfo ELSE 0
          /\ Load(k, p, StackTop - StrSize) = req.path
      BY <3>2, <3>3, <3>4, ChildReads
    <3>8. Load(k, p, argv(p, 0)) = launched[p].path
      BY <3>7
    <3>9. CASE launched[p].info
      <4>1. /\ {vmr.pmo : vmr \in RegionsAt(k, p, SharedInfo)}
                 = {vmr.pmo : vmr \in RegionsAt(k, 0, InfoVaddr)}
            /\ PermAt(p, SharedInfo) = {VMR_RW} /\ envp(p, 0) = SharedInfo
            /\ Obj(k, p, envp(p, 1), "pmo") = Obj(k, 0, job.info, "pmo") /\ envp(p, 2) = 0
        BY <3>1, <3>9, PageOfBoth
      <4> QED
        BY <3>6, <3>7, <3>8, <3>9, <4>1
    <3>10. CASE ~launched[p].info
      BY <3>6, <3>7, <3>8, <3>10
    <3> QED
      BY <3>9, <3>10
  <2> QED
    BY <2>1, <2>2
<1> QED
  BY <1>1, LaunchInvariant, PTL

\* The child that has changed the message and its parent read the same.
THEOREM LaunchMessageShared == Spec => []MessageShared
<1>1. Inv => MessageShared
  <2> SUFFICES ASSUME Inv, NEW p \in Children, app[p] \in {"reads", "waits"}, NEW i \in DOMAIN Msg
               PROVE  /\ app[p] = "reads" => Load(k, p, SharedVaddr + Args + i - 1) = Msg[i] + 1
                      /\ Load(k, 0, InfoVaddr + Args + i - 1) = Msg[i] + 1
    BY DEF MessageShared
  <2>1. /\ Kernel(k) /\ p \in Procs /\ app[p] # "none" /\ launched[p].info /\ Informed(p)
        /\ app[0] \notin {"none", "main", "info"} /\ RootAt(k, app[0])
    BY ChildIs
  <2>2. Changed
    BY <2>1 DEF Changed
  <2> DEFINE off == Args + i - 1
             page == k.pmos[InfoPmo]
  <2>3. Len(Msg) \in Nat /\ i \in 1..Len(Msg) /\ DOMAIN Msg = 1..Len(Msg) /\ PageSize \in Nat
        /\ Args + Len(Msg) + 1 <= PageSize
    <3>1. Msg \in Seq(Int) /\ PageSize \in Nat /\ Args + Len(Msg) + 1 <= PageSize
      BY AddressesAssumption
    <3> QED
      BY <3>1, LenProperties
  <2>4. off \in Nat /\ off < PageSize /\ off + 1 = Args + i
    BY <2>3 DEF Args
  <2>5. page[Args + i] = Msg[i] + 1
    <3>1. \A j \in 1..Len(Msg) : page[Args + j] = IF Changed THEN Msg[j] + 1 ELSE Msg[j]
      BY <2>1, Zenon DEF Inv, InfoOk
    <3> QED
      BY <2>2, <2>3, <3>1
  <2>6. InfoVaddr \in Nat /\ SharedVaddr \in Nat
        /\ InfoVaddr + off = InfoVaddr + Args + i - 1 /\ SharedVaddr + off = SharedVaddr + Args + i - 1
    <3>1. InfoVaddr \in Nat /\ SharedVaddr \in Nat
      BY Sizes
    <3> QED
      BY <2>3, <3>1 DEF Args
  <2> HIDE DEF off
  <2>7. Load(k, 0, InfoVaddr + off) = page[off + 1]
    <3>1. CellAt(k, 0, InfoVaddr + off, InfoPmo, off, VMR_RW)
      BY <2>1, <2>4, InfoInRoot DEF RootAt
    <3> QED
      BY <3>1 DEF CellAt
  <2>8. ASSUME app[p] = "reads" PROVE Load(k, p, SharedVaddr + off) = page[off + 1]
    <3>1. PICK b \in Nat, cap \in Nat : ChildAt(k, p, launched[p], b, cap, app[p] = "reads")
      BY <2>1, ChildRuns
    <3>2. ChildAt(k, p, launched[p], b, cap, TRUE)
      <4>1. (app[p] = "reads") = TRUE
        BY <2>8
      <4> QED
        BY <3>1, <4>1
    <3>3. Separate(k.maps[p]) /\ Region(SharedVaddr, PageSize, VMR_RW, InfoPmo) \in k.maps[p]
      BY <3>2, ChildMap
    <3>4. CellAt(k, p, SharedVaddr + off, InfoPmo, off, VMR_RW)
      BY <2>3, <2>4, <2>6, <3>3, AreaCell
    <3> QED
      BY <3>4 DEF CellAt
  <2> HIDE DEF page
  <2> QED
    BY <2>4, <2>5, <2>6, <2>7, <2>8
<1> QED
  BY <1>1, LaunchInvariant, PTL
=============================================================================
