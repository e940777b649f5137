------------------------------ MODULE Objects ------------------------------
(***************************************************************************)
(* Memory objects, capabilities and regions, with the contents of memory:  *)
(* what the system calls of kernel/mm/vm_syscall.c and                     *)
(* kernel/process/capability.c do to them, for the modules that follow     *)
(* data from one process to another.  VMSpace and Capability look at the   *)
(* page tables and at the counts behind this.                              *)
(*                                                                         *)
(* What the kernel keeps is a record kk: pmos, the cells of each memory    *)
(* object; caps, the table of each process; maps, the regions of each.  A  *)
(* system call is a function of it; one with a result returns a pair.      *)
(* Memory never runs out.                                                  *)
(***************************************************************************)
EXTENDS Integers, Sequences

CONSTANTS PageSize,     \* PAGE_SIZE, in cells
          Nobody        \* no object, thread or request

Junk == -1            \* what a new page happens to hold
Unmapped == -2        \* a fault
ECAPBILITY == -11
EPERM == -1
EINVAL == -5

ROUND_DOWN(x) == (x \div PageSize) * PageSize
ROUND_UP(x)   == ROUND_DOWN(x + PageSize - 1)

VMR_READ == 1
VMR_WRITE == 2
VMR_EXEC == 4
VMR_RW == VMR_READ + VMR_WRITE

\* obj_get(): what a capability names, if it is of that type.
Obj(kk, p, cap, type) ==
    IF (cap + 1) \in DOMAIN kk.caps[p] /\ kk.caps[p][cap + 1].type = type
    THEN kk.caps[p][cap + 1].id ELSE Nobody

\* cap_alloc()
WithCap(kk, p, type, id) ==
    <<[kk EXCEPT !.caps[p] = Append(@, [type |-> type, id |-> id])], Len(kk.caps[p])>>

\* cap_copy() from p to q
CapCopy(kk, p, q, cap) ==
    IF (cap + 1) \notin DOMAIN kk.caps[p] THEN <<kk, ECAPBILITY>>
    ELSE WithCap(kk, q, kk.caps[p][cap + 1].type, kk.caps[p][cap + 1].id)

\* pmo_init() of an object that no capability names yet
NewPmo(kk, size) == [kk EXCEPT !.pmos = Append(@, [i \in 1..ROUND_UP(size) |-> Junk])]

\* sys_create_pmo() of a PMO_DATA object
CreatePmo(kk, p, size) == WithCap(NewPmo(kk, size), p, "pmo", Len(kk.pmos) + 1)

\* vmspace_map_range(): an end of the new region in another one is an error
Clashes(kk, p, addr, len) ==
    \E vmr \in kk.maps[p], end \in {addr, addr + len - 1} :
        vmr.start <= end /\ end < vmr.start + vmr.size
MapRange(kk, p, addr, perm, pmo) ==
    [kk EXCEPT !.maps[p] = @ \cup {[start |-> addr, size |-> Len(kk.pmos[pmo]),
                                    perm |-> perm, pmo |-> pmo]}]

\* vmspace_map_range() by a caller that goes on whatever it returns
MapIgnored(kk, p, addr, perm, pmo) ==
    IF Clashes(kk, p, addr, Len(kk.pmos[pmo])) THEN kk ELSE MapRange(kk, p, addr, perm, pmo)

\* sys_map_pmo()
MapPmo(kk, p, target, cap, addr, perm) ==
    LET pmo == Obj(kk, p, cap, "pmo")
        q   == Obj(kk, p, target, "process")
    IN  IF pmo = Nobody \/ q = Nobody THEN <<kk, ECAPBILITY>>
        ELSE IF Clashes(kk, q, ROUND_DOWN(addr), Len(kk.pmos[pmo])) THEN <<kk, EPERM>>
        ELSE IF q = p THEN <<MapRange(kk, q, ROUND_DOWN(addr), perm, pmo), 0>>
        ELSE CapCopy(MapRange(kk, q, ROUND_DOWN(addr), perm, pmo), p, q, cap)

\* sys_map_pmos(): what each request came to is written to the request, and the
\* call returns 0.
MapPmos(kk, p, target, reqs) ==
    LET after[i \in 0..Len(reqs)] ==
            IF i = 0 THEN kk
            ELSE MapPmo(after[i - 1], p, target, reqs[i].pmo_cap, reqs[i].addr, reqs[i].perm)[1]
    IN  after[Len(reqs)]

\* Mutant: the region stays.
UnmapPmoForgotten(kk, p, addr) == kk

\* sys_unmap_pmo() of a whole region
UnmapPmo(kk, p, addr) ==
    [kk EXCEPT !.maps[p] = {vmr \in @ : vmr.start # addr}]

\* cap_copy() of each from p to q, with the copies' numbers or the errors
TransferCapsTo(kk, p, q, caps) ==
    LET after[i \in 0..Len(caps)] ==
            IF i = 0 THEN <<kk, <<>>>>
            ELSE LET copy == CapCopy(after[i - 1][1], p, q, caps[i])
                 IN  <<copy[1], Append(after[i - 1][2], copy[2])>>
    IN  after[Len(caps)]

\* Mutant: the caller's own numbers come back.
TransferCapsOwn(kk, p, target, caps) ==
    <<TransferCapsTo(kk, p, Obj(kk, p, target, "process"), caps)[1], caps>>

\* sys_transfer_caps(), which returns 0 whatever became of each
TransferCaps(kk, p, target, caps) ==
    TransferCapsTo(kk, p, Obj(kk, p, target, "process"), caps)

\* memcpy() to offset of a memory object, and sys_write_pmo() where it fits
WriteObject(kk, pmo, offset, cells) ==
    [kk EXCEPT !.pmos[pmo] = [i \in DOMAIN @ |-> IF (i - offset) \in DOMAIN cells
                                                 THEN cells[i - offset] ELSE @[i]]]
WritePmo(kk, p, cap, offset, cells) ==
    LET pmo == Obj(kk, p, cap, "pmo")
    IN  IF pmo = Nobody \/ offset + Len(cells) > Len(kk.pmos[pmo]) THEN <<kk, EINVAL>>
        ELSE <<WriteObject(kk, pmo, offset, cells), 0>>

\* What process p reads at an address, and the permissions it has there.
RegionsAt(kk, p, addr) ==
    {vmr \in kk.maps[p] : vmr.start <= addr /\ addr < vmr.start + vmr.size}
Load(kk, p, addr) ==
    IF RegionsAt(kk, p, addr) = {} THEN Unmapped
    ELSE LET vmr == CHOOSE v \in RegionsAt(kk, p, addr) : TRUE
         IN  kk.pmos[vmr.pmo][addr - vmr.start + 1]
Store(kk, p, addr, cells) ==
    LET vmr == CHOOSE v \in RegionsAt(kk, p, addr) : TRUE
    IN  WriteObject(kk, vmr.pmo, addr - vmr.start, cells)
=============================================================================
