-------------------------------- MODULE Chrdev --------------------------------
(***************************************************************************)
(* The flat-buffer character driver of Chapter07/chrdev/chrdev.c: a table *)
(* of MAX_DEVICES slots, each with a PAGE_SIZE buffer that user processes *)
(* read, write, seek in, query and set read-only through ioctl, and map    *)
(* with mmap; the platform driver chrdev-req.c registers and unregisters  *)
(* the slots from its probe and remove.                                   *)
(*                                                                         *)
(* A second platform driver, Chapter04/chrdev/chrdev-fw.c, loads a        *)
(* firmware file in its probe (synchronously, or through a callback) and  *)
(* registers ("chrdev-fw", 0).  Chapter04 ships only chrdev.h for it; the *)
(* registry it links against is modelled by the chrdev.c of Chapter07,    *)
(* whose register/unregister have the same contract.                      *)
(*                                                                         *)
(* The driver takes no lock.  read and write are split at the call of     *)
(* copy_to_user/copy_from_user, which may sleep on a page fault: what     *)
(* they computed before the copy may be stale when the copy runs.  The    *)
(* contents of the buffer are left out: no property reads them.           *)
(*                                                                         *)
(* size_t and loff_t keep their width, SizeBits bits: the clamp           *)
(* count = BUF_LEN - *ppos is computed in size_t.                         *)
(***************************************************************************)
EXTENDS Integers, Sequences, FiniteSets

CONSTANTS
    MAX_DEVICES,   \* size of chrdev_array
    BUF_LEN,       \* the buffer size, PAGE_SIZE in the code: one page
    SizeBits,      \* width of size_t and loff_t
    Labels,        \* labels chrdev-req passes (model values)
    Users,         \* user processes, each with its own open file
    Counts,        \* count arguments of read and write
    PreadPos,      \* offsets pread/pwrite pass (the VFS refuses negative ones)
    SeekOffsets,   \* offsets passed to lseek
    MapPages,      \* mmap length in pages (a vma is a whole number of pages)
    MapPgoffs,     \* mmap offset in pages
    Unbind,        \* is remove() reached by a sysfs unbind rather than rmmod?
    Trees,         \* device trees: each a sequence of child nodes
    FwNodes,       \* compatibles the chrdev-fw node may have: "wait", "nowait"
    FwLabel,       \* the label chrdev-fw registers, "chrdev-fw"
    NoProp,        \* a property the child node does not have
    NoFile, NoLabel

ASSUME /\ MAX_DEVICES \in Nat \ {0} /\ BUF_LEN \in Nat \ {0}
       /\ SizeBits \in Nat /\ 2^SizeBits > 2 * BUF_LEN
       /\ Counts \subseteq Nat \ {0} /\ PreadPos \subseteq Nat
       /\ SeekOffsets \subseteq Int
       /\ MapPages \subseteq Nat \ {0} /\ MapPgoffs \subseteq Nat
       /\ Unbind \in BOOLEAN
       /\ FwNodes \subseteq {"wait", "nowait"} /\ FwLabel \in Labels
       /\ \A t \in Trees : \A i \in DOMAIN t :
            t[i].reg \in Nat \cup {NoProp} /\ t[i].label \in Labels \cup {NoProp}
            /\ t[i].ro \in BOOLEAN

Slots == 0 .. MAX_DEVICES - 1
SizeMax == 2^SizeBits
\* Conversions to size_t (unsigned) and to loff_t / ssize_t (signed).
ToSize(x) == x % SizeMax
ToSigned(x) == LET v == x % SizeMax IN IF v >= SizeMax \div 2 THEN v - SizeMax ELSE v
SignedRange == (-(SizeMax \div 2)) .. (SizeMax \div 2 - 1)

SEEK_SET == 0
SEEK_CUR == 1
SEEK_END == 2
Whences == {SEEK_SET, SEEK_CUR, SEEK_END, 3}
\* The ioctl commands: the two of chrdev_ioctl.h, another of base 'C', a
\* command of another driver.
Cmds == {"GETINFO", "SET_RDONLY", "C_other", "foreign"}
\* The modules that register devices: chrdev-req and chrdev-fw.
Drivers == {"req", "fw"}
NoModule == "none"

VARIABLES
    busy, label, read_only,   \* struct chrdev_device fields
    alloc,                    \* chrdev->buf is allocated (kzalloc'd, not freed)
    added,                    \* the cdev is added (open reaches the driver)
    owner,                    \* chrdev->cdev.owner: the registering module
    unreg,                    \* per driver: slot whose unregister has freed buf
                              \* but not yet called device_destroy/cdev_del
    going,                    \* per driver: its module is not live (not
                              \* loaded, or rmmod has begun)
    core,                     \* the chrdev module itself is loaded
    drv, child, dt,           \* chrdev-req: where probe/remove is, the child
                              \* node it is at, the device tree it walks
    fwdrv, fwdt, fwcb,        \* chrdev-fw: where it is, its node's compatible,
                              \* a request_firmware_nowait not yet called back
    pc, fd, pin,              \* per user: syscall point, open slot, module ref
    fpos,                     \* the file's f_pos
    pos, cnt, positional,     \* *ppos and count inside read/write, pread?
    map, mapLen               \* slot mapped by the user's vma, its length

vars == <<busy, label, read_only, alloc, added, owner, unreg, going, core, drv, child, dt,
          fwdrv, fwdt, fwcb, pc, fd, pin, fpos, pos, cnt, positional, map, mapLen>>

PcStates == {"idle", "rd_copy", "wr_copy"}

TypeOK ==
    /\ busy \in [Slots -> BOOLEAN] /\ label \in [Slots -> Labels \cup {NoLabel}]
    /\ read_only \in [Slots -> BOOLEAN] /\ alloc \in [Slots -> BOOLEAN]
    /\ added \in [Slots -> BOOLEAN] /\ owner \in [Slots -> Drivers \cup {NoModule}]
    /\ unreg \in [Drivers -> Slots \cup {NoFile}] /\ going \in [Drivers -> BOOLEAN]
    /\ core \in BOOLEAN
    /\ drv \in {"down", "probe", "unbound", "bound", "remove"} /\ dt \in Trees
    /\ child \in 1 .. Len(dt) + 1
    /\ fwdrv \in {"down", "probe", "unbound", "bound", "remove", "return"}
    /\ fwdt \in FwNodes /\ fwcb \in BOOLEAN
    /\ pc \in [Users -> PcStates] /\ fd \in [Users -> Slots \cup {NoFile}]
    /\ pin \in [Users -> Drivers \cup {NoModule}]
    /\ fpos \in [Users -> 0 .. BUF_LEN]
    /\ pos \in [Users -> SignedRange] /\ cnt \in [Users -> 0 .. SizeMax - 1]
    /\ positional \in [Users -> BOOLEAN]
    /\ map \in [Users -> Slots \cup {NoFile}] /\ mapLen \in [Users -> Nat]

Init ==
    /\ busy = [s \in Slots |-> FALSE] /\ label = [s \in Slots |-> NoLabel]
    /\ read_only = [s \in Slots |-> FALSE] /\ alloc = [s \in Slots |-> FALSE]
    /\ added = [s \in Slots |-> FALSE] /\ owner = [s \in Slots |-> NoModule]
    /\ unreg = [d \in Drivers |-> NoFile] /\ going = [d \in Drivers |-> TRUE]
    /\ core = FALSE /\ drv = "down" /\ child = 1 /\ dt \in Trees
    /\ fwdrv = "down" /\ fwdt \in FwNodes /\ fwcb = FALSE
    /\ pc = [u \in Users |-> "idle"] /\ fd = [u \in Users |-> NoFile]
    /\ pin = [u \in Users |-> NoModule] /\ fpos = [u \in Users |-> 0]
    /\ pos = [u \in Users |-> 0] /\ cnt = [u \in Users |-> 0]
    /\ positional = [u \in Users |-> FALSE]
    /\ map = [u \in Users |-> NoFile] /\ mapLen = [u \in Users |-> 0]

slotVars == <<busy, label, read_only, alloc, added, owner, unreg, going, core, drv, child, dt,
              fwdrv, fwdt, fwcb>>
-----------------------------------------------------------------------------
(* User side.  The VFS passes read/write a copy of f_pos (or the pread    *)
(* offset) as *ppos and stores it back into f_pos after a plain read or   *)
(* write returns.                                                          *)

userLocals == <<pos, cnt, positional>>

Finish(u) ==
    /\ pc' = [pc EXCEPT ![u] = "idle"]
    /\ pos' = [pos EXCEPT ![u] = 0] /\ cnt' = [cnt EXCEPT ![u] = 0]
    /\ positional' = [positional EXCEPT ![u] = FALSE]

(* open() of the device node: the VFS's cdev_get takes a reference on     *)
(* cdev.owner, which fails once the owner module is going; chrdev_open    *)
(* itself always succeeds.                                                *)
chrdev_open(u, s) ==
    /\ pc[u] = "idle" /\ fd[u] = NoFile /\ map[u] = NoFile
    /\ added[s] /\ (owner[s] # NoModule => ~going[owner[s]])
    /\ fd' = [fd EXCEPT ![u] = s]
    /\ pin' = [pin EXCEPT ![u] = owner[s]]
    /\ fpos' = [fpos EXCEPT ![u] = 0]
    /\ UNCHANGED <<slotVars, pc, userLocals, map, mapLen>>

(* The last close of the file (a vma keeps it open): chrdev_release, then *)
(* the VFS drops the owner reference.                                     *)
chrdev_release(u) ==
    /\ pc[u] = "idle" /\ fd[u] # NoFile /\ map[u] = NoFile
    /\ fd' = [fd EXCEPT ![u] = NoFile]
    /\ pin' = [pin EXCEPT ![u] = NoModule]
    /\ UNCHANGED <<slotVars, pc, fpos, userLocals, map, mapLen>>

\* Faulty variant: the negative-position test is missing.
PosValid_nolow(newppos) == newppos < BUF_LEN

(* llseek's bounds test: the new position lies in 0 .. BUF_LEN - 1.       *)
PosValid(newppos) == newppos >= 0 /\ newppos < BUF_LEN

(* chrdev_llseek: SEEK_SET, SEEK_CUR or SEEK_END, then the bounds test.   *)
chrdev_llseek(u, offset, whence) ==
    LET newppos == CASE whence = SEEK_SET -> offset
                     [] whence = SEEK_CUR -> fpos[u] + offset
                     [] OTHER             -> BUF_LEN + offset
    IN
    /\ pc[u] = "idle" /\ fd[u] # NoFile
    /\ IF whence \in {SEEK_SET, SEEK_CUR, SEEK_END} /\ PosValid(newppos)
         THEN fpos' = [fpos EXCEPT ![u] = newppos]
         ELSE UNCHANGED fpos                       \* -EINVAL
    /\ UNCHANGED <<slotVars, pc, fd, pin, userLocals, map, mapLen>>

\* Faulty variant: no end-of-buffer check.
Clamp_none(ppos, count) == count

(* "Check for end-of-buffer" of chrdev_read and chrdev_write: the sum is  *)
(* a size_t, and so is BUF_LEN - *ppos.                                   *)
Clamp(ppos, count) ==
    IF ToSize(ppos + count) >= BUF_LEN THEN ToSize(BUF_LEN - ppos) ELSE count

\* The start of read(2) (p = NoFile) or pread(2) (p an offset).
StartCopy(u, c, p, at) ==
    LET ppos == IF p = NoFile THEN fpos[u] ELSE p IN
    /\ pos' = [pos EXCEPT ![u] = ppos]
    /\ cnt' = [cnt EXCEPT ![u] = Clamp(ppos, c)]
    /\ positional' = [positional EXCEPT ![u] = p # NoFile]
    /\ pc' = [pc EXCEPT ![u] = at]

(* chrdev_read up to copy_to_user.                                        *)
chrdev_read(u) ==
    /\ pc[u] = "idle" /\ fd[u] # NoFile
    /\ \E c \in Counts, p \in PreadPos \cup {NoFile} : StartCopy(u, c, p, "rd_copy")
    /\ UNCHANGED <<slotVars, fd, pin, fpos, map, mapLen>>

(* chrdev_write up to copy_from_user: a read-only device gives -EINVAL.   *)
chrdev_write(u) ==
    /\ pc[u] = "idle" /\ fd[u] # NoFile
    /\ IF read_only[fd[u]]
         THEN UNCHANGED <<pc, userLocals>>
         ELSE \E c \in Counts, p \in PreadPos \cup {NoFile} :
                 StartCopy(u, c, p, "wr_copy")
    /\ UNCHANGED <<slotVars, fd, pin, fpos, map, mapLen>>

\* The copy has run; its result is tested for < 0, which never holds.
\* *ppos += count (a loff_t); count is returned as an ssize_t.
CopyDone(u) ==
    /\ fpos' = IF positional[u] THEN fpos
               ELSE [fpos EXCEPT ![u] = ToSigned(pos[u] + cnt[u])]
    /\ Finish(u)
    /\ UNCHANGED <<slotVars, fd, pin, map, mapLen>>

(* copy_to_user(buf, chrdev->buf + *ppos, count) and the return.          *)
chrdev_read_copy(u) == pc[u] = "rd_copy" /\ CopyDone(u)

(* copy_from_user(chrdev->buf + *ppos, buf, count) and the return.        *)
chrdev_write_copy(u) == pc[u] = "wr_copy" /\ CopyDone(u)

(* chrdev_ioctl: WDIOC_SET_RDONLY get_user's the user's int straight     *)
(* into chrdev->read_only; on a fault get_user stores 0 there and the     *)
(* call fails with -EFAULT, the same state as v = FALSE.  The other       *)
(* commands (GETINFO, unknown, not ours) change nothing in the driver.    *)
chrdev_ioctl(u, cmd, v) ==
    /\ pc[u] = "idle" /\ fd[u] # NoFile
    /\ read_only' = IF cmd = "SET_RDONLY" THEN [read_only EXCEPT ![fd[u]] = v]
                    ELSE read_only
    /\ UNCHANGED <<busy, label, alloc, added, owner, unreg, going, core, drv, child, dt,
                   fwdrv, fwdt, fwcb, pc, fd, pin, fpos, userLocals, map, mapLen>>

(* mmap(len, pgoff) -> chrdev_mmap: offset > BUF_LEN or                   *)
(* size > BUF_LEN - offset gives -EINVAL; otherwise remap_pfn_range maps   *)
(* the buffer from its start, whatever the offset.                        *)
chrdev_mmap(u, pages, pgoff) ==
    LET size == pages * BUF_LEN
        offset == pgoff * BUF_LEN
    IN
    /\ pc[u] = "idle" /\ fd[u] # NoFile /\ map[u] = NoFile
    /\ IF offset > BUF_LEN \/ size > BUF_LEN - offset
         THEN UNCHANGED <<map, mapLen>>
         ELSE /\ map' = [map EXCEPT ![u] = fd[u]]
              /\ mapLen' = [mapLen EXCEPT ![u] = size]
    /\ UNCHANGED <<slotVars, pc, fd, pin, fpos, userLocals>>

Munmap(u) ==
    /\ map[u] # NoFile
    /\ map' = [map EXCEPT ![u] = NoFile] /\ mapLen' = [mapLen EXCEPT ![u] = 0]
    /\ UNCHANGED <<slotVars, pc, fd, pin, fpos, userLocals>>
-----------------------------------------------------------------------------
(* Platform side: chrdev-req's probe and remove walking the child nodes of *)
(* its device tree node, chrdev-fw's probe and remove, and the loading    *)
(* and unloading of both modules.  Each driver makes one platform call at *)
(* a time; the two drivers' calls interleave.                             *)

userVars == <<pc, fd, pin, fpos, userLocals, map, mapLen>>
slotTable == <<busy, label, read_only, alloc, added, owner>>
reqVars == <<drv, child, dt>>
fwVars == <<fwdrv, fwdt, fwcb>>

CdevOwner(d) == d

(* chrdev_device_register, called by driver d.  A failing kzalloc,        *)
(* cdev_add or device_create undoes what was done before it and returns, *)
(* leaving the slot as it was.  device_create fails (-EEXIST on the       *)
(* /sys/dev/char link) while an unregister of the id has freed the slot   *)
(* but not yet run device_destroy.                                        *)
chrdev_device_register(d, l, id, ro) ==
    \/ id >= MAX_DEVICES                                   \* -EINVAL
       /\ UNCHANGED slotTable
    \/ id < MAX_DEVICES /\ busy[id]                        \* -EBUSY
       /\ UNCHANGED slotTable
    \/ id < MAX_DEVICES /\ ~busy[id]           \* -ENOMEM or cdev/device error
       /\ UNCHANGED slotTable
    \/ /\ id < MAX_DEVICES /\ ~busy[id] /\ ~added[id]
       /\ alloc' = [alloc EXCEPT ![id] = TRUE]
       /\ added' = [added EXCEPT ![id] = TRUE]
       /\ owner' = [owner EXCEPT ![id] = CdevOwner(d)]
       /\ read_only' = [read_only EXCEPT ![id] = ro]
       /\ busy' = [busy EXCEPT ![id] = TRUE]
       /\ label' = [label EXCEPT ![id] = l]

chrdev_device_unregister(d, l, id) ==
    \/ id >= MAX_DEVICES                                   \* -EINVAL
       /\ UNCHANGED <<slotTable, unreg>>
    \/ id < MAX_DEVICES /\ (~busy[id] \/ label[id] # l)    \* -EINVAL
       /\ UNCHANGED <<slotTable, unreg>>
    \/ /\ id < MAX_DEVICES /\ busy[id] /\ label[id] = l
       /\ busy' = [busy EXCEPT ![id] = FALSE]
       /\ alloc' = [alloc EXCEPT ![id] = FALSE]
       /\ unreg' = [unreg EXCEPT ![d] = id]
       /\ UNCHANGED <<label, read_only, added, owner>>

(* The rest of chrdev_device_unregister: device_destroy and cdev_del.      *)
chrdev_device_unregister_del(d) ==
    /\ unreg[d] # NoFile
    /\ added' = [added EXCEPT ![unreg[d]] = FALSE]
    /\ unreg' = [unreg EXCEPT ![d] = NoFile]
    /\ UNCHANGED <<busy, label, read_only, alloc, owner, going, core, reqVars, fwVars,
                   userVars>>

(* chrdev_init: class_create and alloc_chrdev_region; when either fails  *)
(* the module is not loaded and nothing changes.                           *)
chrdev_init ==
    /\ ~core
    /\ core' = TRUE
    /\ UNCHANGED <<slotTable, unreg, going, reqVars, fwVars, userVars>>

(* rmmod chrdev: chrdev-req and chrdev-fw use its exported functions, so  *)
(* the module loader refuses while either is loaded.                      *)
chrdev_exit ==
    /\ core /\ drv = "down" /\ fwdrv = "down" /\ \A d \in Drivers : going[d]
    /\ core' = FALSE
    /\ UNCHANGED <<slotTable, unreg, going, reqVars, fwVars, userVars>>

\* A child node has the "reg" and "label" properties.
Complete(c) == c.reg # NoProp /\ c.label # NoProp

(* insmod of chrdev-req, or a sysfs bind of its unbound device: the       *)
(* driver core calls chrdev_req_probe, which refuses a tree with no child *)
(* (-ENODEV) or more children than MAX_DEVICES (-ENOMEM); the device then *)
(* stays unbound and the module loaded.                                    *)
ModuleLoad ==
    /\ core /\ drv \in {"down", "unbound"} /\ unreg["req"] = NoFile
    /\ going' = [going EXCEPT !["req"] = FALSE]
    /\ drv' = IF Len(dt) = 0 \/ Len(dt) > MAX_DEVICES THEN "unbound" ELSE "probe"
    /\ child' = 1
    /\ UNCHANGED <<slotTable, unreg, core, dt, fwVars, userVars>>

(* One turn of probe's device_for_each_child_node: a child without "reg"  *)
(* or "label" is skipped, any other is registered; an error is logged and *)
(* the walk goes on.                                                       *)
chrdev_req_probe ==
    /\ drv = "probe"
    /\ LET c == dt[child] IN
         IF Complete(c) THEN chrdev_device_register("req", c.label, c.reg, c.ro)
                        ELSE UNCHANGED slotTable
    /\ child' = child + 1
    /\ drv' = IF child = Len(dt) THEN "bound" ELSE "probe"
    /\ UNCHANGED <<unreg, going, core, dt, fwVars, userVars>>

(* rmmod of chrdev-req whose device is unbound: no remove() runs; it is   *)
(* refused while an open file from an earlier binding pins the module.    *)
ReqModuleUnload ==
    /\ drv = "unbound" /\ \A u \in Users : pin[u] # "req"
    /\ going' = [going EXCEPT !["req"] = TRUE]
    /\ drv' = "down"
    /\ UNCHANGED <<slotTable, unreg, core, child, dt, fwVars, userVars>>

(* rmmod chrdev-req is refused while a reference taken by cdev_get is     *)
(* held, and from then on try_module_get fails; a sysfs unbind calls      *)
(* remove() without looking at references and leaves the module live.     *)
RemoveStart ==
    /\ drv = "bound"
    /\ Unbind \/ \A u \in Users : pin[u] # "req"
    /\ going' = [going EXCEPT !["req"] = ~Unbind]
    /\ drv' = "remove" /\ child' = 1
    /\ UNCHANGED <<slotTable, unreg, core, dt, fwVars, userVars>>

(* One turn of remove's walk: unregister the child's label and reg (the   *)
(* device_destroy/cdev_del half runs before the next turn).  A child      *)
(* without "reg" or "label" hits BUG(): the task dies and remove() never  *)
(* goes on, so no step is enabled here.                                    *)
chrdev_req_remove ==
    /\ drv = "remove" /\ unreg["req"] = NoFile /\ child <= Len(dt)
    /\ LET c == dt[child] IN
         Complete(c) /\ chrdev_device_unregister("req", c.label, c.reg)
    /\ child' = child + 1
    /\ UNCHANGED <<going, core, drv, dt, fwVars, userVars>>

(* remove() returns once the last unregister has finished.                *)
RemoveDone ==
    /\ drv = "remove" /\ unreg["req"] = NoFile /\ child > Len(dt)
    /\ drv' = "down"
    /\ UNCHANGED <<slotTable, unreg, going, core, child, dt, fwVars, userVars>>

-----------------------------------------------------------------------------
(* chrdev-fw.                                                              *)

(* insmod of chrdev-fw (module_platform_driver), or a sysfs bind of its   *)
(* unbound device: the driver core calls chrdev_req_probe.                 *)
FwModuleLoad ==
    /\ core /\ fwdrv \in {"down", "unbound"} /\ unreg["fw"] = NoFile
    /\ going' = [going EXCEPT !["fw"] = FALSE]
    /\ fwdrv' = "probe"
    /\ UNCHANGED <<slotTable, unreg, core, reqVars, fwdt, fwcb, userVars>>

(* chrdev-fw's chrdev_req_probe.  The "firmware" property may be missing, *)
(* the file name too long, request_firmware may fail, and with            *)
(* fw_nowait request_firmware_nowait may fail to queue the load: each     *)
(* returns an error and the device stays unbound.  fw_wait loads, dumps   *)
(* and releases the firmware before going on; fw_nowait only queues the   *)
(* load, whose callback runs later.  Then ("chrdev-fw", 0) is registered, *)
(* and a failure leaves the device unbound, a queued load still pending.  *)
chrdev_fw_probe ==
    /\ fwdrv = "probe"
    /\ \/ /\ fwdrv' = "unbound"
          /\ UNCHANGED <<slotTable, fwcb>>
       \/ /\ fwcb' = (fwcb \/ fwdt = "nowait")
          /\ chrdev_device_register("fw", FwLabel, 0, FALSE)
          /\ fwdrv' = IF busy'[0] /\ ~busy[0] THEN "bound" ELSE "unbound"
    /\ UNCHANGED <<unreg, going, core, reqVars, fwdt, userVars>>

(* chrdev_fw_cb: with or without the firmware, it logs, dumps and         *)
(* releases it; the loader then drops the module reference it took.       *)
chrdev_fw_cb ==
    /\ fwcb
    /\ fwcb' = FALSE
    /\ UNCHANGED <<slotTable, unreg, going, core, reqVars, fwdrv, fwdt, userVars>>

(* request_firmware_nowait(THIS_MODULE, ...) holds a reference on         *)
(* chrdev-fw until the callback has run.                                   *)
FwRequestPins == TRUE

(* rmmod chrdev-fw is refused while an open file (cdev_get) or a queued   *)
(* firmware load holds a reference; a sysfs unbind ignores references.    *)
FwRemoveStart ==
    /\ fwdrv = "bound"
    /\ \/ Unbind
       \/ (\A u \in Users : pin[u] # "fw") /\ ~(fwcb /\ FwRequestPins)
    /\ going' = [going EXCEPT !["fw"] = ~Unbind]
    /\ fwdrv' = "remove"
    /\ UNCHANGED <<slotTable, unreg, core, reqVars, fwdt, fwcb, userVars>>

(* chrdev-fw's chrdev_req_remove: chrdev_device_unregister("chrdev-fw",  *)
(* 0), whose device_destroy/cdev_del half runs before remove() returns.   *)
chrdev_fw_remove ==
    /\ fwdrv = "remove" /\ unreg["fw"] = NoFile
    /\ chrdev_device_unregister("fw", FwLabel, 0)
    /\ fwdrv' = "return"
    /\ UNCHANGED <<going, core, reqVars, fwdt, fwcb, userVars>>

(* remove() returns: rmmod then frees the module, an unbind leaves it     *)
(* loaded with its device unbound.                                         *)
FwRemoveDone ==
    /\ fwdrv = "return" /\ unreg["fw"] = NoFile
    /\ fwdrv' = IF Unbind THEN "unbound" ELSE "down"
    /\ UNCHANGED <<slotTable, unreg, going, core, reqVars, fwdt, fwcb, userVars>>

(* rmmod of chrdev-fw whose device is unbound (probe failed, or unbind):  *)
(* refused while a queued firmware load holds a reference.                 *)
FwModuleUnload ==
    /\ fwdrv = "unbound" /\ unreg["fw"] = NoFile /\ ~(fwcb /\ FwRequestPins)
    /\ going' = [going EXCEPT !["fw"] = TRUE]
    /\ fwdrv' = "down"
    /\ UNCHANGED <<slotTable, unreg, core, reqVars, fwdt, fwcb, userVars>>

-----------------------------------------------------------------------------
Next ==
    \/ ModuleLoad \/ chrdev_req_probe \/ RemoveStart \/ chrdev_req_remove
    \/ RemoveDone \/ ReqModuleUnload \/ chrdev_init \/ chrdev_exit
    \/ FwModuleLoad \/ chrdev_fw_probe \/ chrdev_fw_cb \/ FwRemoveStart
    \/ chrdev_fw_remove \/ FwRemoveDone \/ FwModuleUnload
    \/ \E d \in Drivers : chrdev_device_unregister_del(d)
    \/ \E u \in Users :
         \/ \E s \in Slots : chrdev_open(u, s)
         \/ chrdev_release(u)
         \/ \E o \in SeekOffsets, w \in Whences : chrdev_llseek(u, o, w)
         \/ chrdev_read(u) \/ chrdev_read_copy(u)
         \/ chrdev_write(u) \/ chrdev_write_copy(u)
         \/ \E cmd \in Cmds, v \in BOOLEAN : chrdev_ioctl(u, cmd, v)
         \/ \E n \in MapPages, g \in MapPgoffs : chrdev_mmap(u, n, g)
         \/ Munmap(u)

Spec == Init /\ [][Next]_vars

-----------------------------------------------------------------------------
(* Properties.                                                             *)

(* Every range chrdev_read/chrdev_write hand to copy_to_user or           *)
(* copy_from_user, and every range chrdev_mmap maps, lies inside the      *)
(* BUF_LEN bytes of chrdev->buf ("Check for end-of-buffer", llseek's and  *)
(* mmap's bounds tests).                                                  *)
AccessInBuffer ==
    \A u \in Users :
        /\ pc[u] # "idle" => 0 <= pos[u] /\ pos[u] + cnt[u] <= BUF_LEN
        /\ map[u] # NoFile => mapLen[u] <= BUF_LEN

(* No copy and no mapping of a user uses a buffer that unregister has     *)
(* freed: open files and mappings pin chrdev-req through cdev.owner, so   *)
(* remove() cannot kfree a buffer that is still reachable.                *)
NoAccessAfterFree ==
    \A u \in Users :
        /\ pc[u] # "idle" => alloc[fd[u]]
        /\ map[u] # NoFile => alloc[map[u]]

\* A driver whose remove() has returned, or whose probe never registered.
DriverDown(d) == IF d = "req" THEN drv \in {"down", "unbound"} ELSE fwdrv \in {"down", "unbound"}

====
