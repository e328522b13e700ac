------------------------------ MODULE ChrdevIrq ------------------------------
(***************************************************************************)
(* The ring-buffer character driver of Chapter07/chrdev/chrdev_irq.c:     *)
(* the fixed table chrdev_array of MAX_DEVICES slots, the hrtimer handler *)
(* that plays the interrupt producer, and the read/poll/fasync/open/      *)
(* release methods run by user processes, together with the register and *)
(* unregister calls made by the platform driver (chrdev-req.c).           *)
(*                                                                         *)
(* Granularity.  Each critical section under chrdev->lock (a spinlock) is *)
(* one step.  A user step that only acquires the mutex and reads shared   *)
(* state is merged with that acquisition.  The steps of the hrtimer        *)
(* handler are split at spin_unlock, since hrtimer_cancel in unregister    *)
(* waits for the whole handler and the wake-up runs outside the lock.     *)
(***************************************************************************)
EXTENDS Integers, Sequences, FiniteSets, CircBuf

CONSTANTS
    MAX_DEVICES,         \* size of chrdev_array
    BUF_LEN,             \* ring storage (PAGE_SIZE in the code)
    TMP_LEN,             \* the on-stack tmp[] of chrdev_read (256)
    NLetters,            \* get_new_char cycles through NLetters letters
    Labels,              \* labels the platform layer passes (model values)
    Users,               \* user processes that open the devices
    Counts,              \* read() count arguments users pass
    Modes,               \* O_NONBLOCK settings users open with
    FaultyUserBuffers,   \* may a user pass a buffer copy_to_user faults on?
    UnbindWithOpenFiles, \* may remove() run while a file is open (sysfs unbind)?
    OpenBeforeInit,      \* may a user open the node device_create made before
                         \* register has initialised the slot (devtmpfs, mknod)?
    NoOwner, NoFile, NoLabel, NoRet

ASSUME /\ MAX_DEVICES \in Nat \ {0}
       /\ BUF_LEN \in Nat /\ BUF_LEN >= 2
       /\ TMP_LEN \in Nat \ {0}
       /\ NLetters \in Nat \ {0}
       /\ Counts \subseteq Nat \ {0}
       /\ Modes \subseteq BOOLEAN /\ Modes # {}
       /\ FaultyUserBuffers \in BOOLEAN /\ UnbindWithOpenFiles \in BOOLEAN
       /\ OpenBeforeInit \in BOOLEAN

Slots == 0 .. MAX_DEVICES - 1
\* The platform layer may pass any id read from the device tree.
Ids == 0 .. MAX_DEVICES
\* 0 is the NUL kzalloc fills the buffer with, 1..NLetters are 'A'.. .
Bytes == 0 .. NLetters

VARIABLES
    busy, label, buf, head, tail,  \* struct chrdev_device fields
    alloc,                         \* chrdev->buf points at allocated memory
    mux,                           \* owner of chrdev->mux
    waitq,                         \* tasks queued on chrdev->queue
    fasync,                        \* files on chrdev->fasync_queue
    timer,                         \* hrtimer queued ("armed") or not
    running,                       \* its callback is executing
    d,                             \* static char d of get_new_char
    cdev,                          \* cdev added and node created: open reaches it
    pending,                       \* per registrar (label): the register or
                                   \* unregister it is in the middle of
    busRet,                        \* result of the last register/unregister
    pc, fd, cnt, nonblock, tmp,    \* per user: syscall point and locals
    rv, ulen,                      \* last return value, bytes given to user
    sig                            \* signal pending on the task

slotVars == <<busy, alloc, label, buf, head, tail, mux, waitq, fasync, timer, running, cdev>>
userVars == <<pc, fd, cnt, nonblock, tmp, rv, ulen, sig>>
vars == <<slotVars, d, pending, busRet, userVars>>

ReadStates == {"rd_lock", "rd_wait", "rd_sleep", "rd_lost", "rd_copy", "rd_out"}
PcStates == {"idle", "poll"} \cup ReadStates
\* errno values of include/uapi/asm-generic/errno-base.h and linux/errno.h
EAGAIN == 11
ERESTARTSYS == 512
RetVals == {NoRet, -EAGAIN, -ERESTARTSYS} \cup (0 .. BUF_LEN)

TypeOK ==
    /\ busy \in [Slots -> BOOLEAN] /\ alloc \in [Slots -> BOOLEAN]
    /\ label \in [Slots -> Labels \cup {NoLabel}]
    /\ buf \in [Slots -> [0 .. BUF_LEN - 1 -> Bytes]]
    /\ head \in [Slots -> 0 .. BUF_LEN - 1] /\ tail \in [Slots -> 0 .. BUF_LEN - 1]
    /\ mux \in [Slots -> Users \cup {NoOwner}]
    /\ waitq \in [Slots -> SUBSET Users] /\ fasync \in [Slots -> SUBSET Users]
    /\ timer \in [Slots -> {"inactive", "armed"}] /\ running \in [Slots -> BOOLEAN]
    /\ d \in Bytes
    /\ cdev \in [Slots -> BOOLEAN]
    /\ pending \in [Labels -> {NoFile} \cup [op : {"init", "free", "del"}, id : Slots]]
    /\ busRet \in {NoRet, "OK", "EINVAL", "EBUSY", "ENOMEM", "EEXIST"}
    /\ pc \in [Users -> PcStates] /\ fd \in [Users -> Slots \cup {NoFile}]
    /\ cnt \in [Users -> Nat] /\ nonblock \in [Users -> BOOLEAN]
    /\ tmp \in [Users -> Seq(Bytes)]
    /\ rv \in [Users -> RetVals \cup Counts] /\ ulen \in [Users -> Nat]
    /\ sig \in [Users -> BOOLEAN]

\* The unread bytes of slot s (used by the refinement mapping).
Window(s) == Unread(buf[s], head[s], tail[s], BUF_LEN)
Empty(s) == cbuf_is_empty(head[s], tail[s], BUF_LEN)

(* Slot s is between the hrtimer_cancel and the cdev_del of an unregister. *)
Unregistering(s) ==
    \E l \in Labels : pending[l] # NoFile /\ pending[l].op # "init" /\ pending[l].id = s

Init ==
    /\ busy = [s \in Slots |-> FALSE] /\ alloc = [s \in Slots |-> FALSE]
    /\ label = [s \in Slots |-> NoLabel]
    /\ buf = [s \in Slots |-> [i \in 0 .. BUF_LEN - 1 |-> 0]]
    /\ head = [s \in Slots |-> 0] /\ tail = [s \in Slots |-> 0]
    /\ mux = [s \in Slots |-> NoOwner]
    /\ waitq = [s \in Slots |-> {}] /\ fasync = [s \in Slots |-> {}]
    /\ timer = [s \in Slots |-> "inactive"] /\ running = [s \in Slots |-> FALSE]
    /\ d = 0                                  \* 'A' - 1
    /\ cdev = [s \in Slots |-> FALSE] /\ pending = [l \in Labels |-> NoFile]
    /\ busRet = NoRet
    /\ pc = [u \in Users |-> "idle"] /\ fd = [u \in Users |-> NoFile]
    /\ cnt = [u \in Users |-> 0] /\ nonblock = [u \in Users |-> FALSE]
    /\ tmp = [u \in Users |-> <<>>]
    /\ rv = [u \in Users |-> NoRet] /\ ulen = [u \in Users |-> 0]
    /\ sig = [u \in Users |-> FALSE]

-----------------------------------------------------------------------------
(* get_new_char: the next letter, wrapping after the last one.             *)
get_new_char(x) == IF x + 1 = NLetters + 1 THEN 1 ELSE x + 1

(* Expiry dequeues the timer and runs chrdev_timer_handler; up to         *)
(* spin_unlock it stores one byte unless the ring is full.                *)
chrdev_timer_handler(s) ==
    /\ timer[s] = "armed"
    /\ running' = [running EXCEPT ![s] = TRUE]
    /\ IF cbuf_is_full(head[s], tail[s], BUF_LEN)
         THEN UNCHANGED <<buf, head, d>>
         ELSE /\ d' = get_new_char(d)
              /\ buf' = [buf EXCEPT ![s][head[s]] = d']
              /\ head' = [head EXCEPT ![s] = cbuf_pointer_move(@, 1, BUF_LEN)]
    /\ timer' = [timer EXCEPT ![s] = "inactive"]
    /\ UNCHANGED <<busy, alloc, label, tail, mux, waitq, fasync, cdev, pending, busRet, userVars>>

\* Faulty variant: the handler forgets wake_up_interruptible.
wake_up_interruptible_none(s) == UNCHANGED waitq

(* wake_up_interruptible: every queued entry is autoremoved and its task  *)
(* made runnable.                                                          *)
wake_up_interruptible(s) == waitq' = [waitq EXCEPT ![s] = {}]

(* The rest of the handler: wake_up_interruptible empties the wait queue  *)
(* (autoremove entries), kill_fasync signals every subscriber that is in  *)
(* a system call, hrtimer_forward_now + HRTIMER_RESTART re-arm the timer. *)
chrdev_timer_wake(s) ==
    /\ running[s]
    /\ running' = [running EXCEPT ![s] = FALSE]
    /\ wake_up_interruptible(s)
    /\ sig' = [u \in Users |-> sig[u] \/ (u \in fasync[s] /\ pc[u] # "idle")]
    /\ timer' = [timer EXCEPT ![s] = "armed"]
    /\ UNCHANGED <<busy, alloc, label, buf, head, tail, mux, fasync, cdev, d, pending, busRet,
                   pc, fd, cnt, nonblock, tmp, rv, ulen>>

-----------------------------------------------------------------------------
(* User-side methods.  A syscall return clears the pending signal, which *)
(* is then handled in user space.                                         *)

Return(u, val) ==
    /\ pc' = [pc EXCEPT ![u] = "idle"]
    /\ rv' = [rv EXCEPT ![u] = val]
    /\ sig' = [sig EXCEPT ![u] = FALSE]

(* open() finds the slot through the cdev (inode->i_cdev); chrdev_open    *)
(* itself checks nothing.  Unless OpenBeforeInit, users open only nodes  *)
(* whose register call has returned.  Unless the driver is unbound        *)
(* through sysfs, remove() runs under rmmod, whose module is then going:  *)
(* try_module_get on cdev.owner fails and open() cannot reach the slot.  *)
chrdev_open(u, s) ==
    /\ pc[u] = "idle" /\ fd[u] = NoFile
    /\ busy[s] \/ (OpenBeforeInit /\ cdev[s])
    /\ UnbindWithOpenFiles \/ ~Unregistering(s)
    /\ fd' = [fd EXCEPT ![u] = s]
    /\ UNCHANGED <<slotVars, d, pending, busRet, pc, cnt, nonblock, tmp, rv, ulen, sig>>

(* close(): __fput calls ->fasync(fd, filp, 0) for a FASYNC file, then   *)
(* chrdev_release.                                                        *)
chrdev_release(u) ==
    /\ pc[u] = "idle" /\ fd[u] # NoFile
    /\ fasync' = [fasync EXCEPT ![fd[u]] = @ \ {u}]
    /\ fd' = [fd EXCEPT ![u] = NoFile]
    /\ UNCHANGED <<busy, alloc, label, buf, head, tail, mux, waitq, timer, running, cdev, d, pending, busRet,
                   pc, cnt, nonblock, tmp, rv, ulen, sig>>

(* fcntl(F_SETFL, FASYNC on/off) -> fasync_helper.                         *)
chrdev_fasync(u, on) ==
    /\ pc[u] = "idle" /\ fd[u] # NoFile
    /\ fasync' = [fasync EXCEPT ![fd[u]] = IF on THEN @ \cup {u} ELSE @ \ {u}]
    /\ UNCHANGED <<busy, alloc, label, buf, head, tail, mux, waitq, timer, running, cdev, d, pending, busRet,
                   userVars>>

(* chrdev_poll: poll_wait, then the emptiness test under the mutex.  The  *)
(* poll-table entry only matters to a sleeping select(), not modelled.   *)
PollCall(u) ==
    /\ pc[u] = "idle" /\ fd[u] # NoFile
    /\ pc' = [pc EXCEPT ![u] = "poll"]
    /\ rv' = [rv EXCEPT ![u] = NoRet]
    /\ UNCHANGED <<slotVars, d, pending, busRet, fd, cnt, nonblock, tmp, ulen, sig>>

chrdev_poll(u) ==
    LET s == fd[u] IN
    /\ pc[u] = "poll" /\ mux[s] = NoOwner
    /\ Return(u, NoRet)    \* the mask is not kept: no property reads it
    /\ UNCHANGED <<slotVars, d, pending, busRet, fd, cnt, nonblock, tmp, ulen>>

(* read(fd, buf, count) entering chrdev_read.                              *)
ReadCall(u) ==
    /\ pc[u] = "idle" /\ fd[u] # NoFile
    /\ \E c \in Counts, nb \in Modes :
         /\ cnt' = [cnt EXCEPT ![u] = c]
         /\ nonblock' = [nonblock EXCEPT ![u] = nb]
    /\ pc' = [pc EXCEPT ![u] = "rd_lock"]
    /\ rv' = [rv EXCEPT ![u] = NoRet] /\ ulen' = [ulen EXCEPT ![u] = 0]
    /\ UNCHANGED <<slotVars, d, pending, busRet, fd, tmp, sig>>

(* mutex_lock, then the O_NONBLOCK test or the first condition test of    *)
(* wait_event_interruptible.  On -EAGAIN the code jumps to unlock and     *)
(* returns count, the requested size, not ret.                            *)
chrdev_read_lock(u) ==
    LET s == fd[u] IN
    /\ pc[u] = "rd_lock" /\ mux[s] = NoOwner
    /\ IF nonblock[u] /\ Empty(s)
         THEN /\ Return(u, cnt[u])
              /\ UNCHANGED mux
         ELSE /\ mux' = [mux EXCEPT ![s] = u]
              /\ pc' = [pc EXCEPT ![u] = IF Empty(s) THEN "rd_wait" ELSE "rd_copy"]
              /\ UNCHANGED <<rv, sig>>
    /\ UNCHANGED <<busy, alloc, label, buf, head, tail, waitq, fasync, timer, running, cdev, d, pending, busRet,
                   fd, cnt, nonblock, tmp, ulen>>

(* One turn of the wait_event_interruptible loop: prepare_to_wait_event  *)
(* and the condition test; a pending signal ends the wait with            *)
(* -ERESTARTSYS (goto unlock), otherwise the task goes to sleep queued.   *)
chrdev_read_wait(u) ==
    LET s == fd[u] IN
    /\ pc[u] = "rd_wait"
    /\ \/ /\ ~Empty(s)
          /\ waitq' = [waitq EXCEPT ![s] = @ \ {u}]
          /\ pc' = [pc EXCEPT ![u] = "rd_copy"]
          /\ UNCHANGED <<mux, rv, sig>>
       \/ /\ Empty(s) /\ sig[u]
          /\ waitq' = [waitq EXCEPT ![s] = @ \ {u}]
          /\ mux' = [mux EXCEPT ![s] = NoOwner]
          /\ Return(u, -ERESTARTSYS)
       \/ /\ Empty(s) /\ ~sig[u]
          /\ waitq' = [waitq EXCEPT ![s] = @ \cup {u}]
          /\ pc' = [pc EXCEPT ![u] = "rd_sleep"]
          /\ UNCHANGED <<mux, rv, sig>>
    /\ UNCHANGED <<busy, alloc, label, buf, head, tail, fasync, timer, running, cdev, d, pending, busRet,
                   fd, cnt, nonblock, tmp, ulen>>

(* schedule() returns once a wake-up removed the entry or a signal came;  *)
(* an entry orphaned by init_waitqueue_head ("rd_lost") is never woken.  *)
chrdev_read_schedule(u) ==
    /\ \/ pc[u] = "rd_sleep" /\ (u \notin waitq[fd[u]] \/ sig[u])
       \/ pc[u] = "rd_lost" /\ sig[u]
    /\ pc' = [pc EXCEPT ![u] = "rd_wait"]
    /\ UNCHANGED <<slotVars, d, pending, busRet, fd, cnt, nonblock, tmp, rv, ulen, sig>>

(* Under spin_lock_irqsave: count = min(count, cbuf_count_to_end) and     *)
(* memcpy(tmp, &buf[tail], count).  Bytes at or past BUF_LEN lie outside  *)
(* the buffer, and a freed buffer holds anything: any byte may be read.   *)
chrdev_read_copy(u) ==
    LET s == fd[u]
        n == cbuf_count_to_end(head[s], tail[s], BUF_LEN)
        c == IF cnt[u] < n THEN cnt[u] ELSE n
    IN
    /\ pc[u] = "rd_copy"
    /\ \E junk \in [1 .. c -> Bytes] :
         tmp' = [tmp EXCEPT ![u] =
                   [i \in 1 .. c |-> IF alloc[s] /\ tail[s] + i - 1 < BUF_LEN
                                       THEN buf[s][tail[s] + i - 1]
                                       ELSE junk[i]]]
    /\ cnt' = [cnt EXCEPT ![u] = c]
    /\ pc' = [pc EXCEPT ![u] = "rd_out"]
    /\ UNCHANGED <<slotVars, d, pending, busRet, fd, nonblock, rv, ulen, sig>>

(* copy_to_user returns the bytes it could not copy; the code tests       *)
(* ret < 0, which never holds, then moves the tail by count, unlocks and  *)
(* returns count.                                                          *)
chrdev_read_out(u) ==
    LET s == fd[u] IN
    /\ pc[u] = "rd_out"
    /\ \E notCopied \in (IF FaultyUserBuffers THEN 0 .. cnt[u] ELSE {0}) :
         ulen' = [ulen EXCEPT ![u] = cnt[u] - notCopied]
    /\ tail' = [tail EXCEPT ![s] = cbuf_pointer_move(@, cnt[u], BUF_LEN)]
    /\ mux' = [mux EXCEPT ![s] = NoOwner]
    /\ tmp' = [tmp EXCEPT ![u] = <<>>]
    /\ Return(u, cnt[u])
    /\ UNCHANGED <<busy, alloc, label, buf, head, waitq, fasync, timer, running, cdev, d, pending, busRet,
                   fd, cnt, nonblock>>

(* A signal sent to a task blocked in read (the task is then woken).      *)
SignalTask(u) ==
    /\ pc[u] \in {"rd_wait", "rd_sleep", "rd_lost"} /\ ~sig[u]
    /\ sig' = [sig EXCEPT ![u] = TRUE]
    /\ UNCHANGED <<slotVars, d, pending, busRet, pc, fd, cnt, nonblock, tmp, rv, ulen>>

-----------------------------------------------------------------------------
(* chrdev_device_register by the driver that owns label l, up to         *)
(* dev_set_drvdata: the id and busy tests (busy is not set until later),  *)
(* kzalloc of the buffer, cdev_add and device_create, after which open()  *)
(* reaches the slot.  Any of the three may fail; each failure path frees  *)
(* what was set up, leaving the slot as it was, except that              *)
(* device_create fails (-EEXIST) while a device of the id is there (a     *)
(* register or unregister of it in progress): kzalloc and cdev_init have  *)
(* then overwritten the shared chrdev->buf and cdev, and the error path's  *)
(* kfree(chrdev->buf) frees the buffer the other device uses.             *)
chrdev_device_register(l, id) ==
    /\ pending[l] = NoFile
    /\ \/ /\ id >= MAX_DEVICES
          /\ busRet' = "EINVAL" /\ UNCHANGED <<slotVars, pending>>
       \/ /\ id < MAX_DEVICES /\ busy[id]
          /\ busRet' = "EBUSY" /\ UNCHANGED <<slotVars, pending>>
       \/ /\ id < MAX_DEVICES /\ ~busy[id]
          /\ busRet' = "ENOMEM" /\ UNCHANGED <<slotVars, pending>>
       \/ /\ id < MAX_DEVICES /\ ~busy[id] /\ cdev[id]
          /\ alloc' = [alloc EXCEPT ![id] = FALSE]
          /\ busRet' = "EEXIST"
          /\ UNCHANGED <<busy, label, buf, head, tail, mux, waitq, fasync, timer,
                         running, cdev, pending>>
       \/ /\ id < MAX_DEVICES /\ ~busy[id] /\ ~cdev[id]
          /\ alloc' = [alloc EXCEPT ![id] = TRUE]
          /\ buf' = [buf EXCEPT ![id] = [i \in 0 .. BUF_LEN - 1 |-> 0]]
          /\ cdev' = [cdev EXCEPT ![id] = TRUE]
          /\ pending' = [pending EXCEPT ![l] = [op |-> "init", id |-> id]]
          /\ UNCHANGED <<busy, label, head, tail, mux, waitq, fasync, timer,
                         running, busRet>>
    /\ UNCHANGED <<d, userVars>>

(* The rest of chrdev_device_register: busy = 1, the label, mutex_init,   *)
(* init_waitqueue_head, head = tail = 0, fasync_queue = NULL, then        *)
(* hrtimer_init and hrtimer_start; register returns 0.  The init calls    *)
(* overwrite whatever the fields held: a mutex owner is forgotten, and   *)
(* tasks asleep on the old list stay asleep, orphaned, until a signal.    *)
chrdev_device_register_init(l) ==
    LET id == pending[l].id IN
    /\ pending[l] # NoFile /\ pending[l].op = "init"
    /\ busy' = [busy EXCEPT ![id] = TRUE]
    /\ label' = [label EXCEPT ![id] = l]
    /\ mux' = [mux EXCEPT ![id] = NoOwner]
    /\ waitq' = [waitq EXCEPT ![id] = {}]
    /\ pc' = [u \in Users |-> IF pc[u] = "rd_sleep" /\ u \in waitq[id]
                                THEN "rd_lost" ELSE pc[u]]
    /\ head' = [head EXCEPT ![id] = 0] /\ tail' = [tail EXCEPT ![id] = 0]
    /\ fasync' = [fasync EXCEPT ![id] = {}]
    /\ timer' = [timer EXCEPT ![id] = "armed"]
    /\ pending' = [pending EXCEPT ![l] = NoFile]
    /\ busRet' = "OK"
    /\ UNCHANGED <<alloc, buf, running, cdev, d, fd, cnt, nonblock, tmp, rv, ulen, sig>>

(* Unless the device is unbound through sysfs, remove() only runs when    *)
(* no file is open: cdev.owner = owner makes each open file pin the       *)
(* registering module.                                                     *)
RemoveAllowed == UnbindWithOpenFiles \/ \A u \in Users : fd[u] = NoFile

\* Faulty variant: hrtimer_try_to_cancel, which does not wait.
hrtimer_cancel_nowait(id) == TRUE

(* hrtimer_cancel returns once no handler of the timer is running.        *)
hrtimer_cancel(id) == ~running[id]

(* chrdev_device_unregister up to hrtimer_cancel: the id test, the busy *)
(* and label test, then hrtimer_cancel, which dequeues the timer and      *)
(* waits for a running handler.                                            *)
chrdev_device_unregister(l, id) ==
    /\ pending[l] = NoFile
    /\ \/ /\ id >= MAX_DEVICES
          /\ busRet' = "EINVAL" /\ UNCHANGED <<slotVars, pending>>
       \/ /\ id < MAX_DEVICES /\ (~busy[id] \/ label[id] # l)
          /\ busRet' = "EINVAL" /\ UNCHANGED <<slotVars, pending>>
       \/ /\ id < MAX_DEVICES /\ busy[id] /\ label[id] = l
          /\ RemoveAllowed
          /\ hrtimer_cancel(id)
          /\ timer' = [timer EXCEPT ![id] = "inactive"]
          /\ pending' = [pending EXCEPT ![l] = [op |-> "free", id |-> id]]
          /\ UNCHANGED <<busy, alloc, label, buf, head, tail, mux, waitq, fasync, running,
                         cdev, busRet>>
    /\ UNCHANGED <<d, userVars>>

(* id = 0, busy = 0 and kfree(chrdev->buf): readers still on the slot     *)
(* read freed memory.                                                      *)
chrdev_device_unregister_free(l) ==
    LET id == pending[l].id IN
    /\ pending[l] # NoFile /\ pending[l].op = "free"
    /\ busy' = [busy EXCEPT ![id] = FALSE]
    /\ alloc' = [alloc EXCEPT ![id] = FALSE]
    /\ pending' = [pending EXCEPT ![l] = [op |-> "del", id |-> id]]
    /\ UNCHANGED <<label, buf, head, tail, mux, waitq, fasync, timer, running, cdev,
                   d, busRet, userVars>>

(* device_destroy and cdev_del: open() no longer reaches the slot; the    *)
(* call returns 0.                                                         *)
chrdev_device_unregister_del(l) ==
    LET id == pending[l].id IN
    /\ pending[l] # NoFile /\ pending[l].op = "del"
    /\ cdev' = [cdev EXCEPT ![id] = FALSE]
    /\ pending' = [pending EXCEPT ![l] = NoFile]
    /\ busRet' = "OK"
    /\ UNCHANGED <<busy, alloc, label, buf, head, tail, mux, waitq, fasync, timer, running,
                   d, userVars>>

-----------------------------------------------------------------------------
Next ==
    \/ \E s \in Slots : chrdev_timer_handler(s) \/ chrdev_timer_wake(s)
    \/ \E l \in Labels, id \in Ids :
         chrdev_device_register(l, id) \/ chrdev_device_unregister(l, id)
    \/ \E l \in Labels :
         \/ chrdev_device_register_init(l)
         \/ chrdev_device_unregister_free(l) \/ chrdev_device_unregister_del(l)
    \/ \E u \in Users :
         \/ \E s \in Slots : chrdev_open(u, s)
         \/ chrdev_release(u)
         \/ \E on \in BOOLEAN : chrdev_fasync(u, on)
         \/ PollCall(u) \/ chrdev_poll(u)
         \/ ReadCall(u) \/ chrdev_read_lock(u) \/ chrdev_read_wait(u)
         \/ chrdev_read_schedule(u) \/ chrdev_read_copy(u) \/ chrdev_read_out(u)
         \/ SignalTask(u)

(* The hrtimer fires periodically and the scheduler runs every runnable   *)
(* task; the kernel mutex hands off to a starved waiter, so acquiring it  *)
(* is strongly fair.  Users' own calls and signals carry no fairness.     *)
Fairness ==
    /\ \A s \in Slots : WF_vars(chrdev_timer_handler(s)) /\ WF_vars(chrdev_timer_wake(s))
    /\ \A u \in Users :
         /\ SF_vars(chrdev_read_lock(u)) /\ SF_vars(chrdev_poll(u))
         /\ WF_vars(chrdev_read_wait(u)) /\ WF_vars(chrdev_read_schedule(u))
         /\ WF_vars(chrdev_read_copy(u)) /\ WF_vars(chrdev_read_out(u))

Spec == Init /\ [][Next]_vars
FairSpec == Spec /\ Fairness

-----------------------------------------------------------------------------
(* Properties.                                                             *)

(* unregister stops the producer before the buffer is freed: no timer is  *)
(* queued and no handler runs on a slot whose buffer is gone.  A handler   *)
(* running when unregister starts re-arms the timer (HRTIMER_RESTART)     *)
(* after it unlocks; the timer stays dequeued through the kfree only      *)
(* because hrtimer_cancel waits for that handler to return.               *)
TimerOnlyOnLiveBuffer ==
    \A s \in Slots : (timer[s] = "armed" \/ running[s]) => alloc[s]

(* Every read or poll call returns: a reader blocked in                    *)
(* wait_event_interruptible with the mutex held is woken by the periodic   *)
(* handler, and callers queued on the mutex behind it get it in turn.     *)
SyscallsComplete == \A u \in Users : pc[u] # "idle" ~> pc[u] = "idle"

(* The bytes chrdev_read copies out of a live ring are the oldest unread  *)
(* bytes, in the order the handler stored them (spec.md 4.1 read_span).   *)
DeliveredInOrder ==
    [][\A u \in Users :
         (pc[u] = "rd_copy" /\ pc'[u] = "rd_out" /\ busy[fd[u]])
           => /\ Len(tmp'[u]) <= Len(Window(fd[u]))
              /\ tmp'[u] = SubSeq(Window(fd[u]), 1, Len(tmp'[u]))]_vars

(* The bytes chrdev_read copies under the spinlock fit in tmp[256]: the  *)
(* memcpy is bounded by count = min(count, cbuf_count_to_end), which is  *)
(* limited by neither sizeof(tmp) nor the caller.                          *)
CopyFitsTmp == \A u \in Users : Len(tmp[u]) <= TMP_LEN

(* A read that returns a count n >= 0 has placed exactly n bytes in the   *)
(* caller's buffer (-EAGAIN and -EFAULT are reported as errors).          *)
ReturnMatchesDelivered ==
    \A u \in Users : pc[u] = "idle" /\ rv[u] \in Nat => rv[u] = ulen[u]

(* A task inside chrdev_read's mutex section works on a registered,      *)
(* initialised device whose buffer is allocated, and is the mutex's only  *)
(* owner: no unregister, and no failing register of the same id, frees    *)
(* the buffer under it, and register's mutex_init and init_waitqueue_head *)
(* do not reset the mutex and wait queue under it.                        *)
ReadOnLiveSlot ==
    \A u \in Users :
        pc[u] \in ReadStates \ {"rd_lock"} =>
            busy[fd[u]] /\ alloc[fd[u]] /\ mux[fd[u]] = u
=============================================================================
