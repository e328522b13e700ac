------------------------------ MODULE MCDemos ------------------------------
(***************************************************************************)
(* The Chapter05 demos mutex.c, waitqueue.c, completion.c, atomic.c,      *)
(* ktimer.c and notifier.c, the Chapter06 demos list.c and hashtable.c,   *)
(* Chapter03's chrdev_legacy.c, and Chapter07's chrdev_fasync.c against  *)
(* its device, each an instance of its module.  They                       *)
(* share no data, so a behaviour in which several are loaded is an        *)
(* interleaving of behaviours of each alone: every behaviour here loads   *)
(* one of them (demo), every other Chapter05 or Chapter03 module being in *)
(* its unloaded state, where none of its actions is enabled, and the      *)
(* Chapter06 calls being made only on the loaded one.  Each module keeps  *)
(* its own fairness.                                                       *)
(***************************************************************************)
EXTENDS Integers

CONSTANTS CPUs, InitCPU, MaxFires, None, Threshold, MaxData, AtomicMaxFires,
          ListValues, HashValues, MaxEntries, LegacyUsers, LegacyCounts,
          LegacyMaxPos, FasyncCap

VARIABLES
    mlock, mdata, marmed, mipc, mireg, mtpc, mtcpu, mtreg, mfires, mincs,
    wdata, warmed, wrunning, wqueued, wipc, wsig,
    cdone, carmed, ctpc, cipc,
    adata, abitmap, aarmed, arunning, aipc, afires,
    karmed, ktpc, kipc, kfires,
    nnetdev_reg, nreboot_reg, nnrun, nrrun, nipc,
    ldata_list, lcreated, llive, hdata_hash, hcreated, hlive,
    gregistered, gmstate, grefs, gopened, gfpos, grv,
    fregistered, fn, ftpc, fpending, fhpc, fmpc, fsubscribed, ftag,
    demo     \* the demo this behaviour loads

mvars == <<mlock, mdata, marmed, mipc, mireg, mtpc, mtcpu, mtreg, mfires, mincs>>
wvars == <<wdata, warmed, wrunning, wqueued, wipc, wsig>>
cvars == <<cdone, carmed, ctpc, cipc>>
avars == <<adata, abitmap, aarmed, arunning, aipc, afires>>
kvars == <<karmed, ktpc, kipc, kfires>>
nvars == <<nnetdev_reg, nreboot_reg, nnrun, nrrun, nipc>>
lvars == <<ldata_list, lcreated, llive>>
hvars == <<hdata_hash, hcreated, hlive>>
gvars == <<gregistered, gmstate, grefs, gopened, gfpos, grv>>
fvars == <<fregistered, fn, ftpc, fpending, fhpc, fmpc, fsubscribed, ftag>>
vars == <<mvars, wvars, cvars, avars, kvars, nvars, lvars, hvars, gvars, fvars, demo>>

M == INSTANCE MutexDemo
       WITH lock <- mlock, data <- mdata, armed <- marmed, ipc <- mipc,
            ireg <- mireg, tpc <- mtpc, tcpu <- mtcpu, treg <- mtreg,
            fires <- mfires, incs <- mincs

W == INSTANCE WaitqueueDemo
       WITH data <- wdata, armed <- warmed, running <- wrunning,
            queued <- wqueued, ipc <- wipc, sig <- wsig

C == INSTANCE CompletionDemo
       WITH done <- cdone, armed <- carmed, tpc <- ctpc, ipc <- cipc

A == INSTANCE AtomicDemo
       WITH data <- adata, bitmap <- abitmap, armed <- aarmed,
            running <- arunning, ipc <- aipc, fires <- afires,
            MaxFires <- AtomicMaxFires

K == INSTANCE KtimerDemo
       WITH armed <- karmed, tpc <- ktpc, ipc <- kipc, fires <- kfires

N == INSTANCE NotifierDemo
       WITH netdev_reg <- nnetdev_reg, reboot_reg <- nreboot_reg,
            nrun <- nnrun, rrun <- nrrun, ipc <- nipc

L == INSTANCE ListDemo
       WITH Values <- ListValues, data_list <- ldata_list,
            created <- lcreated, live <- llive

H == INSTANCE HashtableDemo
       WITH Values <- HashValues, data_hash <- hdata_hash,
            created <- hcreated, live <- hlive

G == INSTANCE LegacyChrdev
       WITH Users <- LegacyUsers, Counts <- LegacyCounts, MaxPos <- LegacyMaxPos,
            registered <- gregistered, mstate <- gmstate, refs <- grefs,
            opened <- gopened, fpos <- gfpos, rv <- grv

F == INSTANCE FasyncEcho
       WITH Cap <- FasyncCap, registered <- fregistered, n <- fn, tpc <- ftpc,
            pending <- fpending, hpc <- fhpc, mpc <- fmpc,
            subscribed <- fsubscribed, tag <- ftag

\* Each module's state once it is unloaded (or was never loaded).
MUnloaded ==
    /\ mlock = None /\ mdata = 0 /\ marmed = FALSE /\ mipc = "unloaded"
    /\ mireg = 0 /\ mtpc = "idle" /\ mtcpu = None /\ mtreg = 0
    /\ mfires = 0 /\ mincs = 0
WUnloaded ==
    /\ wdata = 0 /\ warmed = FALSE /\ wrunning = FALSE /\ wqueued = FALSE
    /\ wipc = "unloaded" /\ wsig = FALSE
CUnloaded == cdone = 0 /\ carmed = FALSE /\ ctpc = "idle" /\ cipc = "unloaded"
AUnloaded ==
    /\ adata = 10 /\ abitmap = 255 /\ aarmed = FALSE /\ arunning = FALSE
    /\ aipc = "unloaded" /\ afires = 0
KUnloaded == karmed = FALSE /\ ktpc = "idle" /\ kipc = "unloaded" /\ kfires = 0
NUnloaded ==
    /\ nnetdev_reg = FALSE /\ nreboot_reg = FALSE /\ nnrun = FALSE
    /\ nrrun = FALSE /\ nipc = "unloaded"

GUnloaded ==
    /\ gregistered = FALSE /\ gmstate = "unloaded" /\ grefs = 0
    /\ gopened = {} /\ gfpos = [u \in LegacyUsers |-> 0]
    /\ grv = [u \in LegacyUsers |-> 0]

\* FasyncEcho with the driver not loaded and the program gone.
FUnloaded ==
    /\ fregistered = FALSE /\ fn = 0 /\ ftpc = "idle" /\ fpending = FALSE
    /\ fhpc = "idle" /\ fmpc = "exit" /\ fsubscribed = FALSE /\ ftag = 0

Demos == {"mutex", "waitqueue", "completion", "atomic", "ktimer", "notifier",
          "list", "hashtable", "legacy", "fasync"}

TypeOK ==
    /\ M!TypeOK /\ W!TypeOK /\ C!TypeOK /\ A!TypeOK /\ K!TypeOK /\ N!TypeOK
    /\ L!TypeOK /\ H!TypeOK /\ G!TypeOK /\ F!TypeOK /\ demo \in Demos

Init ==
    \E d \in Demos :
        /\ IF d = "mutex" THEN M!Init ELSE MUnloaded
        /\ IF d = "waitqueue" THEN W!Init ELSE WUnloaded
        /\ IF d = "completion" THEN C!Init ELSE CUnloaded
        /\ IF d = "atomic" THEN A!Init ELSE AUnloaded
        /\ IF d = "ktimer" THEN K!Init ELSE KUnloaded
        /\ IF d = "notifier" THEN N!Init ELSE NUnloaded
        /\ IF d = "legacy" THEN G!Init ELSE GUnloaded
        /\ IF d = "fasync" THEN F!Init ELSE FUnloaded
        /\ L!Init /\ H!Init /\ demo = d

Next ==
    \/ M!Next /\ UNCHANGED <<wvars, cvars, avars, kvars, nvars, lvars, hvars, gvars, fvars, demo>>
    \/ W!Next /\ UNCHANGED <<mvars, cvars, avars, kvars, nvars, lvars, hvars, gvars, fvars, demo>>
    \/ C!Next /\ UNCHANGED <<mvars, wvars, avars, kvars, nvars, lvars, hvars, gvars, fvars, demo>>
    \/ A!Next /\ UNCHANGED <<mvars, wvars, cvars, kvars, nvars, lvars, hvars, gvars, fvars, demo>>
    \/ K!Next /\ UNCHANGED <<mvars, wvars, cvars, avars, nvars, lvars, hvars, gvars, fvars, demo>>
    \/ N!Next /\ UNCHANGED <<mvars, wvars, cvars, avars, kvars, lvars, hvars, gvars, fvars, demo>>
    \/ demo = "list" /\ L!Next
       /\ UNCHANGED <<mvars, wvars, cvars, avars, kvars, nvars, hvars, gvars, fvars, demo>>
    \/ demo = "hashtable" /\ H!Next
       /\ UNCHANGED <<mvars, wvars, cvars, avars, kvars, nvars, lvars, gvars, fvars, demo>>
    \/ G!Next
       /\ UNCHANGED <<mvars, wvars, cvars, avars, kvars, nvars, lvars, hvars, fvars, demo>>
    \/ F!Next
       /\ UNCHANGED <<mvars, wvars, cvars, avars, kvars, nvars, lvars, hvars, gvars, demo>>

FairSpec ==
    /\ Init /\ [][Next]_vars
    /\ M!Fairness /\ W!Fairness /\ C!Fairness /\ A!Fairness /\ K!Fairness
    /\ N!Fairness /\ F!Fairness

(* mutex.c: no increment of minfo.data is lost between ktimer_init and    *)
(* the handler's mutex_trylock section.                                    *)
MutexNoLostUpdate == M!NoLostUpdate

(* mutex.c: ktimer_init returns although the handler may interrupt it on  *)
(* its own CPU.                                                            *)
MutexInitReturns == M!InitReturns

(* waitqueue.c: insmod returns, woken by the handler or by a signal.      *)
WaitqInitReturns == W!InitReturns

(* completion.c: insmod returns from wait_for_completion whether the      *)
(* timer's complete() comes before or after the wait begins.              *)
CompletionInitReturns == C!InitReturns

(* list.c: data_list stays sorted, largest datum first, with equal data   *)
(* in insertion order, and del_entry unlinks the oldest of a datum.       *)
ListIsStableSort == L!ListIsStableSort

(* hashtable.c: each bucket holds the live entries hashed to it, newest   *)
(* first, and del_node unlinks exactly one entry, the newest of a datum.  *)
BucketsMatchReference == H!BucketsMatchReference

(* chrdev_legacy.c: no open file reaches the methods once rmmod has      *)
(* begun or unregister_chrdev has run (chrdev_fops.owner).                *)
LegacyNoMethodAfterUnload == G!NoMethodAfterUnload

(* chrdev_fasync.c: once subscribed, every byte the driver buffers is     *)
(* eventually echoed, however SIGIOs coalesce.                             *)
FasyncEveryByteEchoed == F!EveryByteEchoed
=============================================================================
