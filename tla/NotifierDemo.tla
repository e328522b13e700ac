---------------------------- MODULE NotifierDemo ----------------------------
(***************************************************************************)
(* Chapter05/notifier/notifier.c: module init registers a block on the    *)
(* netdevice notifier chain, then one on the reboot chain; exit           *)
(* unregisters both.  The kernel calls the netdevice handlers under       *)
(* rtnl_lock and the reboot handlers under the chain's rwsem, and each    *)
(* unregister takes that lock, so it waits for a running handler of its   *)
(* chain.  register_netdevice_notifier replays the events of the existing *)
(* devices, so a handler may run before init returns.  Neither register  *)
(* fails here: the replay only fails when a handler returns an error      *)
(* (netdevice_notifier returns NOTIFY_DONE), and register_reboot_notifier *)
(* of a block not yet on the chain returns 0, so init's error paths are   *)
(* never taken.  ninfo.data, which both handlers increment, is only       *)
(* printed and is left out.                                               *)
(***************************************************************************)
EXTENDS Naturals

VARIABLES
    netdev_reg,   \* ninfo.netdevice_nb is on the netdevice chain
    reboot_reg,   \* ninfo.reboot_nb is on the reboot chain
    nrun,         \* netdevice_notifier is running
    rrun,         \* reboot_notifier is running
    ipc           \* where module init / exit is

vars == <<netdev_reg, reboot_reg, nrun, rrun, ipc>>

IPcs == {"load", "reg_reboot", "loaded", "exit_reboot", "unloaded"}

TypeOK ==
    /\ netdev_reg \in BOOLEAN /\ reboot_reg \in BOOLEAN
    /\ nrun \in BOOLEAN /\ rrun \in BOOLEAN /\ ipc \in IPcs

Init ==
    /\ netdev_reg = FALSE /\ reboot_reg = FALSE
    /\ nrun = FALSE /\ rrun = FALSE /\ ipc = "load"

-----------------------------------------------------------------------------
(* notifier_init: register_netdevice_notifier puts the block on the      *)
(* chain.                                                                  *)
notifier_init_netdev ==
    /\ ipc = "load"
    /\ netdev_reg' = TRUE /\ ipc' = "reg_reboot"
    /\ UNCHANGED <<reboot_reg, nrun, rrun>>

(* register_reboot_notifier, and init returns 0.                          *)
notifier_init_reboot ==
    /\ ipc = "reg_reboot"
    /\ reboot_reg' = TRUE /\ ipc' = "loaded"
    /\ UNCHANGED <<netdev_reg, nrun, rrun>>

(* notifier_exit: unregister_netdevice_notifier takes rtnl_lock, so it    *)
(* waits for a running netdevice handler.                                  *)
notifier_exit_netdev ==
    /\ ipc = "loaded" /\ ~nrun
    /\ netdev_reg' = FALSE /\ ipc' = "exit_reboot"
    /\ UNCHANGED <<reboot_reg, nrun, rrun>>


(* unregister_reboot_notifier takes the chain's rwsem for writing, so it  *)
(* waits for a running reboot handler; the module is then freed.          *)
notifier_exit_reboot ==
    /\ ipc = "exit_reboot" /\ ~rrun
    /\ reboot_reg' = FALSE /\ ipc' = "unloaded"
    /\ UNCHANGED <<netdev_reg, nrun, rrun>>

-----------------------------------------------------------------------------
(* A netdevice event (under rtnl_lock, one at a time) calls               *)
(* netdevice_notifier, which prints and returns NOTIFY_DONE.              *)
NetdevEvent ==
    /\ netdev_reg /\ ~nrun
    /\ nrun' = TRUE
    /\ UNCHANGED <<netdev_reg, reboot_reg, rrun, ipc>>

NetdevReturn ==
    /\ nrun
    /\ nrun' = FALSE
    /\ UNCHANGED <<netdev_reg, reboot_reg, rrun, ipc>>

(* A reboot (kernel_restart and the like, one at a time) calls            *)
(* reboot_notifier; it may run while a netdevice event does.              *)
RebootEvent ==
    /\ reboot_reg /\ ~rrun
    /\ rrun' = TRUE
    /\ UNCHANGED <<netdev_reg, reboot_reg, nrun, ipc>>

RebootReturn ==
    /\ rrun
    /\ rrun' = FALSE
    /\ UNCHANGED <<netdev_reg, reboot_reg, nrun, ipc>>

Next ==
    \/ notifier_init_netdev \/ notifier_init_reboot
    \/ notifier_exit_netdev \/ notifier_exit_reboot
    \/ NetdevEvent \/ NetdevReturn \/ RebootEvent \/ RebootReturn

Spec == Init /\ [][Next]_vars

(* insmod runs to its end and a running handler returns; events and rmmod *)
(* come from outside and carry no fairness.                                *)
Fairness ==
    /\ WF_vars(notifier_init_netdev) /\ WF_vars(notifier_init_reboot)
    /\ WF_vars(NetdevReturn) /\ WF_vars(RebootReturn)

FairSpec == Spec /\ Fairness
====
