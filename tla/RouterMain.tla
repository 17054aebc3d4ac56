----------------------------- MODULE RouterMain ----------------------------
(* The life of the unikernel (click.cc): main prepares the network devices    *)
(* and starts the router thread; the thread reads a configuration,            *)
(* initialises the router and runs the driver until it is asked to stop; main *)
(* returns when the thread has ended. The router has an InfiniteSource2,      *)
(* whose STOP argument is what asks for the stop.                             *)
EXTENDS InfiniteSource2

CONSTANTS
  NDev,              \* number of network devices
  MaxUnlimited,      \* bound: where a source without limit is stopped
  NoMode             \* no configuration read yet

ASSUME RouterAssumption == NDev \in Nat /\ MaxUnlimited \in Nat

VARIABLES
  main,              \* place in main
  dev,               \* the device early init looks at next
  netdev,            \* state of each device
  thread,            \* place in router_thread
  config,            \* where the configuration came from
  f_stop,            \* router_list[0].f_stop
  exitCode           \* of the unikernel, once it has ended

mainVars == <<main, dev, netdev, thread, config, f_stop, exitCode>>
routerVars == <<sourceVars, mainVars>>

RouterInit ==
  /\ SourceInit
  /\ main = "early_init" /\ dev = 0
  /\ netdev \in [0 .. NDev - 1 -> {"absent", "unprobed", "unconfigured", "running"}]
  /\ thread = "none" /\ config = NoMode
  /\ f_stop = TRUE                          \* main sets it for every router
  /\ exitCode = NoMode

\* uk_netdev_early_init, one device: what is absent, in use or cannot be probed
\* is passed over; a device that cannot be configured ends main.
uk_netdev_early_init ==
  /\ main = "early_init" /\ dev < NDev
  /\ \/ /\ netdev[dev] \in {"absent", "running"}
        /\ dev' = dev + 1
        /\ UNCHANGED <<netdev, main, exitCode>>
     \/ /\ netdev[dev] = "unprobed"         \* uk_netdev_probe fails
        /\ dev' = dev + 1
        /\ UNCHANGED <<netdev, main, exitCode>>
     \/ /\ netdev[dev] \in {"unprobed", "unconfigured"}
        /\ netdev' = [netdev EXCEPT ![dev] = "configured"]
        /\ dev' = dev + 1
        /\ UNCHANGED <<main, exitCode>>
     \/ /\ netdev[dev] \in {"unprobed", "unconfigured"}
        /\ main' = "returned" /\ exitCode' = "EINVAL"
        /\ UNCHANGED <<netdev, dev>>
  /\ UNCHANGED <<sourceVars, thread, config, f_stop>>

\* make_macaddr_preamble, then the thread is created.
create_router_thread ==
  /\ main = "early_init" /\ dev = NDev
  /\ main' = "waiting" /\ thread' = "start"
  /\ UNCHANGED <<sourceVars, dev, netdev, config, f_stop, exitCode>>

\* get_config: a file, else the initial ram disk, else the built-in text.
get_config ==
  /\ thread = "start"
  /\ \E file, initrd \in BOOLEAN :
       config' = IF file THEN "/config.click" ELSE IF initrd THEN "initrd0" ELSE "CONFIGSTRING"
  /\ thread' = "initialize"
  /\ UNCHANGED <<sourceVars, main, dev, netdev, f_stop, exitCode>>

\* initialize fails: exit(1) ends the unikernel.
router_init_failed ==
  /\ thread = "initialize"
  /\ thread' = "exited" /\ main' = "returned" /\ exitCode' = 1 /\ f_stop' = TRUE
  /\ UNCHANGED <<sourceVars, dev, netdev, config>>

router_initialized ==
  /\ thread = "initialize"
  /\ thread' = "driver"
  /\ UNCHANGED <<sourceVars, main, dev, netdev, config, f_stop, exitCode>>

\* A turn of the driver loop (external): it runs a task that is scheduled.
driver_turn ==
  /\ thread = "driver" /\ ~stop
  /\ Limited \/ _count < MaxUnlimited
  /\ run_task \/ ToDevice_run_task
  /\ UNCHANGED mainVars

\* Others take packets out of the queue and call handlers meanwhile.
Surroundings ==
  /\ thread = "driver" /\ ~stop
  /\ \/ Dequeue
     \/ \E param \in {"limit", "burst", "active", "reset"} : change_param(param)
     \/ configure
  /\ UNCHANGED mainVars

\* The driver returns once it is asked to stop: unuse, f_stop, end of the thread.
driver_returns ==
  /\ thread = "driver" /\ stop
  /\ thread' = "exited" /\ f_stop' = TRUE
  /\ UNCHANGED <<sourceVars, main, dev, netdev, config, exitCode>>

main_returns ==
  /\ main = "waiting" /\ thread = "exited"
  /\ main' = "returned" /\ exitCode' = 0
  /\ UNCHANGED <<sourceVars, dev, netdev, thread, config, f_stop>>

RouterNext ==
  \/ uk_netdev_early_init \/ create_router_thread
  \/ get_config \/ router_init_failed \/ router_initialized
  \/ driver_turn \/ Surroundings \/ driver_returns \/ main_returns

\* The scheduler is cooperative and every thread yields: each step that main or
\* the router thread can take is taken in the end, and so is a packet out of the
\* queue. Handlers are called or not.
RouterFairness ==
  /\ WF_routerVars(uk_netdev_early_init) /\ WF_routerVars(create_router_thread)
  /\ WF_routerVars(get_config) /\ WF_routerVars(router_init_failed \/ router_initialized)
  /\ WF_routerVars(driver_turn) /\ WF_routerVars(driver_returns) /\ WF_routerVars(main_returns)
  /\ WF_routerVars(thread = "driver" /\ ~stop /\ Dequeue /\ UNCHANGED mainVars)

RouterSpec == RouterInit /\ [][RouterNext]_routerVars /\ RouterFairness

-----------------------------------------------------------------------------
\* "Stops sending after LIMIT packets are generated" (infinitesource2.hh): since
\* the counter was last reset no more packets than the highest limit in force
\* since then have left, in bursts or by pulling.
LimitKept == promised >= 0 => sent <= promised

\* "The InfiniteSource2 will then generate another LIMIT packets (if it is
\* active)": a running source that stays active and below its limit does not
\* fall asleep for ever, whatever was switched off and on, filled up or reset
\* before. Excepted is a source whose task had ended when it was reconfigured.
\* One that END_CALL resets reaches its limit within one run of ToDevice.
KeepsGoing ==
  []<>(\/ thread # "driver" \/ stop
       \/ ~_active \/ silenced
       \/ ~Limited \/ _count >= _limit
       \/ mode = "pull" /\ _end_h = "reset" /\ transmitted > 0)

\* STOP: "stop the driver once LIMIT packets are sent" (infinitesource2.hh). The
\* last packet leads to the end of driver, router thread and main unless a
\* handler intervenes, also after a reconfiguration that was refused. Excepted
\* is a STOP given by a reconfiguration that succeeded: nobody readies its
\* HandlerCall, and the router goes on.
StopEndsRouter == (reached /\ _end_h = "stop" /\ _active) ~> (~reached \/ main = "returned")
=============================================================================
