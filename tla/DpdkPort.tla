------------------------------ MODULE DpdkPort ------------------------------
(***************************************************************************)
(* dpdk_port.cpp: how main() of main.cpp and of feed_handler_v2.cpp brings *)
(* the Ethernet port up before it starts its threads and takes it down     *)
(* after it has joined them.  Every call can fail; rte_exit() then ends    *)
(* the process.                                                            *)
(***************************************************************************)
VARIABLES status,  \* "running", or how the process ended
          mainPc,  \* where main() is
          port     \* external: the state of the Ethernet port

InitPcs == {"eal_init", "count_avail", "info_get", "configure", "rx_pool", "rx_queue",
            "tx_pool", "tx_queue", "dev_start", "link_get"}
ShutdownPcs == {"dev_stop", "dev_close", "cleanup"}

Ports == {"none", "attached", "configured", "queued", "started", "stopped", "closed"}
-----------------------------------------------------------------------------
\* One call into DPDK: main() goes on at `next' with the port in state `to'.
Call(pc, next, to) ==
  /\ mainPc = pc
  /\ \/ mainPc' = next /\ port' = to /\ UNCHANGED status
     \/ status' = "failure" /\ UNCHANGED <<mainPc, port>>

eal_init == Call("eal_init", "count_avail", "attached")

\* With no port rte_exit(); with more than one the first is taken.
discover_port ==
  \/ Call("count_avail", "info_get", port)
  \/ Call("info_get", "configure", port)

port_config == Call("configure", "rx_pool", "configured")

create_rx_pool_q ==
  \/ Call("rx_pool", "rx_queue", port)
  \/ Call("rx_queue", "tx_pool", port)

create_tx_pool == Call("tx_pool", "tx_queue", port)

create_tx_q == Call("tx_queue", "dev_start", "queued")

\* The port runs from rte_eth_dev_start on, three seconds before main() asks
\* for the link; a link that is down is only printed.
start_port(next) ==
  \/ Call("dev_start", "link_get", "started")
  \/ Call("link_get", next, port)

\* dpdk::init; main() goes on at `next'.
init(next) ==
  \/ eal_init \/ discover_port \/ port_config \/ create_rx_pool_q
  \/ create_tx_pool \/ create_tx_q \/ start_port(next)

\* dpdk::shutdown, the last thing main() does.
shutdown ==
  \/ Call("dev_stop", "dev_close", "stopped")
  \/ Call("dev_close", "cleanup", "closed")
  \/ /\ mainPc = "cleanup"
     /\ status' \in {"success", "failure"}
     /\ UNCHANGED <<mainPc, port>>
=============================================================================
