----------------------------- MODULE SocketSetup -----------------------------
(***************************************************************************)
(* How main() of mdp_v3.cpp, udp_client_v1.cpp and udp_client_v2.cpp gets  *)
(* its datagram socket before it starts the threads.  The publisher        *)
(* connects the socket, the clients bind it.  A call that fails is         *)
(* answered by giving back what is held and leaving main(); the results of *)
(* setsockopt() are not looked at.                                         *)
(***************************************************************************)
VARIABLES status,   \* "running", or how the process ended
          mainPc,   \* where main() is
          socket,   \* external: "none", "open", ..., "closed"
          addrinfo  \* external: whether main() holds the list in `res'

SetupPcs == {"getaddrinfo", "socket", "attach", "freeaddrinfo"}

SetupInit ==
  /\ mainPc = "getaddrinfo"
  /\ socket = "none" /\ addrinfo = FALSE
-----------------------------------------------------------------------------
getaddrinfo ==
  /\ mainPc = "getaddrinfo"
  /\ \/ mainPc' = "socket" /\ addrinfo' = TRUE /\ UNCHANGED status
     \/ status' = "failure" /\ UNCHANGED <<mainPc, addrinfo>>
  /\ UNCHANGED socket

create_socket ==
  /\ mainPc = "socket"
  /\ \/ mainPc' = "attach" /\ socket' = "open" /\ UNCHANGED <<status, addrinfo>>
     \/ addrinfo' = FALSE /\ status' = "failure" /\ UNCHANGED <<mainPc, socket>>

\* Mutation: the answer to a failed socket(), which holds nothing to close.
attach_leaks ==
  /\ mainPc = "attach"
  /\ \/ mainPc' = "freeaddrinfo" /\ UNCHANGED <<status, socket, addrinfo>>
     \/ /\ addrinfo' = FALSE
        /\ status' = "failure" /\ UNCHANGED <<mainPc, socket>>

\* bind() or connect()
attach ==
  /\ mainPc = "attach"
  /\ \/ mainPc' = "freeaddrinfo" /\ UNCHANGED <<status, socket, addrinfo>>
     \/ /\ addrinfo' = FALSE /\ socket' = "closed"
        /\ status' = "failure" /\ UNCHANGED mainPc

freeaddrinfo(next) ==
  /\ mainPc = "freeaddrinfo"
  /\ addrinfo' = FALSE
  /\ mainPc' = next
  /\ UNCHANGED <<status, socket>>

\* After that main() goes on at `next'.
setup(next) == getaddrinfo \/ create_socket \/ attach \/ freeaddrinfo(next)
-----------------------------------------------------------------------------
\* Every way out of main() gives back the socket and the address list: each
\* failure during the set-up, and the end after a signal.  (A thread that
\* cannot be pinned ends the process from elsewhere.)
SetupReleases ==
  status = "success" \/ (status = "failure" /\ mainPc \in SetupPcs) =>
    ~addrinfo /\ socket \in {"none", "closed"}

\* Why: what main() holds depends on where it is, and on whether it has given
\* up.  A part of the inductive invariants of the programs.
SetupHolds ==
  /\ mainPc \notin {"socket", "attach", "freeaddrinfo"} => ~addrinfo
  /\ mainPc \in {"getaddrinfo", "socket"} => socket = "none"
  /\ status # "running" /\ mainPc \in {"socket", "attach", "freeaddrinfo"} =>
       ~addrinfo /\ socket \in {"none", "closed"}
  /\ status = "success" => mainPc = "close" /\ socket = "closed"
=============================================================================
