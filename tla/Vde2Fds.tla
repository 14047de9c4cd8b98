------------------------------ MODULE Vde2Fds ------------------------------
(***************************************************************************)
(* The file descriptors behind Vde2Handshake.  Every step of the handshake *)
(* is taken together with what it does to the process's descriptor table,  *)
(* in which the kernel gives out the lowest free number and close frees a  *)
(* number whoever it belongs to.  A vde2_conn comes from calloc, so its    *)
(* data_fd is 0 until vde2_srv_send_request has created the data socket.   *)
(***************************************************************************)
EXTENDS Vde2Handshake

CONSTANTS
  MaxFd,             \* largest descriptor, for model checking
  App, Listener,     \* owners of descriptors that no connection has
  Free               \* owner of a descriptor that is closed

ASSUME FdsAssumption ==
  /\ MaxFd \in Nat /\ MaxFd >= 3
  /\ {App, Listener, Free} \cap Conns = {}
  /\ App # Listener /\ App # Free /\ Listener # Free

VARIABLES
  fds,        \* whose each descriptor is
  ctl_fd,     \* vde2_conn.ctl_fd
  data_fd     \* vde2_conn.data_fd

fdvars == <<fds, ctl_fd, data_fd>>

FdTypeOK ==
  /\ fds \in [0..MaxFd -> Conns \cup {App, Listener, Free}]
  /\ ctl_fd \in [Conns -> 0..MaxFd]
  /\ data_fd \in [Conns -> -1..MaxFd]

(* Mutant: the connection is not cleared when it is allocated. *)
FdInitUncleared ==
  /\ Init
  /\ fds = [f \in 0..MaxFd |-> IF f <= 2 THEN App ELSE Free]
  /\ ctl_fd = [c \in Conns |-> 0]
  /\ data_fd \in [Conns -> 0..MaxFd]

(* Standard input, output and error are open. *)
FdInit ==
  /\ Init
  /\ fds = [f \in 0..MaxFd |-> IF f <= 2 THEN App ELSE Free]
  /\ ctl_fd = [c \in Conns |-> 0]
  /\ data_fd = [c \in Conns |-> 0]

Unused == {f \in 0..MaxFd : fds[f] = Free}

(* close of each descriptor in S, by whoever. *)
Closed(S) == [f \in 0..MaxFd |-> IF f \in S THEN Free ELSE fds[f]]

(* Mutant: the control socket is not closed. *)
OwnedByData(c, d) == {d} \ {-1}

(* What vde2_conn_close closes: each descriptor that is not negative. *)
Owned(c, d) == {ctl_fd[c], d} \ {-1}

(* vde2_listen: a descriptor is kept only by a listen that succeeds. *)
FdListen ==
  /\ vde2_listen
  /\ \/ /\ listening' # listening
        /\ Unused # {}
        /\ fds' = [fds EXCEPT ![Min(Unused)] = Listener]
     \/ listening' = listening /\ UNCHANGED fds
  /\ UNCHANGED <<ctl_fd, data_fd>>

(* vde2_accept *)

FdAccept(c) ==
  /\ Unused # {}
  /\ vde2_accept(c)
  /\ ctl_fd' = [ctl_fd EXCEPT ![c] = Min(Unused)]
  /\ fds' = [fds EXCEPT ![Min(Unused)] = c]
  /\ UNCHANGED data_fd

(* vde2_srv_get_request *)
FdGetRequest(c) ==
  /\ vde2_srv_get_request(c)
  /\ fds' = IF stage'[c] = "closed" THEN Closed(Owned(c, data_fd[c])) ELSE fds
  /\ UNCHANGED <<ctl_fd, data_fd>>

(* vde2_srv_send_request: socket fails, or its descriptor is closed  *)
(* again, or kept.                                                        *)
FdSendRequest(c) ==
  /\ vde2_srv_send_request(c)
  /\ \/ /\ stage'[c] = "closed"
        /\ sun_path' = sun_path
        /\ data_fd' = [data_fd EXCEPT ![c] = -1]
        /\ fds' = Closed(Owned(c, -1))
     \/ /\ Unused # {}
        /\ data_fd' = [data_fd EXCEPT ![c] = Min(Unused)]
        /\ fds' = IF stage'[c] = "closed"
                    THEN Closed(Owned(c, Min(Unused)))
                    ELSE [fds EXCEPT ![Min(Unused)] = c]
  /\ UNCHANGED ctl_fd

(* vde2_conn_close of an established connection *)
FdConnectionEnds(c) ==
  /\ ConnectionEnds(c)
  /\ fds' = Closed(Owned(c, data_fd[c]))
  /\ UNCHANGED <<ctl_fd, data_fd>>

(* conn_manager_connect: vde2_connect opens nothing. *)
FdConnect(c) ==
  /\ conn_manager_connect(c)
  /\ UNCHANGED fdvars

(* The application opens a file. *)
AppOpens ==
  /\ Unused # {}
  /\ fds' = [fds EXCEPT ![Min(Unused)] = App]
  /\ UNCHANGED <<ctl_fd, data_fd, vars>>

FdNext ==
  \/ FdListen
  \/ AppOpens
  \/ \E c \in Conns :
       \/ FdAccept(c)
       \/ FdGetRequest(c)
       \/ FdSendRequest(c)
       \/ FdConnectionEnds(c)
       \/ FdConnect(c)

FdSpec == FdInit /\ [][FdNext]_<<vars, fdvars>>

-----------------------------------------------------------------------------
Sockets(c) == {ctl_fd[c]} \cup (IF stage[c] = "up" THEN {data_fd[c]} ELSE {})
Alive(c) == stage[c] \in HalfOpen \cup {"up"}

(* A connection that has been closed, on whichever path, has left no       *)
(* descriptor open.                                                        *)
NoFdLeak == \A f \in 0..MaxFd : fds[f] \in Conns => Alive(fds[f]) /\ f \in Sockets(fds[f])

(* What a connection opened stays its own as long as it lives, except for  *)
(* descriptor 0, which the close of a client that never completed its      *)
(* request takes from whoever has it.                                      *)
OnlyZeroIsTaken ==
  \A c \in Conns : Alive(c) => \A f \in Sockets(c) \ {0} : fds[f] = c
=============================================================================
