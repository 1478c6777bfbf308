----------------------------- MODULE NetlinkConn -----------------------------
(***************************************************************************)
(* The NETLINK connection: call_usp_nl(), nl_data_ready() and              *)
(* nl_recv_pkg() in raid6cuda.c, and the daemon's loop server_netlink().   *)
(*                                                                         *)
(* The daemon sends "init", receives a job, and sends the job's address    *)
(* back.  A message to the kernel is delivered inside the sender's         *)
(* sendmsg(): nl_data_ready() waits for a receiver (flag 0), leaves the    *)
(* message in skb_global and sets the flag to 1.  The receiver,            *)
(* nl_recv_pkg(), sets the flag to 0 and waits for 1.  The kernel does not *)
(* look at what the first message of a job is, and compares the second     *)
(* with the address it has sent.                                           *)
(*                                                                         *)
(* The daemon copies payloads with strcpy(), so an address is modelled by  *)
(* its bytes: what counts is where they are zero.                          *)
(***************************************************************************)
EXTENDS Marshalling, Sequences

CONSTANTS
  Address,       \* bytes of &actual_snc, in memory order
  StalePids,     \* whether PID may be that of an earlier daemon
  SkbFails,      \* whether nlmsg_new() may fail
  UnicastFails   \* whether netlink_unicast() may fail

ASSUME AddressAssumption == Address \in Seq(Nat) /\ Len(Address) > 1
ASSUME NetlinkAssumption == {StalePids, SkbFails, UnicastFails} \subseteq BOOLEAN

VARIABLES
  stale_pid,          \* PID is not that of the running daemon (fixed)
  nl_receive_flag,
  skb_global,         \* payload of the last message to the kernel
  call_usp_nl_mutex,  \* counting semaphore
  inbox,              \* jobs in the receive queue of the daemon's socket
  msg_server,         \* payload of the message the daemon sends
  buffer,             \* where the daemon keeps the address it has received
  lost                \* history: a job was not sent to the daemon

messageVars == <<stale_pid, skb_global, msg_server, buffer>>
connVars == <<nl_receive_flag, call_usp_nl_mutex, inbox, messageVars, lost>>
vars == <<stubVars, connVars>>

CallerLabels == {"ask", "init_wait", "memcpy", "unicast", "ask_ack", "ack_wait", "up_call"}
DaemonLabels == {"send_init", "recv", "send_ack"}

\* The payloads: the bytes of an address and one more for the terminator.
Payload == Seq(Nat)
Zeros == [i \in 1 .. Len(Address) + 1 |-> 0]
\* "init": a text shorter than an address
InitText == <<9, 0>>

Init ==
  /\ StubInit
  /\ stale_pid \in {FALSE, StalePids}
  /\ nl_receive_flag = 2
  /\ skb_global = Zeros
  /\ call_usp_nl_mutex = 1
  /\ inbox = 0
  /\ msg_server = Zeros
  /\ buffer = Zeros
  /\ lost = FALSE

-----------------------------------------------------------------------------
(* call_usp_nl()                                                            *)

CallerOnly == UNCHANGED <<gen_syndrome_mutex, disks, blockVars, signalVars,
                          parity, dpc, messageVars>>

\* A step of the caller to a label that only moves the given variables.
Step(c, from, to) == At(c, {from}) /\ Goto(c, to) /\ CallerOnly

DownCallUsp(c) ==
  /\ Step(c, "call_usp", "ask")
  /\ call_usp_nl_mutex > 0
  /\ call_usp_nl_mutex' = call_usp_nl_mutex - 1
  /\ UNCHANGED <<actual_snc, nl_receive_flag, inbox, lost>>

\* nl_recv_pkg(), first part: nl_receive_flag = 0 and wake_up_interruptible()
Ask(c) ==
  /\ Step(c, "ask", "init_wait") \/ Step(c, "ask_ack", "ack_wait")
  /\ nl_receive_flag' = 0
  /\ UNCHANGED <<actual_snc, call_usp_nl_mutex, inbox, lost>>

\* The first message is in.  If it is not from the process in PID the
\* function returns, without up().
GotInit(c) ==
  /\ nl_receive_flag = 1
  /\ Step(c, "init_wait", IF stale_pid THEN "kill" ELSE "memcpy")
  /\ lost' = (lost \/ stale_pid)
  /\ UNCHANGED <<actual_snc, nl_receive_flag, call_usp_nl_mutex, inbox>>

\* memcpy(actual_snc, &snc, ...) and the allocation of the message, whose
\* failure makes the function return without up()
Publish(c) ==
  /\ \/ Step(c, "memcpy", "unicast") /\ UNCHANGED lost
     \/ SkbFails /\ Step(c, "memcpy", "kill") /\ lost' = TRUE
  /\ actual_snc' = c
  /\ UNCHANGED <<nl_receive_flag, call_usp_nl_mutex, inbox>>

\* netlink_unicast(); a failure is only logged
Unicast(c) ==
  /\ Step(c, "unicast", "ask_ack")
  /\ \/ inbox' = inbox + 1 /\ UNCHANGED lost
     \/ UnicastFails /\ lost' = TRUE /\ UNCHANGED inbox
  /\ UNCHANGED <<actual_snc, nl_receive_flag, call_usp_nl_mutex>>

IsAddress(payload) == \A i \in DOMAIN Address : payload[i] = Address[i]

\* The second message is in.  If it is not the address that was sent the
\* function returns -EFAULT, without up().
GotAck(c) ==
  /\ nl_receive_flag = 1
  /\ Step(c, "ack_wait", IF IsAddress(skb_global) THEN "up_call" ELSE "kill")
  /\ UNCHANGED <<actual_snc, nl_receive_flag, call_usp_nl_mutex, inbox, lost>>

\* Mutant: the successful return forgets up(), as the other returns do.
UpCallUspMissing(c) ==
  /\ Step(c, "up_call", "kill")
  /\ UNCHANGED <<actual_snc, nl_receive_flag, call_usp_nl_mutex, inbox, lost>>

UpCallUsp(c) ==
  /\ Step(c, "up_call", "kill")
  /\ call_usp_nl_mutex' = call_usp_nl_mutex + 1
  /\ UNCHANGED <<actual_snc, nl_receive_flag, inbox, lost>>

Caller(c) ==
  \/ Stub(c) /\ UNCHANGED connVars
  \/ DownCallUsp(c)
  \/ Ask(c)
  \/ GotInit(c)
  \/ Publish(c)
  \/ Unicast(c)
  \/ GotAck(c)
  \/ UpCallUsp(c)

-----------------------------------------------------------------------------
(* server_netlink()                                                         *)

DaemonOnly == UNCHANGED <<callVars, blockVars, actual_snc, parity, call_usp_nl_mutex,
                          lost>>

\* strcpy(): the bytes of src up to and including its first zero byte
Strcpy(dst, src) ==
  [i \in DOMAIN dst |->
     IF \E j \in DOMAIN src : j < i /\ src[j] = 0 THEN dst[i] ELSE src[i]]

\* while( keep_going ), and add_payload( &msg_server, "init")
LoopTest ==
  /\ dpc = "loop"
  /\ IF keep_going
       THEN dpc' = "send_init" /\ msg_server' = Strcpy(msg_server, InitText)
       ELSE dpc' = "exit" /\ UNCHANGED msg_server
  /\ UNCHANGED <<signalVars, nl_receive_flag, inbox, stale_pid, skb_global, buffer>>
  /\ DaemonOnly

\* Mutant: nl_data_ready() does not wait for a receiver.
DeliverAtOnce(cut) ==
  /\ \/ dpc = "send_init" /\ dpc' = "recv"
     \/ dpc = "send_ack" /\ dpc' = "loop"
  /\ skb_global' = msg_server
  /\ nl_receive_flag' = 1
  /\ LeaveWait(FALSE)
  /\ UNCHANGED <<inbox, stale_pid, msg_server, buffer>>
  /\ DaemonOnly

\* sendmsg() of the daemon: nl_data_ready() waits for a receiver and hands
\* over the message.
Deliver(cut) ==
  /\ \/ dpc = "send_init" /\ dpc' = "recv"
     \/ dpc = "send_ack" /\ dpc' = "loop"
  /\ IF cut THEN nl_receive_flag # 0 /\ pending # {} ELSE nl_receive_flag = 0
  /\ skb_global' = msg_server
  /\ nl_receive_flag' = 1
  /\ LeaveWait(cut)
  /\ UNCHANGED <<inbox, stale_pid, msg_server, buffer>>
  /\ DaemonOnly

\* Mutant: recvmsg() does not block.
ReceiveNoWait ==
  /\ dpc = "recv"
  /\ inbox' = IF inbox > 0 THEN inbox - 1 ELSE 0
  /\ buffer' = Strcpy(buffer, Append(Address, 0))
  /\ dpc' = "get"
  /\ UNCHANGED <<signalVars, nl_receive_flag, stale_pid, skb_global, msg_server>>
  /\ DaemonOnly

\* recvmsg() and get_payload(); a signal handler does not end recvmsg(),
\* which is restarted (signal() installs handlers with SA_RESTART).
Receive ==
  /\ dpc = "recv"
  /\ inbox > 0
  /\ inbox' = inbox - 1
  /\ buffer' = Strcpy(buffer, Append(Address, 0))
  /\ dpc' = "get"
  /\ UNCHANGED <<signalVars, nl_receive_flag, stale_pid, skb_global, msg_server>>
  /\ DaemonOnly

\* add_payload( &msg_server, buffer)
PrepareAck ==
  /\ dpc = "served"
  /\ msg_server' = Strcpy(msg_server, buffer)
  /\ dpc' = "send_ack"
  /\ UNCHANGED <<signalVars, nl_receive_flag, inbox, stale_pid, skb_global, buffer>>
  /\ DaemonOnly

\* The daemon's steps other than the end of a wait by a signal.
Daemon ==
  \/ (Connect \/ Job) /\ UNCHANGED connVars
  \/ LoopTest
  \/ Deliver(FALSE)
  \/ Receive
  \/ PrepareAck

SignalDaemon ==
  /\ \E s \in Signals : Signal(s, dpc \in {"send_init", "send_ack"})
  /\ UNCHANGED connVars

QuietNext == Daemon \/ SignalDaemon \/ \E c \in Callers : Caller(c)
Next == QuietNext \/ Deliver(TRUE)

Spec == Init /\ [][Next]_vars

\* A runnable thread is scheduled eventually, and down() is served in the
\* order of arrival.
CallerFairness(c) ==
  /\ WF_vars(Caller(c) /\ pc[c] # "idle")
  /\ SF_vars(DownGenSyndrome(c) /\ UNCHANGED connVars)

FairSpec == Spec /\ WF_vars(Daemon \/ Deliver(TRUE)) /\ \A c \in Callers : CallerFairness(c)

-----------------------------------------------------------------------------
(* Properties                                                               *)

\* Type invariant of the netlink connection.
TypeOK ==
  /\ StubTypeOK(CallerLabels, DaemonLabels)
  /\ stale_pid \in BOOLEAN
  /\ nl_receive_flag \in {0, 1, 2}
  /\ call_usp_nl_mutex \in Nat
  /\ inbox \in Nat
  /\ lost \in BOOLEAN
  /\ \A m \in {skb_global, msg_server, buffer} :
       m \in Payload /\ Len(m) = Len(Address) + 1

\* Unless a signal has cut a delivery short, the daemon works on one job from
\* its message to its acknowledgement: its caller is waiting, its container
\* is the published one, and nothing else is mapped.
ServesPublished ==
  ~interrupted /\ dpc \in JobLabels \cup {"served", "send_ack"} =>
    \E c \in Callers :
      /\ At(c, {"ask_ack", "ack_wait"})
      /\ actual_snc = c
      /\ mapped \subseteq {c}

\* Unless a signal has cut a delivery short, call_usp_nl() returns
\* successfully only when the parity of that very call has been computed, or
\* when the call was marshalled without disks.
ReturnComputed ==
  \A c \in Callers :
    ~interrupted /\ At(c, {"up_call"}) => c \in parity \/ disks[c] = 0

\* Unless a signal has cut a delivery short, the message that ends the
\* second wait of a call is the acknowledgement of its job, with the address
\* the job was sent with: init and acknowledgement are never mixed up.
AckAccepted ==
  [][\A c \in Callers : At(c, {"ack_wait"}) /\ ~interrupted => pc'[c] # "kill"]_vars

\* Refinement: calls through netlink behave as SyndromeService promises.
CallState ==
  [c \in Callers |->
     IF At(c, {"idle"}) THEN "idle"
     ELSE IF c \in parity THEN "served"
     ELSE IF ~At(c, {"down_gen", "pack"}) /\ disks[c] = 0 THEN "dropped"
     ELSE "pending"]

Service == INSTANCE SyndromeService
  WITH state <- CallState, broken <- interrupted \/ Gone \/ lost

\* The connection implements the service, signals and failures included,
\* until a delivery is cut short, a job cannot be sent (no memory, no
\* unicast, a PID that is not the daemon's), or the daemon has gone.
ImplementsService == Service!Spec
=============================================================================
