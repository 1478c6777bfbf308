-------------------------- MODULE NetlinkConnProofs --------------------------
(***************************************************************************)
(* Proofs about the netlink connection, for any set of callers, any number *)
(* of disks, any signals and failures, lost messages and a stale PID.      *)
(*                                                                         *)
(* Init and acknowledgement go through one flag and one skb_global.  Apart *)
(* from types and ownership, as for the other connections, the invariant   *)
(* says where the two sides can be at a time: between the init and the     *)
(* acknowledgement of a job the daemon is never at another send, so the    *)
(* receiver of one is never handed the other.  A last layer follows the    *)
(* bytes of the address through strcpy().                                  *)
(***************************************************************************)
EXTENDS NetlinkConn, SequenceTheorems, TLAPS

-----------------------------------------------------------------------------
(* The inductive invariant                                                  *)

\* What the labels of the daemon say about its own variables.
DaemonInv ==
  /\ dpc \notin {"map", "compute", "unget"} => hdr = 0 /\ got = 0 /\ mapped = {}
  /\ dpc \in {"compute", "unget"} => got = hdr
  /\ got = 0 <=> mapped = {}

\* The control part of TypeOK, without the payloads.
ControlInv ==
  /\ StubTypeOK(CallerLabels, DaemonLabels)
  /\ stale_pid \in BOOLEAN
  /\ nl_receive_flag \in {0, 1, 2}
  /\ call_usp_nl_mutex \in Nat
  /\ inbox \in Nat
  /\ lost \in BOOLEAN
  /\ DaemonInv

InGen(c) == At(c, {"pack", "call_usp", "kill", "up_gen"} \cup CallerLabels)

\* One caller at a time is between down() and up() of gen_syndrome_mutex.
MutexInv ==
  /\ gen_syndrome_mutex \in {0, 1}
  /\ dpc = "conf" \/ gen_syndrome_mutex = 1 => \A c \in Callers : ~InGen(c)
  /\ dpc = "conf" => gen_syndrome_mutex = 0
  /\ \A c, d \in Callers : InGen(c) /\ InGen(d) => c = d

\* The published container stays that of the caller that has published it.
PublishedInv ==
  \A c \in Callers : At(c, {"unicast", "ask_ack", "ack_wait", "up_call"}) => actual_snc = c

\* The flag is 0 only for a caller that waits in nl_recv_pkg(), and not 2
\* once one does.
FlagInv ==
  /\ nl_receive_flag = 0 => \E c \in Callers : At(c, {"init_wait", "ack_wait"})
  /\ \A c \in Callers : At(c, {"init_wait", "ack_wait"}) => nl_receive_flag # 2

OwnerInv == MutexInv /\ PublishedInv /\ FlagInv

\* The caller has taken the init, and sent no job yet.
Begun(c) == At(c, {"memcpy", "unicast"}) \/ (At(c, {"init_wait"}) /\ nl_receive_flag = 1)
\* The caller has sent its job, and there is no acknowledgement yet.
Awaits(c) == At(c, {"ask_ack"}) \/ (At(c, {"ack_wait"}) /\ nl_receive_flag = 0)
Computed(c) == c \in parity \/ disks[c] = 0
Working == JobLabels \cup {"served", "send_ack"}
Finished == dpc \in {"unget", "served", "send_ack"}

\* As long as no delivery was cut short: where both sides are.  A daemon that
\* could send an init meets no caller that waits for its acknowledgement.
PlaceInv ==
  /\ inbox \in {0, 1}
  /\ inbox = 1 => dpc = "recv"
  /\ inbox = 1 \/ dpc \in Working => \E c \in Callers : Awaits(c)
  /\ \A c \in Callers : Begun(c) => dpc = "recv"
  /\ \A c \in Callers : Awaits(c) => dpc \in Working \cup {"recv", "dead"}
\* ... and how far the job is.
ProgressInv ==
  /\ \A c \in Callers : Awaits(c) =>
       /\ mapped \subseteq {c}
       /\ dpc \in {"map", "compute", "unget"} => hdr = disks[c]
       /\ c \in parity => Finished
       /\ Finished => Computed(c)
  /\ \A c \in Callers : At(c, {"ack_wait"}) /\ nl_receive_flag = 1 => Computed(c)
  /\ \A c \in Callers : At(c, {"up_call"}) => Computed(c)
  /\ \A c \in Callers : At(c, {"kill", "up_gen"}) => Computed(c) \/ lost
  /\ \A c \in Callers :
       At(c, {"down_gen", "pack", "call_usp", "ask", "init_wait", "memcpy", "unicast"}) =>
         c \notin parity
JobInv == ~interrupted => PlaceInv /\ ProgressInv

\* The bytes that travel: the address and its terminator.
Terminated == Append(Address, 0)
Bytes == 1 .. Len(Address) + 1
Holds(payload) == \A i \in Bytes : payload[i] = Terminated[i]

\* The address has no zero byte before its last byte that is not zero:
\* strcpy() copies all that counts.
PlainBytes ==
  \A i, j \in DOMAIN Address : i < j /\ Address[j] # 0 => Address[i] # 0

PayloadType ==
  \A m \in {skb_global, msg_server, buffer} : m \in [Bytes -> Nat]

\* Where the address ends, buffer and message are zero as well (a message
\* with "init" in front); while a job is done the buffer holds the address,
\* when it is sent back the message does, and when it is taken skb_global.
TextInv ==
  /\ \A i \in Bytes : Terminated[i] = 0 => buffer[i] = 0 /\ (i > 1 => msg_server[i] = 0)
  /\ dpc \in JobLabels \cup {"served"} => Holds(buffer)
  /\ dpc = "send_ack" => Holds(msg_server)
  /\ ~interrupted =>
       \A c \in Callers : At(c, {"ack_wait"}) /\ nl_receive_flag = 1 => Holds(skb_global)

IndInv == ControlInv /\ OwnerInv /\ JobInv /\ PayloadType

-----------------------------------------------------------------------------
(* Every step preserves it                                                  *)

\* keep_going stays a truth value whatever signals are handled.
LEMMA HandledType ==
  ASSUME keep_going \in BOOLEAN, NEW S PROVE Handled(S) \in BOOLEAN
BY Zenon DEF Handled

\* No step of call_usp_nl(), nl_data_ready(), server_netlink() or a signal
\* handler leaves the types or separates the daemon's mappings from its place
\* in the loop.
LEMMA ControlStep == ControlInv /\ [Next]_vars => ControlInv'
<1> SUFFICES ASSUME ControlInv, [Next]_vars PROVE ControlInv'
  OBVIOUS
<1> USE CallersAssumption, DisksAssumption, SignalsAssumption
<1> USE DEF ControlInv, StubTypeOK, DaemonInv, JobLabels, CallerLabels,
            DaemonLabels, At, Goto, callVars, blockVars, signalVars, messageVars
<1>1. ASSUME NEW c \in Callers, RaidCall(c), UNCHANGED connVars
      PROVE  ControlInv'
  BY <1>1 DEF RaidCall, connVars
<1>2. ASSUME NEW c \in Callers, DownGenSyndrome(c), UNCHANGED connVars
      PROVE  ControlInv'
  BY <1>2 DEF DownGenSyndrome, connVars
<1>3. ASSUME NEW c \in Callers, PackSmc(c), UNCHANGED connVars
      PROVE  ControlInv'
  BY <1>3 DEF PackSmc, connVars
<1>4. ASSUME NEW c \in Callers, KillSmc(c), UNCHANGED connVars
      PROVE  ControlInv'
  BY <1>4 DEF KillSmc, connVars, Freed
<1>5. ASSUME NEW c \in Callers, UpGenSyndrome(c), UNCHANGED connVars
      PROVE  ControlInv'
  BY <1>5 DEF UpGenSyndrome, connVars
<1>6. ASSUME NEW c \in Callers, DownCallUsp(c)
      PROVE  ControlInv'
  BY <1>6 DEF DownCallUsp, Step, CallerOnly, messageVars
<1>7. ASSUME NEW c \in Callers, Ask(c)
      PROVE  ControlInv'
  <2>1. CASE Step(c, "ask", "init_wait")
    BY <1>7, <2>1 DEF Ask, Step, CallerOnly
  <2>2. CASE Step(c, "ask_ack", "ack_wait")
    BY <1>7, <2>2 DEF Ask, Step, CallerOnly
  <2> QED
    BY <1>7, <2>1, <2>2 DEF Ask
<1>8. ASSUME NEW c \in Callers, GotInit(c)
      PROVE  ControlInv'
  BY <1>8 DEF GotInit, Step, CallerOnly, messageVars
<1>9. ASSUME NEW c \in Callers, Publish(c)
      PROVE  ControlInv'
  <2>1. CASE Step(c, "memcpy", "unicast") /\ UNCHANGED lost
    BY <1>9, <2>1 DEF Publish, Step, CallerOnly
  <2>2. CASE Step(c, "memcpy", "kill") /\ lost' = TRUE
    BY <1>9, <2>2 DEF Publish, Step, CallerOnly
  <2> QED
    BY <1>9, <2>1, <2>2 DEF Publish
<1>10. ASSUME NEW c \in Callers, Unicast(c)
      PROVE  ControlInv'
  <2>1. lost' \in BOOLEAN
    BY <1>10, Zenon DEF Unicast
  <2> QED
    BY <1>10, <2>1 DEF Unicast, Step, CallerOnly, messageVars
<1>11. ASSUME NEW c \in Callers, GotAck(c)
      PROVE  ControlInv'
  BY <1>11 DEF GotAck, Step, CallerOnly, messageVars
<1>12. ASSUME NEW c \in Callers, UpCallUsp(c)
      PROVE  ControlInv'
  BY <1>12 DEF UpCallUsp, Step, CallerOnly, messageVars
<1>13. CASE Connect /\ UNCHANGED connVars
  BY <1>13 DEF Connect, connVars
<1>14. CASE ReadHeader /\ UNCHANGED connVars
  BY <1>14 DEF ReadHeader, connVars
<1>15. CASE MapDisk /\ UNCHANGED connVars
  BY <1>15 DEF MapDisk, connVars, Block
<1>16. CASE MapFails /\ UNCHANGED connVars
  BY <1>16 DEF MapFails, connVars
<1>17. CASE MapDone /\ UNCHANGED connVars
  BY <1>17 DEF MapDone, connVars
<1>18. CASE GenSyndrome /\ UNCHANGED connVars
  BY <1>18 DEF GenSyndrome, connVars
<1>19. CASE UngetBlock /\ UNCHANGED connVars
  BY <1>19 DEF UngetBlock, connVars
<1>20. CASE LoopTest
  BY <1>20 DEF LoopTest, DaemonOnly
<1>21. CASE Receive
  BY <1>21 DEF Receive, DaemonOnly
<1>22. CASE PrepareAck
  BY <1>22 DEF PrepareAck, DaemonOnly
<1>23. ASSUME NEW cut \in BOOLEAN, Deliver(cut)
      PROVE  ControlInv'
  <2>1. keep_going' \in BOOLEAN /\ interrupted' \in BOOLEAN
    BY <1>23, HandledType, Zenon DEF Deliver, LeaveWait
  <2> QED
    BY <1>23, <2>1 DEF Deliver, LeaveWait, DaemonOnly
<1>24. ASSUME NEW s \in Signals, Signal(s, dpc \in {"send_init", "send_ack"}), UNCHANGED connVars
      PROVE  ControlInv'
  <2>1. keep_going' \in BOOLEAN
    BY <1>24, HandledType, Zenon DEF Signal
  <2>2. pending' \subseteq Signals
    <3>1. pending' = pending \/ pending' = pending \cup {s}
      BY <1>24, Zenon DEF Signal
    <3> QED
      BY <3>1
  <2>3. UNCHANGED <<callVars, blockVars, interrupted, actual_snc, parity, dpc, connVars>>
    BY <1>24 DEF Signal
  <2> QED
    BY <2>1, <2>2, <2>3 DEF connVars
<1>25. CASE UNCHANGED vars
  BY <1>25 DEF vars, stubVars, connVars
<1> QED
  BY <1>1, <1>2, <1>3, <1>4, <1>5, <1>6, <1>7, <1>8, <1>9, <1>10, <1>11, <1>12, <1>13,
     <1>14, <1>15, <1>16, <1>17, <1>18, <1>19, <1>20, <1>21, <1>22, <1>23, <1>24, <1>25
  DEF Next, QuietNext, Caller, Stub, Daemon, Job, SignalDaemon

\* No step lets a second caller into raid6_cuda_gen_syndrome(), overwrites
\* the published container, or leaves the flag at 0 without a receiver.
LEMMA OwnerStep == ControlInv /\ OwnerInv /\ [Next]_vars => OwnerInv'
<1> SUFFICES ASSUME ControlInv, OwnerInv, [Next]_vars PROVE OwnerInv'
  OBVIOUS
<1> USE CallersAssumption
<1> USE DEF ControlInv, StubTypeOK, JobLabels, DaemonLabels, OwnerInv,
            MutexInv, PublishedInv, FlagInv, InGen, CallerLabels,
            At, Goto, callVars, blockVars, signalVars, messageVars
<1>1. ASSUME NEW c \in Callers, RaidCall(c), UNCHANGED connVars
      PROVE  OwnerInv'
  BY <1>1 DEF RaidCall, connVars
<1>2. ASSUME NEW c \in Callers, DownGenSyndrome(c), UNCHANGED connVars
      PROVE  OwnerInv'
  BY <1>2 DEF DownGenSyndrome, connVars
<1>3. ASSUME NEW c \in Callers, PackSmc(c), UNCHANGED connVars
      PROVE  OwnerInv'
  BY <1>3 DEF PackSmc, connVars
<1>4. ASSUME NEW c \in Callers, KillSmc(c), UNCHANGED connVars
      PROVE  OwnerInv'
  BY <1>4 DEF KillSmc, connVars, Freed
<1>5. ASSUME NEW c \in Callers, UpGenSyndrome(c), UNCHANGED connVars
      PROVE  OwnerInv'
  BY <1>5 DEF UpGenSyndrome, connVars
<1>6. ASSUME NEW c \in Callers, DownCallUsp(c)
      PROVE  OwnerInv'
  BY <1>6 DEF DownCallUsp, Step, CallerOnly, messageVars
<1>7. ASSUME NEW c \in Callers, Ask(c)
      PROVE  OwnerInv'
  BY <1>7 DEF Ask, Step, CallerOnly, messageVars
<1>8. ASSUME NEW c \in Callers, GotInit(c)
      PROVE  OwnerInv'
  BY <1>8 DEF GotInit, Step, CallerOnly, messageVars
<1>9. ASSUME NEW c \in Callers, Publish(c)
      PROVE  OwnerInv'
  BY <1>9 DEF Publish, Step, CallerOnly, messageVars
<1>10. ASSUME NEW c \in Callers, Unicast(c)
      PROVE  OwnerInv'
  BY <1>10 DEF Unicast, Step, CallerOnly, messageVars
<1>11. ASSUME NEW c \in Callers, GotAck(c)
      PROVE  OwnerInv'
  BY <1>11 DEF GotAck, Step, CallerOnly, messageVars
<1>12. ASSUME NEW c \in Callers, UpCallUsp(c)
      PROVE  OwnerInv'
  BY <1>12 DEF UpCallUsp, Step, CallerOnly, messageVars
<1>13. CASE Connect /\ UNCHANGED connVars
  BY <1>13 DEF Connect, connVars
<1>14. CASE ReadHeader /\ UNCHANGED connVars
  BY <1>14 DEF ReadHeader, connVars
<1>15. CASE MapDisk /\ UNCHANGED connVars
  BY <1>15 DEF MapDisk, connVars, Block
<1>16. CASE MapFails /\ UNCHANGED connVars
  BY <1>16 DEF MapFails, connVars
<1>17. CASE MapDone /\ UNCHANGED connVars
  BY <1>17 DEF MapDone, connVars
<1>18. CASE GenSyndrome /\ UNCHANGED connVars
  BY <1>18 DEF GenSyndrome, connVars
<1>19. CASE UngetBlock /\ UNCHANGED connVars
  BY <1>19 DEF UngetBlock, connVars
<1>20. CASE LoopTest
  BY <1>20 DEF LoopTest, DaemonOnly
<1>21. CASE Receive
  BY <1>21 DEF Receive, DaemonOnly
<1>22. CASE PrepareAck
  BY <1>22 DEF PrepareAck, DaemonOnly
<1>23. ASSUME NEW cut \in BOOLEAN, Deliver(cut)
      PROVE  OwnerInv'
  BY <1>23 DEF Deliver, LeaveWait, DaemonOnly
<1>24. ASSUME NEW s \in Signals, Signal(s, dpc \in {"send_init", "send_ack"}), UNCHANGED connVars
      PROVE  OwnerInv'
  BY <1>24 DEF Signal, connVars
<1>25. CASE UNCHANGED vars
  BY <1>25 DEF vars, stubVars, connVars
<1> QED
  BY <1>1, <1>2, <1>3, <1>4, <1>5, <1>6, <1>7, <1>8, <1>9, <1>10, <1>11, <1>12, <1>13,
     <1>14, <1>15, <1>16, <1>17, <1>18, <1>19, <1>20, <1>21, <1>22, <1>23, <1>24, <1>25
  DEF Next, QuietNext, Caller, Stub, Daemon, Job, SignalDaemon

\* Until a signal cuts a delivery short, no init is delivered to a caller that
\* waits for its acknowledgement, and no job is acknowledged that was not
\* computed.
LEMMA JobStep == ControlInv /\ OwnerInv /\ JobInv /\ [Next]_vars => JobInv'
<1> SUFFICES ASSUME ControlInv, DaemonInv', OwnerInv, JobInv, [Next]_vars PROVE JobInv'
  BY ControlStep DEF ControlInv
<1> USE CallersAssumption, DisksAssumption
<1> USE DEF ControlInv, StubTypeOK, DaemonInv, JobLabels, DaemonLabels,
            OwnerInv, MutexInv, PublishedInv, FlagInv, InGen, CallerLabels,
            JobInv, PlaceInv, ProgressInv, Begun, Awaits, Working, Finished, Computed,
            At, Goto, callVars, blockVars, signalVars, messageVars
<1>1. ASSUME NEW c \in Callers, RaidCall(c), UNCHANGED connVars
      PROVE  JobInv'
  BY <1>1 DEF RaidCall, connVars
<1>2. ASSUME NEW c \in Callers, DownGenSyndrome(c), UNCHANGED connVars
      PROVE  JobInv'
  BY <1>2 DEF DownGenSyndrome, connVars
<1>3. ASSUME NEW c \in Callers, PackSmc(c), UNCHANGED connVars
      PROVE  JobInv'
  BY <1>3 DEF PackSmc, connVars
<1>4. ASSUME NEW c \in Callers, KillSmc(c), UNCHANGED connVars
      PROVE  JobInv'
  BY <1>4 DEF KillSmc, connVars, Freed
<1>5. ASSUME NEW c \in Callers, UpGenSyndrome(c), UNCHANGED connVars
      PROVE  JobInv'
  BY <1>5 DEF UpGenSyndrome, connVars
<1>6. ASSUME NEW c \in Callers, DownCallUsp(c)
      PROVE  JobInv'
  BY <1>6 DEF DownCallUsp, Step, CallerOnly, messageVars
<1>7. ASSUME NEW c \in Callers, Ask(c)
      PROVE  JobInv'
  BY <1>7 DEF Ask, Step, CallerOnly, messageVars
<1>8. ASSUME NEW c \in Callers, GotInit(c)
      PROVE  JobInv'
  BY <1>8 DEF GotInit, Step, CallerOnly, messageVars
<1>9. ASSUME NEW c \in Callers, Publish(c)
      PROVE  JobInv'
  BY <1>9 DEF Publish, Step, CallerOnly, messageVars
<1>10. ASSUME NEW c \in Callers, Unicast(c)
      PROVE  JobInv'
  BY <1>10 DEF Unicast, Step, CallerOnly, messageVars
<1>11. ASSUME NEW c \in Callers, GotAck(c)
      PROVE  JobInv'
  BY <1>11 DEF GotAck, Step, CallerOnly, messageVars
<1>12. ASSUME NEW c \in Callers, UpCallUsp(c)
      PROVE  JobInv'
  BY <1>12 DEF UpCallUsp, Step, CallerOnly, messageVars
<1>13. CASE Connect /\ UNCHANGED connVars
  BY <1>13 DEF Connect, connVars
<1>14. CASE ReadHeader /\ UNCHANGED connVars
  BY <1>14 DEF ReadHeader, connVars
<1>15. CASE MapDisk /\ UNCHANGED connVars
  BY <1>15 DEF MapDisk, connVars, Block
<1>16. CASE MapFails /\ UNCHANGED connVars
  BY <1>16 DEF MapFails, connVars
<1>17. CASE MapDone /\ UNCHANGED connVars
  BY <1>17 DEF MapDone, connVars
<1>18. CASE GenSyndrome /\ UNCHANGED connVars
  BY <1>18 DEF GenSyndrome, connVars
<1>19. CASE UngetBlock /\ UNCHANGED connVars
  BY <1>19 DEF UngetBlock, connVars
<1>20. CASE LoopTest
  BY <1>20 DEF LoopTest, DaemonOnly
<1>21. CASE Receive
  BY <1>21 DEF Receive, DaemonOnly
<1>22. CASE PrepareAck
  BY <1>22 DEF PrepareAck, DaemonOnly
<1>23. ASSUME NEW cut \in BOOLEAN, Deliver(cut)
      PROVE  JobInv'
  BY <1>23 DEF Deliver, LeaveWait, DaemonOnly
<1>24. ASSUME NEW s \in Signals, Signal(s, dpc \in {"send_init", "send_ack"}), UNCHANGED connVars
      PROVE  JobInv'
  BY <1>24 DEF Signal, connVars
<1>25. CASE UNCHANGED vars
  BY <1>25 DEF vars, stubVars, connVars
<1> QED
  BY <1>1, <1>2, <1>3, <1>4, <1>5, <1>6, <1>7, <1>8, <1>9, <1>10, <1>11, <1>12, <1>13,
     <1>14, <1>15, <1>16, <1>17, <1>18, <1>19, <1>20, <1>21, <1>22, <1>23, <1>24, <1>25
  DEF Next, QuietNext, Caller, Stub, Daemon, Job, SignalDaemon

-----------------------------------------------------------------------------
(* The bytes                                                                *)

\* The bytes of the address, and the zero byte behind them.
LEMMA TerminatedBytes ==
  /\ Terminated \in [Bytes -> Nat]
  /\ \A i \in DOMAIN Address : Terminated[i] = Address[i]
  /\ Terminated[Len(Address) + 1] = 0
  /\ DOMAIN Address = 1 .. Len(Address) /\ Len(Address) \in Nat /\ Len(Address) > 1
<1>1. DOMAIN Address = 1 .. Len(Address) /\ Len(Address) \in Nat /\ Len(Address) > 1
  BY AddressAssumption, LenProperties
<1>2. /\ Terminated \in Seq(Nat) /\ Len(Terminated) = Len(Address) + 1
      /\ \A i \in 1 .. Len(Address) : Terminated[i] = Address[i]
      /\ Terminated[Len(Address) + 1] = 0
  BY AddressAssumption, AppendProperties DEF Terminated
<1>3. Terminated \in [Bytes -> Nat]
  BY <1>2, LenProperties DEF Bytes
<1> QED BY <1>1, <1>2, <1>3

\* strcpy() keeps a payload a payload.
LEMMA StrcpyType ==
  ASSUME NEW dst \in [Bytes -> Nat], NEW src \in [Bytes -> Nat]
  PROVE  Strcpy(dst, src) \in [Bytes -> Nat]
BY DEF Strcpy

\* strcpy(payload, "init") writes two bytes.
LEMMA StrcpyInit ==
  ASSUME NEW dst \in [Bytes -> Nat]
  PROVE  Strcpy(dst, InitText) = [dst EXCEPT ![1] = 9, ![2] = 0]
<1>1. ASSUME NEW i \in Bytes
      PROVE  Strcpy(dst, InitText)[i] = [dst EXCEPT ![1] = 9, ![2] = 0][i]
  BY TerminatedBytes DEF Strcpy, InitText, Bytes
<1> QED
  BY <1>1 DEF Strcpy

\* Where dst is zero behind the end of the address, strcpy() of the address
\* makes dst hold it whole.
LEMMA StrcpyAddress ==
  ASSUME PlainBytes, NEW dst \in [Bytes -> Nat], NEW src \in [Bytes -> Nat], Holds(src),
         \A i \in Bytes : Terminated[i] = 0 /\ i > 1 => dst[i] = 0
  PROVE  Holds(Strcpy(dst, src))
<1> SUFFICES ASSUME NEW i \in Bytes PROVE Strcpy(dst, src)[i] = Terminated[i]
  BY DEF Holds
<1>1. CASE \E j \in DOMAIN src : j < i /\ src[j] = 0
  <2>1. PICK j \in Bytes : j < i /\ Terminated[j] = 0
    BY <1>1 DEF Holds
  <2>2. Terminated[i] = 0
    BY <2>1, TerminatedBytes DEF PlainBytes, Bytes
  <2>3. i > 1
    BY <2>1 DEF Bytes
  <2> QED BY <1>1, <2>2, <2>3 DEF Strcpy
<1>2. CASE ~ \E j \in DOMAIN src : j < i /\ src[j] = 0
  BY <1>2 DEF Strcpy, Holds
<1> QED BY <1>1, <1>2

\* The payloads are as long as an address and its terminator, whatever is
\* copied and delivered.
LEMMA PayloadStep == PayloadType /\ [Next]_vars => PayloadType'
<1> SUFFICES ASSUME PayloadType, [Next]_vars PROVE PayloadType'
  OBVIOUS
<1> USE DEF PayloadType
<1>1. CASE UNCHANGED messageVars
  BY <1>1 DEF messageVars
<1>2. CASE LoopTest
  <2>1. Strcpy(msg_server, InitText) \in [Bytes -> Nat]
    BY StrcpyInit
  <2> QED BY <1>2, <2>1 DEF LoopTest
<1>3. ASSUME NEW cut \in BOOLEAN, Deliver(cut)
      PROVE  PayloadType'
  BY <1>3 DEF Deliver
<1>4. CASE Receive
  <2>1. Strcpy(buffer, Append(Address, 0)) \in [Bytes -> Nat]
    BY StrcpyType, TerminatedBytes DEF Terminated
  <2> QED BY <1>4, <2>1 DEF Receive
<1>5. CASE PrepareAck
  <2>1. Strcpy(msg_server, buffer) \in [Bytes -> Nat]
    BY StrcpyType
  <2> QED BY <1>5, <2>1 DEF PrepareAck
<1>6. ASSUME NEW c \in Callers, Caller(c) PROVE UNCHANGED messageVars
  BY <1>6 DEF Caller, connVars, messageVars, DownCallUsp, Ask, GotInit, Publish, Unicast,
              GotAck, UpCallUsp, Step, CallerOnly
<1>7. CASE (Connect \/ Job) /\ UNCHANGED connVars
  BY <1>1, <1>7 DEF connVars
<1>8. CASE SignalDaemon
  BY <1>1, <1>8 DEF SignalDaemon, connVars
<1>9. CASE UNCHANGED vars
  BY <1>1, <1>9 DEF vars, connVars
<1> QED
  BY <1>1, <1>2, <1>3, <1>4, <1>5, <1>6, <1>7, <1>8, <1>9 DEF Next, QuietNext, Daemon

\* The invariant holds once barracuda_start() has taken gen_syndrome_mutex
\* and no daemon has registered.
LEMMA InitInv == Init => IndInv
<1> SUFFICES ASSUME Init PROVE IndInv
  OBVIOUS
<1> USE CallersAssumption, DisksAssumption DEF Init, StubInit, At
<1>1. ControlInv
  <2>1. keep_going \in BOOLEAN /\ interrupted \in BOOLEAN /\ lost \in BOOLEAN
    BY Zenon
  <2>2. stale_pid \in BOOLEAN
    BY NetlinkAssumption
  <2> QED
    BY <2>1, <2>2 DEF ControlInv, DaemonInv, StubTypeOK, CallerLabels, DaemonLabels, JobLabels
<1>2. OwnerInv
  BY DEF OwnerInv, MutexInv, PublishedInv, FlagInv, InGen, CallerLabels
<1>3. JobInv
  BY DEF JobInv, PlaceInv, ProgressInv, Begun, Awaits, Working, Finished, Computed, JobLabels
<1>4. PayloadType
  BY DEF PayloadType, Zeros, Bytes
<1> QED
  BY <1>1, <1>2, <1>3, <1>4 DEF IndInv

\* Every reachable state of the netlink connection satisfies the inductive
\* invariant.
THEOREM Invariance == Spec => []IndInv
<1>1. IndInv /\ [Next]_vars => IndInv'
  BY ControlStep, OwnerStep, JobStep, PayloadStep DEF IndInv
<1> QED
  BY InitInv, <1>1, PTL DEF Spec

-----------------------------------------------------------------------------
(* The properties                                                           *)

\* Labels, semaphore, flag, queue and payloads of the netlink connection are
\* what they should be.
THEOREM TypeCorrect == Spec => []TypeOK
<1>1. ASSUME NEW m \in [Bytes -> Nat]
      PROVE  m \in Payload /\ Len(m) = Len(Address) + 1
  BY TerminatedBytes DEF Bytes, Payload
<1>2. IndInv => TypeOK
  BY <1>1 DEF IndInv, ControlInv, PayloadType, TypeOK
<1> QED
  BY <1>2, Invariance, PTL

\* Until a signal cuts a delivery short, the daemon works on the published
\* job of a caller that waits for its acknowledgement.
THEOREM DaemonServesPublished == Spec => []ServesPublished
<1>1. IndInv => ServesPublished
  BY DEF IndInv, OwnerInv, PublishedInv, JobInv, PlaceInv, ProgressInv, Working, Awaits, At,
         ServesPublished
<1> QED
  BY <1>1, Invariance, PTL

\* Until a signal cuts a delivery short, call_usp_nl() returns successfully
\* only when the parity of that call has been computed or the call had no
\* disks.
THEOREM ReturnsComputed == Spec => []ReturnComputed
<1>1. IndInv => ReturnComputed
  BY DEF IndInv, JobInv, ProgressInv, ReturnComputed, Computed
<1> QED
  BY <1>1, Invariance, PTL

\* The address that goes back with the acknowledgement is the one that came
\* with the job, byte by byte.
LEMMA TextStep ==
  ASSUME PlainBytes
  PROVE  IndInv /\ TextInv /\ [Next]_vars => TextInv'
<1> SUFFICES ASSUME IndInv, TextInv, [Next]_vars PROVE TextInv'
  OBVIOUS
<1> USE DEF At, Goto
<1>1. ASSUME NEW c \in Callers, Caller(c) PROVE TextInv'
  <2>1. UNCHANGED <<messageVars, dpc, interrupted>>
    BY <1>1 DEF Caller, connVars, messageVars, DownCallUsp, Ask, GotInit, Publish, Unicast,
                GotAck, UpCallUsp, Step, CallerOnly, Stub, RaidCall, DownGenSyndrome, PackSmc,
                KillSmc, UpGenSyndrome, signalVars
  <2>2. ASSUME NEW d \in Callers, At(d, {"ack_wait"})', nl_receive_flag' = 1
        PROVE  At(d, {"ack_wait"}) /\ nl_receive_flag = 1
    BY <1>1, <2>2 DEF Caller, connVars, DownCallUsp, Ask, GotInit, Publish, Unicast,
                GotAck, UpCallUsp, Step, CallerOnly, Stub, RaidCall, DownGenSyndrome, PackSmc,
                KillSmc, UpGenSyndrome, IndInv, ControlInv, StubTypeOK
  <2> QED BY <2>1, <2>2 DEF TextInv, Holds, messageVars
<1>2. CASE (Connect \/ Job) /\ UNCHANGED connVars
  <2>1. UNCHANGED <<messageVars, nl_receive_flag, pc, interrupted>>
    BY <1>2 DEF connVars, Connect, Job, ReadHeader, MapDisk, MapFails, MapDone, GenSyndrome,
                UngetBlock, signalVars, callVars
  <2>2. dpc' = "send_ack" => dpc = "send_ack"
    BY <1>2 DEF Connect, Job, ReadHeader, MapDisk, MapFails, MapDone, GenSyndrome, UngetBlock
  <2>3. dpc' \in JobLabels \cup {"served"} => dpc \in JobLabels \cup {"served"}
    BY <1>2 DEF Connect, Job, ReadHeader, MapDisk, MapFails, MapDone, GenSyndrome, UngetBlock,
                JobLabels
  <2> QED BY <2>1, <2>2, <2>3 DEF TextInv, Holds, messageVars
<1>3. CASE LoopTest
  <2>1. /\ UNCHANGED <<buffer, skb_global, nl_receive_flag, pc, interrupted>>
        /\ dpc' \in {"send_init", "exit"}
    BY <1>3 DEF LoopTest, DaemonOnly, signalVars, callVars
  <2>2. msg_server' = msg_server \/ msg_server' = [msg_server EXCEPT ![1] = 9, ![2] = 0]
    BY <1>3, StrcpyInit DEF LoopTest, IndInv, PayloadType
  <2>3. ASSUME NEW i \in Bytes, Terminated[i] = 0, i > 1
        PROVE  msg_server'[i] = 0
    <3>1. msg_server \in [Bytes -> Nat] /\ msg_server[i] = 0 /\ i # 1
      BY <2>3 DEF TextInv, IndInv, PayloadType
    <3> QED BY <2>2, <3>1
  <2> QED BY <2>1, <2>3 DEF TextInv, Holds, JobLabels
<1>4. ASSUME NEW cut \in BOOLEAN, Deliver(cut) PROVE TextInv'
  <2>1. /\ UNCHANGED <<buffer, msg_server, pc>> /\ skb_global' = msg_server
        /\ dpc' \in {"recv", "loop"}
    BY <1>4 DEF Deliver, DaemonOnly, callVars
  <2>2. ASSUME ~interrupted', NEW c \in Callers, At(c, {"ack_wait"})'
        PROVE  Holds(msg_server)
    <3>1. ~interrupted /\ nl_receive_flag = 0 /\ At(c, {"ack_wait"})
      BY <1>4, <2>1, <2>2 DEF Deliver, LeaveWait
    <3>2. dpc \in Working \cup {"recv", "dead"}
      BY <3>1 DEF IndInv, JobInv, PlaceInv, Awaits
    <3>3. dpc = "send_ack"
      BY <1>4, <3>2 DEF Deliver, Working, JobLabels
    <3> QED BY <3>3 DEF TextInv
  <2> QED BY <2>1, <2>2 DEF TextInv, Holds, JobLabels
<1>5. CASE Receive
  <2>1. /\ UNCHANGED <<skb_global, msg_server, nl_receive_flag, pc, interrupted>>
        /\ buffer' = Strcpy(buffer, Terminated) /\ dpc' = "get"
    BY <1>5 DEF Receive, DaemonOnly, signalVars, callVars, Terminated
  <2>2. Holds(Strcpy(buffer, Terminated))
    BY StrcpyAddress, TerminatedBytes DEF Holds, TextInv, IndInv, PayloadType
  <2> QED BY <2>1, <2>2 DEF TextInv, Holds
<1>6. CASE PrepareAck
  <2>1. /\ UNCHANGED <<skb_global, buffer, nl_receive_flag, pc, interrupted>>
        /\ msg_server' = Strcpy(msg_server, buffer) /\ dpc' = "send_ack"
    BY <1>6 DEF PrepareAck, DaemonOnly, signalVars, callVars
  <2>2. Holds(Strcpy(msg_server, buffer))
    BY <1>6, StrcpyAddress DEF PrepareAck, TextInv, IndInv, PayloadType
  <2> QED BY <2>1, <2>2 DEF TextInv, Holds, JobLabels
<1>7. CASE SignalDaemon
  BY <1>7 DEF SignalDaemon, Signal, connVars, messageVars, callVars, TextInv, Holds
<1>8. CASE UNCHANGED vars
  BY <1>8 DEF vars, stubVars, connVars, messageVars, callVars, signalVars, TextInv, Holds
<1> QED
  BY <1>1, <1>2, <1>3, <1>4, <1>5, <1>6, <1>7, <1>8 DEF Next, QuietNext, Daemon

\* Unless its bytes have a zero inside, the address sent back is accepted:
\* the message that ends the second wait of a call is the acknowledgement of
\* its job, however signals, lost messages and calls interleave, until a
\* signal cuts a delivery short.
THEOREM AcksAccepted == ASSUME PlainBytes PROVE Spec => AckAccepted
<1>1. Init => TextInv
  BY TerminatedBytes, CallersAssumption
  DEF Init, StubInit, TextInv, Zeros, Bytes, JobLabels, At
<1>2. IndInv /\ TextInv /\ [Next]_vars => TextInv'
  BY TextStep
<1>3. IndInv /\ TextInv /\ [Next]_vars =>
        [\A c \in Callers : At(c, {"ack_wait"}) /\ ~interrupted => pc'[c] # "kill"]_vars
  <2> SUFFICES ASSUME IndInv, TextInv, Next, NEW c \in Callers, At(c, {"ack_wait"}),
                      ~interrupted, pc'[c] = "kill"
               PROVE  FALSE
    OBVIOUS
  <2>1. nl_receive_flag = 1 => IsAddress(skb_global)
    BY TerminatedBytes DEF TextInv, Holds, IsAddress, Bytes
  <2>2. ASSUME NEW d \in Callers, Caller(d) PROVE FALSE
    BY <2>1, <2>2 DEF Caller, DownCallUsp, Ask, GotInit, Publish, Unicast, GotAck, UpCallUsp,
       Step, Stub, RaidCall, DownGenSyndrome, PackSmc, KillSmc, UpGenSyndrome, At, Goto,
       IndInv, ControlInv, StubTypeOK
  <2>3. CASE Daemon \/ SignalDaemon \/ Deliver(TRUE)
    BY <2>3 DEF Daemon, Connect, Job, ReadHeader, MapDisk, MapFails, MapDone, GenSyndrome,
       UngetBlock, LoopTest, Deliver, Receive, PrepareAck, DaemonOnly, SignalDaemon, Signal,
       callVars, At
  <2> QED BY <2>2, <2>3 DEF Next, QuietNext
<1> QED
  BY <1>1, <1>2, <1>3, Invariance, PTL DEF Spec, AckAccepted

-----------------------------------------------------------------------------
(* The refinement                                                           *)

\* When the promise of the service is over.
Over == interrupted \/ Gone \/ lost

\* A delivery that was cut short stays so, a lost job stays lost, and the
\* daemon does not come back.
LEMMA OverStays == IndInv /\ Over /\ [Next]_vars => Over'
<1> SUFFICES ASSUME IndInv, Over, [Next]_vars PROVE Over'
  OBVIOUS
<1> USE DEF Over, Gone
<1>1. ASSUME NEW c \in Callers, Caller(c) PROVE Over'
  BY <1>1 DEF Caller, Stub, RaidCall, DownGenSyndrome, PackSmc, KillSmc,
     UpGenSyndrome, DownCallUsp, Ask, GotInit, Publish, Unicast, GotAck, UpCallUsp, Step,
     CallerOnly, signalVars, connVars
<1>2. CASE (Connect \/ Job) /\ UNCHANGED connVars
  BY <1>2 DEF Connect, Job, ReadHeader, MapDisk, MapFails, MapDone,
     GenSyndrome, UngetBlock, signalVars, connVars
<1>3. CASE LoopTest \/ Receive \/ PrepareAck
  BY <1>3 DEF LoopTest, Receive, PrepareAck, DaemonOnly, signalVars
<1>4. ASSUME NEW cut \in BOOLEAN, Deliver(cut) PROVE Over'
  BY <1>4 DEF Deliver, LeaveWait, DaemonOnly, IndInv, ControlInv, StubTypeOK
<1>5. CASE SignalDaemon
  BY <1>5 DEF SignalDaemon, Signal, connVars
<1>6. CASE UNCHANGED vars
  BY <1>6 DEF vars, stubVars, signalVars, connVars
<1> QED
  BY <1>1, <1>2, <1>3, <1>4, <1>5, <1>6 DEF Next, QuietNext, Daemon

\* A step that leaves a caller's label, its parity and its disks alone
\* leaves its call in the same abstract state.
LEMMA SameState ==
  ASSUME pc' = pc, parity' = parity, disks' = disks
  PROVE  CallState' = CallState
BY DEF CallState, At

\* A step of one call in the abstract state.
Moves(c, from, to) == CallState[c] = from /\ CallState' = [CallState EXCEPT ![c] = to]
Requests(c) == Moves(c, "idle", "pending")
Serves(c) == Moves(c, "pending", "served")
Drops(c) == Moves(c, "pending", "dropped")
Returns(c) == Moves(c, "served", "idle") \/ Moves(c, "dropped", "idle")

\* While the promise holds, every step of the connection is a step of one
\* call or none.
LEMMA ServiceStep ==
  IndInv /\ ~Over /\ ~Over' /\ [Next]_vars =>
    \/ \E c \in Callers : Requests(c) \/ Serves(c) \/ Drops(c) \/ Returns(c)
    \/ CallState' = CallState
<1> SUFFICES ASSUME IndInv, ~interrupted, ~interrupted', ~lost, ~lost', [Next]_vars
             PROVE  \/ \E c \in Callers : Requests(c) \/ Serves(c) \/ Drops(c) \/ Returns(c)
                    \/ CallState' = CallState
  BY DEF Over
<1> USE CallersAssumption, DisksAssumption
<1> USE DEF IndInv, ControlInv, StubTypeOK, CallerLabels, At, Goto, CallState,
            Requests, Serves, Drops, Returns, Moves
<1>1. ASSUME NEW c \in Callers, RaidCall(c) PROVE Requests(c)
  BY <1>1 DEF RaidCall
<1>2. ASSUME NEW c \in Callers, PackSmc(c)
      PROVE  Drops(c) \/ CallState' = CallState
  <2>1. PICK n \in {0, Disks} : disks' = [disks EXCEPT ![c] = n]
    BY <1>2 DEF PackSmc
  <2>2. c \notin parity /\ pc[c] = "pack" /\ parity' = parity
    BY <1>2 DEF PackSmc, JobInv, ProgressInv
  <2>3. pc' = [pc EXCEPT ![c] = "call_usp"]
    BY <1>2 DEF PackSmc
  <2>4. CASE n = 0
    <3>1. CallState[c] = "pending" /\ CallState'[c] = "dropped"
      BY <2>1, <2>2, <2>3, <2>4
    <3>2. \A d \in Callers \ {c} : CallState'[d] = CallState[d]
      BY <2>1, <2>2, <2>3
    <3>3. CallState' = [CallState EXCEPT ![c] = "dropped"]
      BY <3>1, <3>2
    <3> QED
      BY <3>1, <3>3
  <2>5. CASE n = Disks
    BY <2>1, <2>2, <2>3, <2>5
  <2> QED BY <2>4, <2>5
<1>3. ASSUME NEW c \in Callers, UpGenSyndrome(c) PROVE Returns(c)
  BY <1>3 DEF UpGenSyndrome, JobInv, ProgressInv, Computed
<1>4. ASSUME NEW c \in Callers,
             DownGenSyndrome(c) \/ KillSmc(c) \/ DownCallUsp(c) \/ Ask(c) \/ GotInit(c)
               \/ Publish(c) \/ Unicast(c) \/ GotAck(c) \/ UpCallUsp(c)
      PROVE  CallState' = CallState
  BY <1>4 DEF DownGenSyndrome, KillSmc, DownCallUsp, Ask, GotInit, Publish, Unicast,
              GotAck, UpCallUsp, Step, CallerOnly, JobInv, ProgressInv
<1>5. CASE GenSyndrome
  <2>1. PICK d \in Callers : At(d, {"ask_ack", "ack_wait"}) /\ mapped \subseteq {d}
    BY <1>5 DEF GenSyndrome, JobLabels, Working, Awaits, JobInv, PlaceInv, ProgressInv
  <2>2. CASE mapped = {d} /\ got = disks[d] /\ d \notin parity
    <3>1. disks[d] # 0
      BY <2>2 DEF DaemonInv
    <3>2. parity' = parity \cup {d}
      BY <1>5, <2>2 DEF GenSyndrome
    <3>3. pc' = pc /\ disks' = disks
      BY <1>5 DEF GenSyndrome, callVars
    <3>4. Serves(d)
      BY <2>1, <2>2, <3>1, <3>2, <3>3
    <3> QED BY <3>4
  <2>3. CASE ~(mapped = {d} /\ got = disks[d] /\ d \notin parity)
    <3>1. parity' = parity
      BY <1>5, <2>1, <2>3 DEF GenSyndrome
    <3> QED BY <1>5, <3>1, SameState DEF GenSyndrome, callVars
  <2> QED BY <2>2, <2>3
<1>6. CASE Connect \/ ReadHeader \/ MapDisk \/ MapFails \/ MapDone \/ UngetBlock
  BY <1>6, SameState
  DEF Connect, ReadHeader, MapDisk, MapFails, MapDone, UngetBlock, callVars
<1>7. CASE LoopTest \/ Receive \/ PrepareAck \/ \E cut \in BOOLEAN : Deliver(cut)
  BY <1>7, SameState DEF LoopTest, Receive, PrepareAck, Deliver, DaemonOnly, callVars
<1>8. CASE SignalDaemon
  BY <1>8, SameState DEF SignalDaemon, Signal, callVars
<1>9. CASE UNCHANGED vars
  BY <1>9, SameState DEF vars, stubVars, callVars
<1> QED
  BY <1>1, <1>2, <1>3, <1>4, <1>5, <1>6, <1>7, <1>8, <1>9
  DEF Next, QuietNext, Daemon, Caller, Stub, Job

\* raid6_cuda_gen_syndrome() over netlink implements the safety part of
\* SyndromeService, for any signals and failures: until a delivery is
\* cut short, a job is lost or the daemon has gone, a call is served or dropped exactly once,
\* after it was made and before it returns.
THEOREM Refinement == Spec => Service!Safety
<1>1. Init => Service!Init
  <2> SUFFICES ASSUME Init PROVE Service!Init
    OBVIOUS
  <2>1. CallState = [c \in Callers |-> "idle"]
    BY DEF Init, StubInit, CallState, At
  <2>2. ~interrupted /\ ~Gone /\ ~lost
    BY DEF Init, StubInit, Gone
  <2> QED BY <2>1, <2>2, Zenon DEF Service!Init
<1>2. IndInv /\ [Next]_vars => [Service!Next]_<<CallState, interrupted \/ Gone \/ lost>>
  <2> SUFFICES ASSUME IndInv, [Next]_vars
               PROVE  Service!Next \/ UNCHANGED <<CallState, interrupted \/ Gone \/ lost>>
    OBVIOUS
  <2>1. CASE Over'
    <3>1. (interrupted \/ Gone \/ lost)' = TRUE
      BY <2>1, Zenon DEF Over
    <3>2. CallState' \in [Callers -> Service!States]
      BY DEF CallState, Service!States
    <3> QED BY <3>1, <3>2, Zenon DEF Service!Next, Service!Break
  <2>2. CASE ~Over'
    <3>1. ~Over
      BY <2>2, OverStays
    <3>2. (interrupted \/ Gone \/ lost)' = FALSE /\ (interrupted \/ Gone \/ lost) = FALSE
      BY <2>2, <3>1, Zenon DEF Over
    <3>3. ASSUME NEW c \in Callers, NEW from, NEW to, Moves(c, from, to)
          PROVE  Service!Move(c, from, to)
      BY <3>2, <3>3, Zenon DEF Moves, Service!Move
    <3>4. ASSUME NEW c \in Callers, Requests(c) \/ Serves(c) \/ Drops(c) \/ Returns(c)
          PROVE  Service!Next
      BY <3>3, <3>4, Zenon DEF Requests, Serves, Drops, Returns, Service!Next,
         Service!Request, Service!Serve, Service!Drop, Service!Return
    <3>5. CASE CallState' = CallState
      BY <3>2, <3>5, Zenon
    <3> QED BY <2>2, <3>1, <3>4, <3>5, ServiceStep
  <2> QED BY <2>1, <2>2
<1> QED
  BY <1>1, <1>2, Invariance, PTL DEF Spec, Service!Safety
=============================================================================
