----------------------------- MODULE Marshalling -----------------------------
(***************************************************************************)
(* The part of barracuda that all connection types share.                  *)
(*                                                                         *)
(* Kernel side (raid6cuda.c): raid6_cuda_gen_syndrome() serialises the     *)
(* callers with gen_syndrome_mutex, packs the arguments into a             *)
(* syndrome_container, hands it to the chosen call_usp function and frees  *)
(* the container.  call_usp copies the container into the single global    *)
(* *actual_snc, from which the daemon mmaps its work.                      *)
(*                                                                         *)
(* Userspace side (userspace_driver.cu): the server loop of each           *)
(* connection type gets the actual block, computes it, ungets it.          *)
(* Signals reach the daemon through kill_handler and alarm_handler.        *)
(*                                                                         *)
(* A container is named by the caller it belongs to.  A pointer to memory  *)
(* that is not the container of a call in progress (never written, or      *)
(* freed by kill_smc) is the value Dangling.                               *)
(***************************************************************************)
EXTENDS Naturals, FiniteSets

CONSTANTS
  Callers,       \* kernel threads that call gen_syndrome()
  Dangling,      \* a container that is not allocated (any more)
  Disks,         \* number of blocks, parity blocks included, of a stripe
  Signals,       \* the signals sent to the daemon, of {"TERM", "ALRM"}
  VmallocFails,  \* whether vmalloc in pack_smc may return NULL
  MmapFails      \* whether an mmap of the daemon may fail

ASSUME CallersAssumption == Dangling \notin Callers
ASSUME DisksAssumption == Disks \in Nat \ {0}
ASSUME SignalsAssumption == Signals \subseteq {"TERM", "ALRM"}
ASSUME FaultsAssumption == VmallocFails \in BOOLEAN /\ MmapFails \in BOOLEAN

VARIABLES
  pc,                  \* where each caller is in raid6_cuda_gen_syndrome()
  gen_syndrome_mutex,  \* counting semaphore, taken by barracuda_start()
  disks,               \* disks field of each caller's container, 0: empty
  actual_snc,          \* the container in *actual_snc
  parity,              \* callers whose current call has been computed
  dpc,                 \* where the daemon is in its server loop
  keep_going,          \* the daemon's loop flag
  pending,             \* signals posted while the daemon is in the kernel
  hdr,                 \* disks as read by get_act_syndrome_block()
  got,                 \* how many of them it has mapped
  mapped,              \* the containers the mapped blocks belong to
  interrupted          \* history: a signal has ended a wait of the daemon

callVars == <<pc, gen_syndrome_mutex, disks>>
blockVars == <<hdr, got, mapped>>
signalVars == <<keep_going, pending, interrupted>>
stubVars == <<callVars, blockVars, signalVars, actual_snc, parity, dpc>>

Goto(c, label) == pc' = [pc EXCEPT ![c] = label]
At(c, labels) == pc[c] \in labels

StubInit ==
  /\ pc = [c \in Callers |-> "idle"]
  /\ gen_syndrome_mutex = 0       \* down() in barracuda_start()
  /\ disks = [c \in Callers |-> 0]
  /\ actual_snc = Dangling        \* vmalloc'ed, never initialised
  /\ parity = {}
  /\ dpc = "conf"
  /\ keep_going = TRUE
  /\ pending = {}
  /\ hdr = 0 /\ got = 0 /\ mapped = {}
  /\ interrupted = FALSE

-----------------------------------------------------------------------------
(* raid6_cuda_gen_syndrome(), around call_usp()                             *)

\* md calls through its function pointer; the stripe's parity is stale.
RaidCall(c) ==
  /\ At(c, {"idle"})
  /\ Goto(c, "down_gen")
  /\ parity' = parity \ {c}
  /\ UNCHANGED <<gen_syndrome_mutex, disks, blockVars, signalVars, actual_snc, dpc>>

\* Mutant: gen_syndrome() does not take its semaphore.
DownGenSyndromeMissing(c) ==
  /\ At(c, {"down_gen"})
  /\ Goto(c, "pack")
  /\ UNCHANGED <<gen_syndrome_mutex, disks, blockVars, signalVars, actual_snc, parity, dpc>>

DownGenSyndrome(c) ==
  /\ At(c, {"down_gen"})
  /\ gen_syndrome_mutex > 0
  /\ gen_syndrome_mutex' = gen_syndrome_mutex - 1
  /\ Goto(c, "pack")
  /\ UNCHANGED <<disks, blockVars, signalVars, actual_snc, parity, dpc>>

\* pack_smc(): without memory the container has no disks and no bytes.
PackSmc(c) ==
  /\ At(c, {"pack"})
  /\ \E n \in {Disks} \cup (IF VmallocFails THEN {0} ELSE {}) :
       disks' = [disks EXCEPT ![c] = n]
  /\ Goto(c, "call_usp")
  /\ UNCHANGED <<gen_syndrome_mutex, blockVars, signalVars, actual_snc, parity, dpc>>

\* What a pointer to the container of c is once that container is freed.
Freed(c, p) == IF p = c THEN Dangling ELSE p

\* kill_smc(): *actual_snc is left pointing to the freed array, and whatever
\* the daemon still has mapped is no longer the stripe of a call.
KillSmc(c) ==
  /\ At(c, {"kill"})
  /\ actual_snc' = Freed(c, actual_snc)
  /\ mapped' = {Freed(c, p) : p \in mapped}
  /\ Goto(c, "up_gen")
  /\ UNCHANGED <<gen_syndrome_mutex, disks, hdr, got, signalVars, parity, dpc>>

\* Mutant: gen_syndrome() returns without up().
UpGenSyndromeMissing(c) ==
  /\ At(c, {"up_gen"})
  /\ disks' = [disks EXCEPT ![c] = 0]
  /\ Goto(c, "idle")
  /\ UNCHANGED <<gen_syndrome_mutex, blockVars, signalVars, actual_snc, parity, dpc>>

UpGenSyndrome(c) ==
  /\ At(c, {"up_gen"})
  /\ gen_syndrome_mutex' = gen_syndrome_mutex + 1
  /\ disks' = [disks EXCEPT ![c] = 0]
  /\ Goto(c, "idle")
  /\ UNCHANGED <<blockVars, signalVars, actual_snc, parity, dpc>>

Stub(c) ==
  \/ RaidCall(c)
  \/ DownGenSyndrome(c)
  \/ PackSmc(c)
  \/ KillSmc(c)
  \/ UpGenSyndrome(c)

-----------------------------------------------------------------------------
(* The daemon: one job of a server loop, from "get" to "served"             *)

\* "con=..." in conf_write() opens gen_syndrome(); the daemon then installs
\* its signal handlers and enters its server loop (module Registration has
\* the steps of this start-up one by one).
Connect ==
  /\ dpc = "conf"
  /\ gen_syndrome_mutex' = gen_syndrome_mutex + 1
  /\ dpc' = "loop"
  /\ UNCHANGED <<pc, disks, blockVars, signalVars, actual_snc, parity>>

\* get_act_syndrome_block(), first part: disks and bytes are read from the
\* mapped *actual_snc; from a dangling container anything may be read.
ReadHeader ==
  /\ dpc = "get"
  /\ hdr' \in IF actual_snc \in Callers THEN {disks[actual_snc]} ELSE 0 .. Disks
  /\ dpc' = "map"
  /\ UNCHANGED <<callVars, got, mapped, signalVars, actual_snc, parity>>

\* The block that mmap_mmap() finds through actual_snc->ptrs[i-1].
Block(i) ==
  IF actual_snc \in Callers /\ i <= disks[actual_snc] THEN actual_snc ELSE Dangling

\* One mmap of the loop over the disks.
MapDisk ==
  /\ dpc = "map"
  /\ got < hdr
  /\ got' = got + 1
  /\ mapped' = mapped \cup {Block(got + 1)}
  /\ UNCHANGED <<callVars, hdr, signalVars, actual_snc, parity, dpc>>

\* A failing mmap makes get_act_syndrome_block() return NULL, which the
\* server loops dereference: the daemon dies, its mappings go with it.  (The
\* container itself is mapped by the first job only; that its mapping may
\* fail in a later job, too, makes the model the more permissive.)
MapFails ==
  /\ MmapFails
  /\ dpc = "get" \/ (dpc = "map" /\ got < hdr)
  /\ dpc' = "dead"
  /\ hdr' = 0 /\ got' = 0 /\ mapped' = {}
  /\ UNCHANGED <<callVars, signalVars, actual_snc, parity>>

\* Mutant: the loop over the disks stops one disk early (i < disks).
MapDoneEarly ==
  /\ dpc = "map"
  /\ got + 1 >= hdr
  /\ dpc' = "compute"
  /\ UNCHANGED <<callVars, blockVars, signalVars, actual_snc, parity>>

MapDone ==
  /\ dpc = "map"
  /\ got = hdr
  /\ dpc' = "compute"
  /\ UNCHANGED <<callVars, blockVars, signalVars, actual_snc, parity>>

\* gen_syndrome(disks, bytes, ptrs): it produces the parity of a call when
\* all the blocks it was given are those of that call.
GenSyndrome ==
  /\ dpc = "compute"
  /\ parity' = parity \cup {c \in Callers : mapped = {c} /\ got = disks[c]}
  /\ dpc' = "unget"
  /\ UNCHANGED <<callVars, blockVars, signalVars, actual_snc>>

\* Mutant: the mappings of the job are kept for the next one.
UngetBlockKeeps ==
  /\ dpc = "unget"
  /\ dpc' = "served"
  /\ hdr' = 0
  /\ UNCHANGED <<callVars, got, mapped, signalVars, actual_snc, parity>>

\* unget_act_syndrome_block()
UngetBlock ==
  /\ dpc = "unget"
  /\ dpc' = "served"
  /\ hdr' = 0 /\ got' = 0 /\ mapped' = {}
  /\ UNCHANGED <<callVars, signalVars, actual_snc, parity>>

Job == ReadHeader \/ MapDisk \/ MapFails \/ MapDone \/ GenSyndrome \/ UngetBlock

-----------------------------------------------------------------------------
(* Signals                                                                  *)

\* conf_read(): the usage count of the RAID devices is not looked at.
conf_read == "n"

\* kill_handler() does nothing but log; alarm_handler() ends the server loop
\* when conf_read() reports no active RAID device.
Handled(S) == IF "ALRM" \in S /\ conf_read = "n" THEN FALSE ELSE keep_going

Gone == dpc \in {"dead", "exit"}

\* A signal is handled at once in user mode; inside a wait of the kernel it
\* is posted, and the handler runs when the system call returns.
Signal(s, waiting) ==
  /\ dpc # "conf" /\ ~Gone
  /\ IF waiting
       THEN pending' = pending \cup {s} /\ UNCHANGED keep_going
       ELSE keep_going' = Handled({s}) /\ UNCHANGED pending
  /\ UNCHANGED <<callVars, blockVars, interrupted, actual_snc, parity, dpc>>

\* Return from a wait of the kernel to user mode, through the handlers.
\* cut: the wait ended although its condition did not hold.
LeaveWait(cut) ==
  /\ keep_going' = Handled(pending)
  /\ pending' = {}
  /\ interrupted' = (interrupted \/ cut)

-----------------------------------------------------------------------------
JobLabels == {"get", "map", "compute", "unget"}

StubTypeOK(callerLabels, daemonLabels) ==
  /\ pc \in [Callers -> {"idle", "down_gen", "pack", "call_usp", "kill", "up_gen"}
                          \cup callerLabels]
  /\ gen_syndrome_mutex \in Nat
  /\ disks \in [Callers -> {0, Disks}]
  /\ actual_snc \in Callers \cup {Dangling}
  /\ parity \subseteq Callers
  /\ dpc \in JobLabels \cup {"conf", "loop", "served", "dead", "exit"} \cup daemonLabels
  /\ keep_going \in BOOLEAN
  /\ pending \subseteq Signals
  /\ hdr \in 0 .. Disks
  /\ got \in 0 .. hdr
  /\ mapped \subseteq Callers \cup {Dangling}
  /\ interrupted \in BOOLEAN
=============================================================================
