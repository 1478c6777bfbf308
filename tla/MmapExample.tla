----------------------------- MODULE MmapExample -----------------------------
(***************************************************************************)
(* The prototype of the marshalling: a kernel module keeps one stripe, a   *)
(* program maps its blocks and lets forked processes, one per cpu, reverse *)
(* the numbers of the disks in them, each in its own share of the bytes.   *)
(*                                                                         *)
(* A child returns from raid6_smp_gen_syndrome() into main() like its      *)
(* parent; only the parent waits.  The blocks of all disks are treated     *)
(* alike, so one stands for all.                                           *)
(***************************************************************************)
EXTENDS Integers

CONSTANTS
  Processes,   \* number_of_threads
  BlockBytes   \* bytes of a block (100)

ASSUME ExampleAssumption == Processes \in Nat \ {0} /\ BlockBytes \in Nat

VARIABLES
  ping,       \* the kernel module: "out", "loaded", "no device", "failed", "unloaded"
  packed,     \* pack_smc() has made the marshalling struct
  xpc,        \* the parent
  forked,     \* loop variable i of the parent
  kids,       \* the children
  users,      \* processes that have the device open or its blocks mapped
  reversed    \* the bytes that are written

exampleVars == <<ping, packed, xpc, forked, kids, users, reversed>>

Kids == 0 .. Processes - 1
Parent == -1

ExampleInit ==
  /\ ping = "out" /\ packed = FALSE
  /\ xpc = "out" /\ forked = 0
  /\ kids = [i \in Kids |-> "none"]
  /\ users = {}
  /\ reversed = {}

-----------------------------------------------------------------------------
(* The kernel module                                                        *)

\* Pages, marshalling struct, device: without pages insmod fails.  A missing
\* struct goes unnoticed, and so does a missing device: major is unsigned and
\* never below 0.
pack_smc == packed' \in BOOLEAN
InsmodExample ==
  /\ ping = "out"
  /\ \/ ping' \in {"loaded", "no device"} /\ pack_smc
     \/ ping' = "failed" /\ UNCHANGED packed
  /\ UNCHANGED <<xpc, forked, kids, users, reversed>>

\* Refused while a file of the device is open or mapped (fops.owner); shows
\* and frees the blocks.  Without the struct snc->disks is a fault.
RmmodExample ==
  /\ ping \in {"loaded", "no device"} /\ users = {}
  /\ ping' = IF packed THEN "unloaded" ELSE "failed"
  /\ UNCHANGED <<packed, xpc, forked, kids, users, reversed>>

-----------------------------------------------------------------------------
(* The parent                                                               *)

OpenPing ==
  /\ ping = "loaded" /\ xpc = "out"
  /\ xpc' = "map" /\ users' = {Parent}
  /\ UNCHANGED <<ping, packed, forked, kids, reversed>>

\* get_act_syndrome_block(): NULL after a failing mmap() is dereferenced.
\* Without a struct it maps whatever is at address 0.
GetBlocks ==
  /\ xpc = "map"
  /\ \/ packed /\ xpc' = "fork" /\ UNCHANGED users
     \/ xpc' = "crashed" /\ users' = users \ {Parent}
  /\ UNCHANGED <<ping, packed, forked, kids, reversed>>

\* pipe() and fork() of the next child, which gets the files and mappings
Fork ==
  /\ xpc = "fork" /\ forked < Processes
  /\ kids' = [kids EXCEPT ![forked] = "read"]
  /\ users' = users \cup {forked}
  /\ xpc' = "send"
  /\ UNCHANGED <<ping, packed, forked, reversed>>

\* No pipe: raid6_smp_gen_syndrome() returns without waiting for anyone.
PipeFails ==
  /\ xpc = "fork" /\ forked < Processes
  /\ xpc' = "early"
  /\ UNCHANGED <<ping, packed, forked, kids, users, reversed>>

\* fork() returns -1, which is taken for a child: writing to a pipe that
\* nobody reads ends the parent with SIGPIPE.
ForkFails ==
  /\ xpc = "fork" /\ forked < Processes
  /\ xpc' = "crashed" /\ users' = users \ {Parent}
  /\ UNCHANGED <<ping, packed, forked, kids, reversed>>

\* The number of the child goes through the pipe.
SendNumber ==
  /\ xpc = "send"
  /\ forked' = forked + 1
  /\ xpc' = "fork"
  /\ UNCHANGED <<ping, packed, kids, users, reversed>>

\* Mutant: the parent waits for all children but the last.
WaitAllFew ==
  /\ xpc = "fork" /\ forked = Processes
  /\ \A i \in 0 .. Processes - 2 : kids[i] = "gone"
  /\ xpc' = "unget"
  /\ UNCHANGED <<ping, packed, forked, kids, users, reversed>>

\* waitpid() of every child
WaitAll ==
  /\ xpc = "fork" /\ forked = Processes
  /\ \A i \in Kids : kids[i] = "gone"
  /\ xpc' = "unget"
  /\ UNCHANGED <<ping, packed, forked, kids, users, reversed>>

\* unget_act_syndrome_block() unmaps ptrs[-1] instead of the last block; the
\* end of the process unmaps the rest.
ParentEnds ==
  /\ xpc \in {"unget", "early"}
  /\ xpc' = IF xpc = "unget" THEN "ended" ELSE "ended early"
  /\ users' = users \ {Parent}
  /\ UNCHANGED <<ping, packed, forked, kids, reversed>>

-----------------------------------------------------------------------------
(* The children                                                             *)

\* The child has its number from the pipe; if the parent is gone it reads
\* nothing and keeps the i it was forked with, the same number.
ReadNumber(i) ==
  /\ kids[i] = "read"
  /\ forked > i \/ xpc = "crashed"
  /\ kids' = [kids EXCEPT ![i] = "work"]
  /\ UNCHANGED <<ping, packed, xpc, forked, users, reversed>>

ShareStart(i) == (BlockBytes \div Processes) * i
ShareStop(i) ==
  IF i + 1 = Processes THEN BlockBytes ELSE ShareStart(i) + BlockBytes \div Processes

proc_thread_dep_syndrome(i) ==
  /\ kids[i] = "work"
  /\ reversed' = reversed \cup (ShareStart(i) .. ShareStop(i) - 1)
  /\ kids' = [kids EXCEPT ![i] = "unget"]
  /\ UNCHANGED <<ping, packed, xpc, forked, users>>

ChildEnds(i) ==
  /\ kids[i] = "unget"
  /\ kids' = [kids EXCEPT ![i] = "gone"]
  /\ users' = users \ {i}
  /\ UNCHANGED <<ping, packed, xpc, forked, reversed>>

ExampleNext ==
  \/ InsmodExample
  \/ RmmodExample
  \/ OpenPing
  \/ GetBlocks
  \/ Fork
  \/ PipeFails
  \/ ForkFails
  \/ SendNumber
  \/ WaitAll
  \/ ParentEnds
  \/ \E i \in Kids : ReadNumber(i) \/ proc_thread_dep_syndrome(i) \/ ChildEnds(i)

ExampleSpec == ExampleInit /\ [][ExampleNext]_exampleVars

-----------------------------------------------------------------------------
(* Properties                                                               *)

\* The blocks are final: when the program ends its regular way, every byte is
\* written and no child is left; and when rmmod frees them, no child works in
\* them any more, not even one whose parent has ended early or died.
BlocksFinal ==
  /\ xpc = "ended" =>
       reversed = 0 .. BlockBytes - 1 /\ \A i \in Kids : kids[i] = "gone"
  /\ ping = "unloaded" => \A i \in Kids : kids[i] \in {"none", "gone"}
=============================================================================
