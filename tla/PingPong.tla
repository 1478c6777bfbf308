------------------------------ MODULE PingPong ------------------------------
(***************************************************************************)
(* The prototypes of the connections: a kernel module and a program that   *)
(* send each other ping and pong, over procfs, ioctl, or netlink with the  *)
(* kernel (nl_ksp) or the program (nl_usp) as the one that begins.  The    *)
(* module and the daemon of today grew out of them.                        *)
(*                                                                         *)
(* There is one kernel thread and one program, so ping_mutex, read_mutex   *)
(* and callback_mutex never make anyone wait and are left out.  The        *)
(* program may be killed at any moment.                                    *)
(***************************************************************************)
EXTENDS Integers

CONSTANTS
  Tests,   \* tests of a program or a thread (30)
  Runs     \* pings of a test (RUNS, 1000, on both sides)

ASSUME PingAssumption == Tests \in Nat \ {0} /\ Runs \in Nat \ {0}

Protocols == {"proc", "ioctl", "nl_ksp", "nl_usp"}

VARIABLES
  proto,         \* the prototype that is loaded
  kpc, kleft,    \* the kernel thread, and its pings or messages left
  upc, uleft,    \* the program, and its messages left in this test
  tests,         \* tests left to the program
  wq_flag,
  buffered,      \* procfs: a pong is in the program's stream buffer
  inbox,         \* netlink messages on their way to the program
  thread_flag,   \* nl_ksp: rmmod has told the thread to end
  seen,          \* history: pings that have reached the other side
  returned,      \* history: pings that were taken to be answered
  lost           \* history: a message was lost

pingVars == <<proto, kpc, kleft, upc, uleft, tests, wq_flag, buffered, inbox,
              thread_flag, seen, returned, lost>>
kernel == <<proto, kpc, kleft, thread_flag>>
program == <<upc, uleft, tests, buffered>>

PingInit ==
  /\ proto = "none" /\ kpc = "out" /\ kleft = 0
  /\ upc = "out" /\ uleft = 0 /\ tests = Tests
  /\ wq_flag = 0 /\ buffered = FALSE /\ inbox = 0 /\ thread_flag = 0
  /\ seen = 0 /\ returned = 0 /\ lost = FALSE

\* mod_init() of procfs and ioctl: the thread, whose creation is taken to
\* succeed, or a registration that fails.
LoadModule(p) ==
  /\ kpc = "out"
  /\ proto' = p
  /\ wq_flag' = IF p = "ioctl" THEN 1 ELSE 2
  /\ kleft' = Tests * Runs
  /\ kpc' \in {"ping", "failed"}
  /\ UNCHANGED <<program, inbox, thread_flag, seen, returned, lost>>

\* nl_ksp and nl_usp do not look at what netlink_kernel_create() returns.
\* Without a socket the module is loaded and deaf: nobody calls its callback,
\* and the thread of nl_ksp asks for its first message for ever.
LoadNlKsp ==
  /\ kpc = "out"
  /\ proto' = "nl_ksp"
  /\ wq_flag' = 2
  /\ kleft' = Runs + 1
  /\ kpc' \in {"ask", "deaf"}
  /\ UNCHANGED <<program, inbox, thread_flag, seen, returned, lost>>

LoadNlUsp ==
  /\ kpc = "out"
  /\ proto' = "nl_usp"
  /\ kpc' \in {"server", "deaf"}
  /\ UNCHANGED <<kleft, program, wq_flag, inbox, thread_flag, seen, returned, lost>>

\* The program opens its file or socket.
StartProgram ==
  /\ kpc \notin {"out", "failed", "unloaded"} /\ upc = "out"
  /\ upc' = [proc |-> "read", ioctl |-> "enter", nl_ksp |-> "send", nl_usp |-> "send"][proto]
  /\ uleft' = IF proto = "nl_ksp" THEN Runs + 1 ELSE Runs
  /\ UNCHANGED <<kernel, tests, wq_flag, buffered, inbox, seen, returned, lost>>

-----------------------------------------------------------------------------
(* The kernel thread                                                        *)

\* ping(): global_buffer = buffer; wq_flag = 0
Ping ==
  /\ kpc = "ping"
  /\ kpc' = "pinged" /\ wq_flag' = 0
  /\ UNCHANGED <<proto, kleft, thread_flag, program, inbox, seen, returned, lost>>

\* Mutant: ping() does not wait.
PongAtOnce ==
  /\ kpc = "pinged"
  /\ returned' = returned + 1 /\ kleft' = kleft - 1
  /\ kpc' = IF kleft = 1 THEN "done" ELSE "ping"
  /\ UNCHANGED <<proto, thread_flag, program, wq_flag, inbox, seen, lost>>

\* wait_event_interruptible(...), the next of the thread's pings or its end
Pong ==
  /\ kpc = "pinged"
  /\ wq_flag = (IF proto = "ioctl" THEN 1 ELSE 2)
  /\ returned' = returned + 1 /\ kleft' = kleft - 1
  /\ kpc' = IF kleft = 1 THEN "done" ELSE "ping"
  /\ UNCHANGED <<proto, thread_flag, program, wq_flag, inbox, seen, lost>>

\* nl_recv_pkg() asks for a message
NlAsk ==
  /\ kpc = "ask"
  /\ kpc' = "await" /\ wq_flag' = 0
  /\ UNCHANGED <<proto, kleft, thread_flag, program, inbox, seen, returned, lost>>

\* and has it: the first one of a test is the init.
NlTake ==
  /\ kpc = "await" /\ wq_flag = 1
  /\ returned' = IF kleft = Runs + 1 THEN returned ELSE returned + 1
  /\ kleft' = IF kleft = 1 THEN Runs + 1 ELSE kleft - 1
  /\ kpc' = CASE kleft > 1 -> "unicast"
              [] kleft = 1 /\ thread_flag = 0 -> "ask"
              [] kleft = 1 /\ thread_flag = 1 -> "done"
  /\ UNCHANGED <<proto, thread_flag, program, wq_flag, inbox, seen, lost>>

NlUnicast ==
  /\ kpc = "unicast"
  /\ kpc' = "ask"
  /\ IF upc = "dead" THEN lost' = TRUE /\ UNCHANGED inbox
                     ELSE inbox' = inbox + 1 /\ UNCHANGED lost
  /\ UNCHANGED <<proto, kleft, thread_flag, program, wq_flag, seen, returned>>

Kernel == Ping \/ Pong \/ NlAsk \/ NlTake \/ NlUnicast

-----------------------------------------------------------------------------
(* The program                                                              *)

\* procfs: fread() first writes out the pong that fwrite() has left in the
\* buffer (write_proc), then waits in proc_read().
Flush ==
  /\ upc = "read" /\ buffered
  /\ buffered' = FALSE /\ wq_flag' = 2
  /\ UNCHANGED <<kernel, upc, uleft, tests, inbox, seen, returned, lost>>

Read ==
  /\ upc = "read" /\ ~buffered /\ wq_flag = 0
  /\ seen' = seen + 1 /\ buffered' = TRUE
  /\ UNCHANGED <<kernel, upc, uleft, tests, wq_flag, inbox, returned, lost>>

\* ioctl: each call delivers a pong, asked for or not, and waits for a ping.
IoctlEnter ==
  /\ upc = "enter"
  /\ upc' = "inside" /\ wq_flag' = 1
  /\ UNCHANGED <<kernel, uleft, tests, buffered, inbox, seen, returned, lost>>

IoctlLeave ==
  /\ upc = "inside" /\ wq_flag = 0
  /\ upc' = "enter" /\ seen' = seen + 1
  /\ UNCHANGED <<kernel, uleft, tests, wq_flag, buffered, inbox, returned, lost>>

\* The message sent was the last one of a test.
NextTest ==
  /\ tests' = IF uleft = 1 THEN tests - 1 ELSE tests
  /\ uleft' = IF uleft > 1 THEN uleft - 1 ELSE IF proto = "nl_ksp" THEN Runs + 1 ELSE Runs

\* Mutant: the message is stored, and nobody is told.
NlSendNoFlag ==
  /\ proto = "nl_ksp" /\ upc = "send" /\ wq_flag = 0
  /\ NextTest
  /\ upc' = CASE uleft > 1 -> "recv"
              [] uleft = 1 /\ tests > 1 -> "send"
              [] uleft = 1 /\ tests = 1 -> "ended"
  /\ UNCHANGED <<kernel, wq_flag, buffered, inbox, seen, returned, lost>>

\* nl_ksp: sendmsg() of init or pong runs nl_data_ready(), which waits until
\* the thread asks.
NlSend ==
  /\ proto = "nl_ksp" /\ upc = "send" /\ wq_flag = 0
  /\ wq_flag' = 1
  /\ NextTest
  /\ upc' = CASE uleft > 1 -> "recv"
              [] uleft = 1 /\ tests > 1 -> "send"
              [] uleft = 1 /\ tests = 1 -> "ended"
  /\ UNCHANGED <<kernel, buffered, inbox, seen, returned, lost>>

NlRecv ==
  /\ proto = "nl_ksp" /\ upc = "recv" /\ inbox > 0
  /\ inbox' = inbox - 1 /\ seen' = seen + 1
  /\ upc' = "send"
  /\ UNCHANGED <<kernel, uleft, tests, wq_flag, buffered, returned, lost>>

\* nl_usp: sendmsg() runs reed_solomon_netlink_server(), which answers, or
\* does not when there is no memory or no room.
UspSend ==
  /\ proto = "nl_usp" /\ upc = "send" /\ kpc = "server"
  /\ upc' = "recv" /\ seen' = seen + 1
  /\ \/ inbox' = inbox + 1 /\ UNCHANGED lost
     \/ lost' = TRUE /\ UNCHANGED inbox
  /\ UNCHANGED <<kernel, uleft, tests, wq_flag, buffered, returned>>

UspRecv ==
  /\ proto = "nl_usp" /\ upc = "recv" /\ inbox > 0
  /\ inbox' = inbox - 1 /\ returned' = returned + 1
  /\ NextTest
  /\ upc' = IF uleft = 1 /\ tests = 1 THEN "ended" ELSE "send"
  /\ UNCHANGED <<kernel, wq_flag, buffered, seen, lost>>

\* Nobody listens: sendmsg() returns an error that is not looked at, and
\* recvmsg() waits for ever, or fails as well when there is no socket at all,
\* so that the program runs to its end.
SendNowhere ==
  /\ proto \in {"nl_ksp", "nl_usp"} /\ upc = "send" /\ kpc \in {"deaf", "unloaded"}
  /\ upc' \in {"unheard", "ended"} /\ lost' = TRUE
  /\ UNCHANGED <<kernel, uleft, tests, wq_flag, buffered, inbox, seen, returned>>

Program ==
  \/ Flush
  \/ Read
  \/ IoctlEnter
  \/ IoctlLeave
  \/ NlSend
  \/ NlRecv
  \/ UspSend
  \/ UspRecv
  \/ SendNowhere

\* A signal ends the program; a wait inside nl_data_ready() is cut short and
\* the message is put into skb_global all the same.
Killed ==
  /\ upc \notin {"out", "ended", "dead"}
  /\ upc' = "dead"
  /\ wq_flag' = IF proto = "nl_ksp" /\ upc = "send" THEN 1 ELSE wq_flag
  /\ UNCHANGED <<kernel, uleft, tests, buffered, inbox, seen, returned, lost>>

\* mod_exit(): nl_ksp tells its thread to end; those with a thread wait for
\* its completion.
StopThread ==
  /\ proto = "nl_ksp" /\ thread_flag = 0
  /\ thread_flag' = 1
  /\ UNCHANGED <<proto, kpc, kleft, program, wq_flag, inbox, seen, returned, lost>>

UnloadModule ==
  /\ \/ kpc = "done"
     \/ kpc = "server" /\ upc \in {"out", "ended", "dead"}
     \/ kpc = "deaf" /\ proto = "nl_usp"
  /\ kpc' = "unloaded"
  /\ UNCHANGED <<proto, kleft, thread_flag, program, wq_flag, inbox, seen, returned, lost>>

PingNext ==
  \/ \E p \in {"proc", "ioctl"} : LoadModule(p)
  \/ LoadNlKsp
  \/ LoadNlUsp
  \/ StartProgram
  \/ Kernel
  \/ Program
  \/ Killed
  \/ StopThread
  \/ UnloadModule

PingSpec == PingInit /\ [][PingNext]_pingVars

-----------------------------------------------------------------------------
(* Properties                                                               *)

\* A ping that was answered has been received, whenever the program is killed.
\* Over ioctl the pong of the program's first call may answer one ping that
\* nobody has seen; the module of today has ioctl_init_mutex for this.
PingSeen == returned <= seen + (IF proto = "ioctl" THEN 1 ELSE 0)

\* A test that has begun comes to its end, unless the program is killed, a
\* message is lost (there is no memory, no room or no socket), or nl_ksp is
\* told to unload: the counts of both sides stay in step, no init is taken
\* for a pong, and nobody waits for the other.
TestDone == IF proto \in {"proc", "ioctl"} THEN kpc \in {"done", "unloaded"} ELSE upc = "ended"
PingsEnd ==
  (upc \notin {"out", "ended", "dead"}) ~> (TestDone \/ upc = "dead" \/ lost \/ thread_flag = 1)
=============================================================================
