--------------------------- MODULE SyndromeService ---------------------------
(***************************************************************************)
(* What every connection type of barracuda promises the RAID-6 layer: a    *)
(* call of gen_syndrome() behaves like the local function it replaces.     *)
(* It returns only once its parity blocks have been computed, or once the  *)
(* marshalling has given the job up because there was no memory for it.    *)
(*                                                                         *)
(* The promise is tied to the daemon: it is over (broken) once a signal    *)
(* has made the daemon take a wait for ended that had not ended, once the  *)
(* daemon has gone, or once a message between the two sides was lost.      *)
(*                                                                         *)
(* The kernel's raid6_call.gen_syndrome slot is the interface: the caller  *)
(* is md/raid5, which is outside the repository; the stub                  *)
(* raid6_cuda_gen_syndrome() fills the slot.                               *)
(***************************************************************************)
CONSTANT Callers            \* the kernel threads that call gen_syndrome()

VARIABLES
  state,                    \* what has become of each caller's current call
  broken                    \* the promise is over

States == {"idle", "pending", "served", "dropped"}

Init == state = [c \in Callers |-> "idle"] /\ broken = FALSE

Move(c, from, to) ==
  /\ ~broken
  /\ state[c] = from
  /\ state' = [state EXCEPT ![c] = to]
  /\ broken' = FALSE

\* The RAID layer hands over its stripe.
Request(c) == Move(c, "idle", "pending")

\* The parity of the stripe has been written by the userspace driver.
Serve(c) == Move(c, "pending", "served")

\* There was no memory for the pointer array: the job is marshalled empty.
Drop(c) == Move(c, "pending", "dropped")

\* gen_syndrome() returns void: the caller cannot tell the two outcomes apart.
Return(c) == Move(c, "served", "idle") \/ Move(c, "dropped", "idle")

\* From here on nothing is promised.
Break ==
  /\ broken' = TRUE
  /\ state' \in [Callers -> States]

Next == Break \/ \E c \in Callers : Request(c) \/ Serve(c) \/ Drop(c) \/ Return(c)

\* Once a caller has entered the function it is brought back out of it.
Fairness == \A c \in Callers : WF_<<state, broken>>(Serve(c) \/ Drop(c) \/ Return(c))

Safety == Init /\ [][Next]_<<state, broken>>
Spec == Safety /\ Fairness
=============================================================================
