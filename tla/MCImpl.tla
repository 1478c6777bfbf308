------------------------------- MODULE MCImpl -------------------------------
(***************************************************************************)
(* What the implementations compute, for TLC: a behaviour is one word of   *)
(* the loop of SOFT or of the card, or calls of the MULTI encoder, or a    *)
(* process that uses the card, or one block of threads of the kernel, or a *)
(* call of the SMP implementation.                                         *)
(***************************************************************************)
EXTENDS MCWord, MultRs, CudaCopy, RsKernel, SmpSyndrome

\* Zero, one, both sides of an overflow of the logarithms, and 255.
Bytes == {0, 1, 2, 3, 29, 128, 142, 175, 254, 255}

vars == <<wordVars, rsVars, copyVars, kernelVars, smpVars>>

Init == WordInit /\ RsInit /\ CopyInit /\ KernelInit /\ SmpInit

NoLoop == data = <<>>
NoEncoder == column = <<>>
NoProcess == cpc = "idle" /\ calls = <<>> /\ ~serving
NoKernel == \A w \in Warps : wpc[w] = "ready"
NoCall == main = "idle"

OneWord == WordNext /\ UNCHANGED <<rsVars, copyVars, kernelVars, smpVars>>
Encoder == RsNext /\ UNCHANGED <<wordVars, copyVars, kernelVars, smpVars>>
Card == CopyNext /\ UNCHANGED <<wordVars, rsVars, kernelVars, smpVars>>
Block == KernelNext /\ UNCHANGED <<wordVars, rsVars, copyVars, smpVars>>
Smp(A) == A /\ UNCHANGED <<wordVars, rsVars, copyVars, kernelVars>>

Next ==
  \/ NoEncoder /\ NoProcess /\ NoKernel /\ NoCall /\ OneWord
  \/ NoLoop /\ NoProcess /\ NoKernel /\ NoCall /\ Encoder
  \/ NoLoop /\ NoEncoder /\ NoKernel /\ NoCall /\ Card
  \/ NoLoop /\ NoEncoder /\ NoProcess /\ NoCall /\ Block
  \/ NoLoop /\ NoEncoder /\ NoProcess /\ NoKernel /\ Smp(SmpNext)

\* Every thread of the SMP implementation is scheduled eventually.
Spec ==
  /\ Init /\ [][Next]_vars
  /\ WF_vars(Smp(Main))
  /\ WF_vars(Smp(\E t \in Workers : Thread(t)))
=============================================================================
