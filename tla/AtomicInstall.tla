--------------------------- MODULE AtomicInstall ---------------------------
(***************************************************************************)
(* What "a7 build" promises of its destination (src/a7/cli.py:178,         *)
(* "Same filesystem as the destination permits an atomic replacement"):    *)
(* the destination holds what was there before or a complete executable,   *)
(* one replaces the other in one step, a build that reports success has    *)
(* made that step, and one that declines has not.                          *)
(***************************************************************************)
CONSTANTS
  Builds,        (* invocations of the compiler                             *)
  Destinations,  (* path names                                              *)
  Nobody         (* holder of what was there before                         *)

VARIABLES
  holder,        (* the build whose executable a destination holds          *)
  phase          (* where each build is                                     *)

Init ==
  /\ holder = [d \in Destinations |-> Nobody]
  /\ phase  = [b \in Builds |-> "working"]

Install(b, d) ==
  /\ phase[b] = "working"
  /\ phase'  = [phase EXCEPT ![b] = "installed"]
  /\ holder' = [holder EXCEPT ![d] = b]

(* A build whose destination is none of these.                             *)
InstallElsewhere(b) ==
  /\ phase[b] = "working"
  /\ phase' = [phase EXCEPT ![b] = "installed"]
  /\ UNCHANGED holder

Succeed(b) ==
  /\ phase[b] = "installed"
  /\ phase' = [phase EXCEPT ![b] = "succeeded"]
  /\ UNCHANGED holder

(* The end of an invocation that installs nothing: rejected by the         *)
(* compiler or by Zig, a refused destination, or no build at all.          *)
Decline(b) ==
  /\ phase[b] = "working"
  /\ phase' = [phase EXCEPT ![b] = "declined"]
  /\ UNCHANGED holder

(* A failing system call or a kill, before or after the installation.      *)
Fail(b) ==
  /\ phase[b] \in {"working", "installed"}
  /\ phase' = [phase EXCEPT ![b] = "failed"]
  /\ UNCHANGED holder

Next == \E b \in Builds :
  (\E d \in Destinations : Install(b, d)) \/ InstallElsewhere(b)
  \/ Succeed(b) \/ Decline(b) \/ Fail(b)

Spec == Init /\ [][Next]_<<holder, phase>>
=============================================================================
