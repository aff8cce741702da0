---------------------------- MODULE LinkService ----------------------------
(***************************************************************************)
(* What a build system may expect of the linker command, however it is     *)
(* run (directly, in a forked process, through a daemon): for each command *)
(* one link at a time, possibly repeated after a failure of the transport, *)
(* and an exit code that tells how the last one ended.                     *)
(***************************************************************************)
EXTENDS Integers

CONSTANTS Clients, HasFallback, Outcomes

VARIABLES job, last, code

vars == <<job, last, code>>

Init == /\ job = [c \in Clients |-> "idle"]
        /\ last = [c \in Clients |-> "none"]
        /\ code = [c \in Clients |-> -1]

Begin(c) == /\ job[c] = "idle"
            /\ job' = [job EXCEPT ![c] = "linking"]
            /\ UNCHANGED <<last, code>>

End(c) == /\ job[c] = "linking"
          /\ job' = [job EXCEPT ![c] = "idle"]
          /\ \E o \in Outcomes : last' = [last EXCEPT ![c] = o]
          /\ UNCHANGED code

\* A command that cannot link by itself may also fail for want of an answer.
Exit(c) == /\ job[c] = "idle"
           /\ job' = [job EXCEPT ![c] = "done"]
           /\ \E n \in 0 .. 255 : /\ n = 0 => last[c] = "ok"
                                  /\ c \in HasFallback /\ last[c] = "ok" => n = 0
                                  /\ code' = [code EXCEPT ![c] = n]
           /\ UNCHANGED last

Next == \E c \in Clients : Begin(c) \/ End(c) \/ Exit(c)

Spec == Init /\ [][Next]_vars
=============================================================================
