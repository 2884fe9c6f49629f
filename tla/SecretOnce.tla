----------------------------- MODULE SecretOnce -----------------------------
(***************************************************************************)
(* What a job that generates a configuration secret promises to those who  *)
(* read it, whatever its pods do: the secret appears at most once, with a  *)
(* value that the job's source offered at some moment before, and is never *)
(* changed afterwards.                                                     *)
(***************************************************************************)
CONSTANTS Values,      \* the contents the secret may have
          NoSecret     \* the secret does not exist

VARIABLES secret,      \* the generated secret
          offered      \* the contents that the source has offered so far

vars == <<secret, offered>>

Init == /\ secret = NoSecret
        /\ offered \in SUBSET Values

\* The source changes: it may offer something it did not offer before.
Offer == /\ offered' \in SUBSET Values
         /\ offered \subseteq offered'
         /\ UNCHANGED secret

Write == /\ secret = NoSecret
         /\ secret' \in offered
         /\ UNCHANGED offered

Next == Offer \/ Write

Spec == Init /\ [][Next]_vars
=============================================================================
