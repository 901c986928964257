-------------------------- MODULE MCRunEventStore --------------------------
(* Small instances of RunEventStore: the creation of a run and the requests    *)
(* of a learner and an instructor that all speak about version 1 or 2.       *)
EXTENDS RunEventStore, TLC

CONSTANTS a1, a2, a3, begin, pay, tell, warn, none

MCAttempts == {a1, a2, a3}
MCCommands == {begin, pay, tell, warn}
MCBodies == {1, 2}

(* The learner's command stores two events, the others one. *)
MCWidth == (begin :> 1) @@ (pay :> 2) @@ (tell :> 1) @@ (warn :> 1)

R(kind, command, body, version) ==
  [kind |-> kind, command |-> command, body |-> body, version |-> version]

(* A creation; a learner's command, and the same command id with another       *)
(* content; an instructor's release; then, at the version one event later,   *)
(* another command and another release.                                      *)
MCRequests ==
  {R("create", begin, 1, 0), R("learner", pay, 1, 1), R("learner", pay, 2, 1),
   R("instructor", warn, 1, 1), R("instructor", warn, 2, 2),
   R("learner", tell, 1, 2)}

Deliveries == Permutations(Attempts)
=============================================================================
