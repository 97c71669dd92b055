-------------------------- MODULE CompilerContract --------------------------
(***************************************************************************)
(* What a run of the compiler promises to whoever started it, with other   *)
(* runs going on: nothing is put at the destination before the whole       *)
(* program was accepted, success means that every class is there, and      *)
(* every run ends.                                                         *)
(***************************************************************************)
CONSTANTS Proc,        \* the runs of the compiler
          Class        \* the names of classes

VARIABLES request,     \* what each run was asked for
          accepted,    \* the runs whose program was accepted
          delivered,   \* the classes each run put at its destination
          outcome      \* how each run ended, or "running"

contract == <<request, accepted, delivered, outcome>>

(* The classes of the program, whether it has no error, and whether only   *)
(* help was asked for.                                                     *)
Request == [wanted : SUBSET Class, clean : BOOLEAN, help : BOOLEAN]

Init ==
    /\ request \in [Proc -> Request]
    /\ accepted = {}
    /\ delivered = [p \in Proc |-> {}]
    /\ outcome = [p \in Proc |-> "running"]

Accept(p) ==
    /\ outcome[p] = "running"
    /\ request[p].clean
    /\ ~request[p].help
    /\ accepted' = accepted \cup {p}
    /\ UNCHANGED <<request, delivered, outcome>>

Deliver(p) ==
    /\ outcome[p] = "running"
    /\ p \in accepted
    /\ delivered[p] \subseteq delivered'[p]
    /\ delivered'[p] \subseteq request[p].wanted
    /\ delivered' = [delivered EXCEPT ![p] = delivered'[p]]
    /\ UNCHANGED <<request, accepted, outcome>>

Succeed(p) ==
    /\ outcome[p] = "running"
    /\ request[p].help \/ (p \in accepted /\ delivered[p] = request[p].wanted)
    /\ outcome' = [outcome EXCEPT ![p] = "success"]
    /\ UNCHANGED <<request, accepted, delivered>>

Fail(p) ==
    /\ outcome[p] = "running"
    /\ outcome' = [outcome EXCEPT ![p] = "failure"]
    /\ UNCHANGED <<request, accepted, delivered>>

Next == \E p \in Proc : Accept(p) \/ Deliver(p) \/ Succeed(p) \/ Fail(p)

(* What no step may break, and that every run ends. *)
Safety == Init /\ [][Next]_contract

Spec == Safety /\ \A p \in Proc : WF_contract(Fail(p) \/ Succeed(p))
=============================================================================
