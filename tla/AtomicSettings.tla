--------------------------- MODULE AtomicSettings ---------------------------
(* What a settings update promises: a compare-and-swap of all files at once. *)
(* A plan is made from the settings of one moment and takes effect whole, or *)
(* not at all, and only if nobody changed a file meanwhile.  Whatever else   *)
(* changes a file is somebody else's write, which is counted.                *)
EXTENDS Naturals, FiniteSets

CONSTANTS Files, Contents

VARIABLES value,   \* the settings a reader is entitled to
          plan,    \* the update in progress, Nothing for none
          writes,  \* how often somebody else wrote a file
          late     \* one of them came after the last look of the update at its file

Nothing == <<>>
Plan(new) == [base |-> value, new |-> new]

Init == value \in [Files -> Contents] /\ plan = Nothing /\ writes = 0 /\ late = FALSE

Begin ==
    /\ plan = Nothing
    /\ \E W \in SUBSET Files : \E new \in [W -> Contents] : plan' = Plan(new)
    /\ UNCHANGED <<value, writes, late>>

Commit ==
    /\ plan # Nothing /\ value = plan.base
    /\ value' = [f \in Files |-> IF f \in DOMAIN plan.new THEN plan.new[f] ELSE value[f]]
    /\ plan' = Nothing /\ UNCHANGED <<writes, late>>

Abandon == plan' = Nothing /\ UNCHANGED <<value, writes, late>>

Outside ==
    /\ writes' = writes + 1
    /\ \E f \in Files, c \in Contents : value' = [value EXCEPT ![f] = c]
    /\ plan' \in {plan, Nothing} /\ late' \in {late, TRUE}

(* The update, or its rollback, ends over a write it could not see: this     *)
(* once nothing is promised.                                                 *)
Overrun ==
    /\ late /\ late' \in BOOLEAN
    /\ value' \in [Files -> Contents] /\ plan' = Nothing /\ UNCHANGED writes

Next == Begin \/ Commit \/ Abandon \/ Outside \/ Overrun

Spec == Init /\ [][Next]_<<value, plan, writes, late>>

=============================================================================
