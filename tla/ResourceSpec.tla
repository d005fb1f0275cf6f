---------------------------- MODULE ResourceSpec ----------------------------
(***************************************************************************)
(* What an executive resource promises: owners share it, or one has it     *)
(* exclusively; an owner may acquire it again, let others share what it    *)
(* had exclusively, and leave its ownership to somebody else.              *)
(***************************************************************************)
EXTENDS Naturals

CONSTANT Agents

VARIABLE hold   \* hold[a]: the mode a has the resource in, and how many times

Free == [mode |-> "none", count |-> 0]

Init == hold = [a \in Agents |-> Free]

Acquire(a) == /\ \A b \in Agents : hold[b] = Free
              /\ hold' = [hold EXCEPT ![a] = [mode |-> "exclusive", count |-> 1]]

Share(a) == /\ hold[a] = Free
            /\ \A b \in Agents : hold[b].mode # "exclusive"
            /\ hold' = [hold EXCEPT ![a] = [mode |-> "shared", count |-> 1]]

Again(a) == /\ hold[a] # Free
            /\ hold' = [hold EXCEPT ![a].count = @ + 1]

Release(a) ==
    /\ hold[a] # Free
    /\ hold' = [hold EXCEPT ![a] = IF @.count = 1 THEN Free
                                   ELSE [mode |-> @.mode, count |-> @.count - 1]]

Convert(a) == /\ hold[a].mode = "exclusive"
              /\ hold' = [hold EXCEPT ![a].mode = "shared"]

Leave(a, b) ==
    /\ hold[a] # Free
    /\ a # b
    /\ hold' = [hold EXCEPT ![a] = Free,
                            ![b] = [mode |-> hold[a].mode,
                                    count |-> hold[a].count + @.count]]

Next == \E a \in Agents : \/ Acquire(a) \/ Share(a) \/ Again(a)
                          \/ Release(a) \/ Convert(a)
                          \/ \E b \in Agents : Leave(a, b)

Spec == Init /\ [][Next]_hold
=============================================================================
