------------------------------ MODULE PluginKey ------------------------------
(***************************************************************************)
(* What the source-plugin cache promises for one key, with no files, names *)
(* or generations in it: an exclusive holder, a binary that only its       *)
(* holder creates or removes, and readers that are registered under the    *)
(* key and keep the binary until they exit.                                *)
(*                                                                         *)
(* A holder that dies leaves the key Dead; somebody else may then free it. *)
(* Nobody frees the key of a running holder.                               *)
(***************************************************************************)
CONSTANTS Proc, Free, Dead

VARIABLES holder,   \* the running process that holds the key, Free or Dead
          present,  \* the binary exists
          readers   \* running processes registered as its readers

keyVars == <<holder, present, readers>>

Init == holder = Free /\ present = FALSE /\ readers = {}

Take(p) == holder = Free /\ holder' = p /\ UNCHANGED <<present, readers>>

Drop(p) == holder = p /\ holder' = Free /\ UNCHANGED <<present, readers>>

Publish(p) == holder = p /\ present' = TRUE /\ UNCHANGED <<holder, readers>>

Register(p) ==
    /\ holder = p /\ present
    /\ readers' = readers \cup {p}
    /\ UNCHANGED <<holder, present>>

Evict(p) ==
    /\ holder = p /\ readers = {}
    /\ present' = FALSE
    /\ UNCHANGED <<holder, readers>>

Exit(p) ==
    /\ holder' = IF holder = p THEN Dead ELSE holder
    /\ readers' = readers \ {p}
    /\ UNCHANGED present

Break == holder = Dead /\ holder' = Free /\ UNCHANGED <<present, readers>>

Next == \/ Break
        \/ \E p \in Proc : \/ Take(p) \/ Drop(p) \/ Publish(p)
                           \/ Register(p) \/ Evict(p) \/ Exit(p)

Spec == Init /\ [][Next]_keyVars
=============================================================================
