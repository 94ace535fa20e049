----------------------------- MODULE AtomicStore -----------------------------
(***************************************************************************)
(* What StateStore promises its users: a cell that a process reads once,   *)
(* at its start, and overwrites as a whole.  It reads what the cell holds, *)
(* or fails and starts afresh.  A save takes effect at one instant between *)
(* its begin and its end, and one that reports failure has taken none.  A  *)
(* process may die anywhere.  When the power fails the cell may fall back  *)
(* to a value it held since the directory was last flushed.                *)
(***************************************************************************)
EXTENDS Naturals

CONSTANTS
    Proc,       \* the processes that use the store
    State       \* the values of a WatchdogState

CONSTANT Fresh  \* the value of an empty store

VARIABLES
    value,      \* what the store holds
    fallback,   \* what a power failure may leave it with
    phase,      \* what each process is doing
    mem,        \* each process's copy of the state
    ok          \* whether each process's latest save has returned True

vars == <<value, fallback, phase, mem, ok>>

Phase == {"down", "loading", "idle", "saving", "saved"}

Move(p, from, to) ==
    /\ phase[p] = from
    /\ phase' = [phase EXCEPT ![p] = to]

Boot(p) ==
    /\ Move(p, "down", "loading")
    /\ UNCHANGED <<value, fallback, mem, ok>>

Load(p) ==
    /\ Move(p, "loading", "idle")
    /\ mem' = [mem EXCEPT ![p] = value]
    /\ UNCHANGED <<value, fallback, ok>>

(* The store cannot be read: the process starts afresh, and is not told. *)
LoadFails(p) ==
    /\ Move(p, "loading", "idle")
    /\ mem' = [mem EXCEPT ![p] = Fresh]
    /\ UNCHANGED <<value, fallback, ok>>

BeginSave(p, state) ==
    /\ Move(p, "idle", "saving")
    /\ mem' = [mem EXCEPT ![p] = state]
    /\ ok' = [ok EXCEPT ![p] = FALSE]
    /\ UNCHANGED <<value, fallback>>

TakeEffect(p) ==
    /\ Move(p, "saving", "saved")
    /\ value' = mem[p]
    /\ fallback' = fallback \union {mem[p]}
    /\ UNCHANGED <<mem, ok>>

Succeed(p) ==
    /\ Move(p, "saved", "idle")
    /\ ok' = [ok EXCEPT ![p] = TRUE]
    /\ UNCHANGED <<value, fallback, mem>>

Fail(p) ==
    /\ Move(p, "saving", "idle")
    /\ UNCHANGED <<value, fallback, mem, ok>>

Die(p) ==
    /\ phase' = [phase EXCEPT ![p] = "down"]
    /\ mem' = [mem EXCEPT ![p] = Fresh]
    /\ ok' = [ok EXCEPT ![p] = FALSE]
    /\ UNCHANGED <<value, fallback>>

Flush ==
    /\ fallback' = {value}
    /\ UNCHANGED <<value, phase, mem, ok>>

PowerFails ==
    /\ value' \in fallback
    /\ fallback' = {value'}
    /\ phase' = [p \in Proc |-> "down"]
    /\ mem' = [p \in Proc |-> Fresh]
    /\ ok' = [p \in Proc |-> FALSE]

Init ==
    /\ value = Fresh
    /\ fallback = {Fresh}
    /\ phase = [p \in Proc |-> "down"]
    /\ mem = [p \in Proc |-> Fresh]
    /\ ok = [p \in Proc |-> FALSE]

ProcessStep(p) ==
    \/ Boot(p)
    \/ Load(p)
    \/ LoadFails(p)
    \/ \E state \in State : BeginSave(p, state)
    \/ TakeEffect(p)
    \/ Succeed(p)
    \/ Fail(p)
    \/ Die(p)

Next ==
    \/ \E p \in Proc : ProcessStep(p)
    \/ Flush
    \/ PowerFails

Spec == Init /\ [][Next]_vars
=============================================================================
