------------------------- MODULE StateStoreProperties -------------------------
(* What must be true of the state file (module StateStore). *)
EXTENDS StateStore

(* What the path names is never cut short, neither now, whatever other     *)
(* processes are writing, nor after a power failure: the content is synced *)
(* before the rename, and temporary files are never shared.                *)
Untorn == \A inode \in durable \union {file} : inode.kind # "torn" /\ inode.synced

(* A temporary file belongs to one save in progress, or was left behind by *)
(* a process that died or could not remove it: nothing else leaks files    *)
(* into the state directory.                                               *)
TempsAccounted ==
    /\ \A n \in TempName : temps[n].kind # "none" =>
          n \in orphans \/ \E p \in Proc : step[p] \in Saving /\ temp[p] = n
    /\ \A p, q \in Proc :
          step[p] \in Saving /\ step[q] \in Saving /\ temp[p] = temp[q] => p = q

(* An attempt that was in a save that returned True stays in the file and  *)
(* is known to every process that loads it, through failed saves and       *)
(* deaths at any system call, but in three ways: the file could not be     *)
(* read by the process that then saves; another process saved it after     *)
(* the process that then saves had loaded, as the restart command does     *)
(* beside a daemon; or the power failed before the directory was flushed,  *)
(* as atomic_write_json does not sync it.  A save writes over nothing that *)
(* its process did not miss.                                               *)
ConfirmedKept ==
    /\ confirmed \subseteq Loaded(file) \union lost
    /\ \A p \in Proc : HasLoaded(p) => confirmed \subseteq mem[p] \union missed[p] \union lost

(* The steps above, seen as operations that take effect at one instant. *)
PhaseOf(label) ==
    CASE label = "down"             -> "down"
      [] label \in {"look", "read"} -> "loading"
      [] label = "run"              -> "idle"
      [] label = "saved"            -> "saved"
      [] OTHER                      -> "saving"

Abstract == INSTANCE AtomicStore WITH
    value    <- Loaded(file),
    fallback <- {Loaded(inode) : inode \in durable},
    phase    <- [p \in Proc |-> PhaseOf(step[p])]

(* The state file implements the store its users rely on: no load sees     *)
(* half a save, a request to the state endpoint included, and a save that  *)
(* returns False has changed nothing.                                      *)
ImplementsAtomicStore == Abstract!Spec

-----------------------------------------------------------------------------
(* The inductive invariant behind them.                                    *)

(* How far a save has brought its temporary file. *)
TempProgress ==
    \A p \in Proc :
        LET inode == temps[temp[p]] IN
        /\ step[p] \in Saving => inode.kind # "none"
        /\ step[p] \in {"sync", "replace"} => inode.kind = "whole" /\ inode.state = mem[p]
        /\ step[p] = "replace" => inode.synced

(* A process knows what the file holds, but for what it missed.            *)
CopiesCurrent ==
    \A p \in Proc :
        /\ HasLoaded(p) => Loaded(file) \subseteq mem[p] \union missed[p]
        /\ step[p] = "saved" => mem[p] \subseteq Loaded(file) \union lost

FileFlushable == file \in durable

(* A process that has not loaded yet knows nothing, and missed nothing. *)
UnloadedFresh == \A p \in Proc : ~HasLoaded(p) => mem[p] = Fresh /\ missed[p] = {}

(* Nothing is forgotten before it is saved, and nothing is torn or shared  *)
(* on the way to the path.                                                 *)
StoreInv ==
    /\ TypeOK
    /\ Untorn
    /\ TempsAccounted
    /\ TempProgress
    /\ FileFlushable
    /\ UnloadedFresh
    /\ CopiesCurrent
    /\ ConfirmedKept
=============================================================================
