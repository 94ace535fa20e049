----------------------------- MODULE StateStore -----------------------------
(***************************************************************************)
(* The state file step by step: StateStore.load and save (state.py), with  *)
(* atomic_write_json as the system calls it makes.  Several processes may  *)
(* use one file: the daemon, the restart command beside it, a run --once;  *)
(* a request to the state endpoint loads the file as a process that starts *)
(* does, and ends there.  Any step may fail, any process may be killed,    *)
(* the power may fail.                                                     *)
(*                                                                         *)
(* Of a WatchdogState the attempts on record are kept, as something that   *)
(* must not be lost.                                                       *)
(***************************************************************************)
EXTENDS Naturals

CONSTANTS
    Proc,       \* the processes that use the file
    Attempt,    \* what a process may put on record
    TempName    \* names NamedTemporaryFile may choose

ASSUME StoreAssumption == "none" \notin TempName

VARIABLES
    file,       \* what the path of the state file names
    durable,    \* what it may name after a power failure
    temps,      \* what each temporary name names
    step,       \* where each process is
    mem,        \* its WatchdogState
    temp,       \* its temporary_path, once there is one
    ok,         \* whether its latest save has returned True
    made,       \* history: the attempts recorded so far
    confirmed,  \* history: those that were in a save that returned True
    orphans,    \* history: temporary names left by a death or a failed unlink
    missed,     \* history: what each process does not know of, because it could
                \* not read the file, or because others saved since it loaded
    lost        \* history: attempts that were in the file and are not any more

files     == <<file, durable, temps>>
processes == <<step, mem, temp, ok>>
history   == <<made, confirmed, orphans, missed, lost>>
vars      == <<files, processes, history>>

State == SUBSET Attempt

Fresh == {}

(* A file: whole or cut short, and whether its content would survive the   *)
(* power; "none" for no file.                                              *)
Inode == [kind : {"none", "torn", "whole"}, state : State, synced : BOOLEAN]

Absent == [kind |-> "none", state |-> Fresh, synced |-> TRUE]

(* A file that is empty, cut short, or that nobody will look at again. *)
Scrap == [kind |-> "torn", state |-> Fresh, synced |-> FALSE]

Step == {"down", "look", "read", "run", "create", "write", "sync", "replace",
         "unlink", "saved"}

Saving == {"write", "sync", "replace", "unlink"}

(* What a file that can be read says; one that is cut short cannot be      *)
(* parsed, which gives a fresh state.                                      *)
Loaded(inode) == IF inode.kind = "whole" THEN inode.state ELSE Fresh

TypeOK ==
    /\ file \in Inode
    /\ durable \in SUBSET Inode
    /\ temps \in [TempName -> Inode]
    /\ step \in [Proc -> Step]
    /\ mem \in [Proc -> State]
    /\ temp \in [Proc -> TempName \union {"none"}]
    /\ \A p \in Proc : step[p] \in Saving => temp[p] \in TempName
    /\ ok \in [Proc -> BOOLEAN]
    /\ made \in State
    /\ confirmed \in State
    /\ orphans \in SUBSET TempName
    /\ missed \in [Proc -> State]
    /\ lost \in State

HasLoaded(p) == step[p] \notin {"down", "look", "read"}

Goto(p, from, to) ==
    /\ step[p] = from
    /\ step' = [step EXCEPT ![p] = to]

-----------------------------------------------------------------------------
(* load, by a process that starts.                                         *)

Boot(p) ==
    /\ Goto(p, "down", "look")
    /\ UNCHANGED <<files, mem, temp, ok, history>>

(* path.exists() *)
LookUp(p) ==
    /\ Goto(p, "look", IF file.kind = "none" THEN "run" ELSE "read")
    /\ UNCHANGED <<files, mem, temp, ok, history>>

(* path.read_text() and what follows it. *)
Read(p) ==
    /\ Goto(p, "read", "run")
    /\ mem' = [mem EXCEPT ![p] = Loaded(file)]
    /\ UNCHANGED <<files, temp, ok, history>>

(* Any exception of these, whatever the file holds, is logged and gives a  *)
(* fresh state.                                                            *)
ReadFails(p) ==
    /\ Goto(p, "read", "run")
    /\ mem' = [mem EXCEPT ![p] = Fresh]
    /\ missed' = [missed EXCEPT ![p] = Loaded(file)]
    /\ UNCHANGED <<files, temp, ok, made, confirmed, orphans, lost>>

-----------------------------------------------------------------------------
(* save.                                                                   *)

(* A new attempt is recorded and to be saved (request_restart). *)
Record(p, a) ==
    /\ a \notin made
    /\ Goto(p, "run", "create")
    /\ mem' = [mem EXCEPT ![p] = @ \union {a}]
    /\ ok' = [ok EXCEPT ![p] = FALSE]
    /\ made' = made \union {a}
    /\ UNCHANGED <<files, temp, confirmed, orphans, missed, lost>>

(* Any other save, after a verdict, an alert, a verification. *)
SaveAgain(p) ==
    /\ Goto(p, "run", "create")
    /\ ok' = [ok EXCEPT ![p] = FALSE]
    /\ UNCHANGED <<files, mem, temp, history>>

(* Faulty: the name may be in use (no O_EXCL, or a fixed name). *)
CreateShared(p, n) ==
    /\ Goto(p, "create", "write")
    /\ temps' = [temps EXCEPT ![n] = Scrap]
    /\ temp' = [temp EXCEPT ![p] = n]
    /\ UNCHANGED <<file, durable, mem, ok, history>>

(* NamedTemporaryFile makes an empty file under a name nobody has. *)
Create(p, n) ==
    /\ temps[n].kind = "none"
    /\ Goto(p, "create", "write")
    /\ temps' = [temps EXCEPT ![n] = Scrap]
    /\ temp' = [temp EXCEPT ![p] = n]
    /\ UNCHANGED <<file, durable, mem, ok, history>>

(* mkdir or the creation fails: there is nothing to clean up. *)
CreateFails(p) ==
    /\ Goto(p, "create", "run")
    /\ UNCHANGED <<files, mem, temp, ok, history>>

(* Faulty: the file is renamed without fsync. *)
WriteUnsynced(p) ==
    /\ Goto(p, "write", "replace")
    /\ temps' = [temps EXCEPT ![temp[p]].kind = "whole", ![temp[p]].state = mem[p]]
    /\ UNCHANGED <<file, durable, mem, temp, ok, history>>

(* json.dump and flush. *)
Write(p) ==
    /\ Goto(p, "write", "sync")
    /\ temps' = [temps EXCEPT ![temp[p]].kind = "whole", ![temp[p]].state = mem[p]]
    /\ UNCHANGED <<file, durable, mem, temp, ok, history>>

(* os.fsync, and the end of the with block. *)
Sync(p) ==
    /\ Goto(p, "sync", "replace")
    /\ temps' = [temps EXCEPT ![temp[p]].synced = TRUE]
    /\ UNCHANGED <<file, durable, mem, temp, ok, history>>

(* os.replace: the name changes at once, on the disk at some time later.   *)
(* What the process missed of the old content is lost with it.             *)
Replace(p) ==
    /\ Goto(p, "replace", "saved")
    /\ file' = temps[temp[p]]
    /\ durable' = durable \union {temps[temp[p]]}
    /\ temps' = [temps EXCEPT ![temp[p]] = Absent]
    /\ missed' = [q \in Proc |-> IF q # p /\ HasLoaded(q) THEN missed[q] \union mem[p]
                                                          ELSE missed[q]]
    /\ lost' = (lost \union (Loaded(file) \intersect missed[p])) \ mem[p]
    /\ UNCHANGED <<mem, temp, ok, made, confirmed, orphans>>

(* Writing, syncing or replacing raises. *)
SaveRaises(p) ==
    /\ step[p] \in {"write", "sync", "replace"}
    /\ step' = [step EXCEPT ![p] = "unlink"]
    /\ temps' = [temps EXCEPT ![temp[p]] = Scrap]
    /\ UNCHANGED <<file, durable, mem, temp, ok, history>>

(* Faulty: the clean-up removes the state file, not the temporary one. *)
UnlinkPath(p) ==
    /\ Goto(p, "unlink", "run")
    /\ file' = Absent
    /\ durable' = durable \union {Absent}
    /\ temp' = [temp EXCEPT ![p] = "none"]
    /\ orphans' = orphans \union {temp[p]}
    /\ UNCHANGED <<temps, mem, ok, made, confirmed, missed, lost>>

(* Faulty: the exception is not raised again after the clean-up. *)
UnlinkSwallowed(p) ==
    /\ Goto(p, "unlink", "run")
    /\ temps' = [temps EXCEPT ![temp[p]] = Absent]
    /\ temp' = [temp EXCEPT ![p] = "none"]
    /\ ok' = [ok EXCEPT ![p] = TRUE]
    /\ confirmed' = confirmed \union mem[p]
    /\ UNCHANGED <<file, durable, mem, made, orphans, missed, lost>>

(* The clean-up of a failed save, which returns False. *)
Unlink(p) ==
    /\ Goto(p, "unlink", "run")
    /\ temps' = [temps EXCEPT ![temp[p]] = Absent]
    /\ temp' = [temp EXCEPT ![p] = "none"]
    /\ UNCHANGED <<file, durable, mem, ok, history>>

(* The clean-up fails as well. *)
UnlinkFails(p) ==
    /\ Goto(p, "unlink", "run")
    /\ temp' = [temp EXCEPT ![p] = "none"]
    /\ orphans' = orphans \union {temp[p]}
    /\ UNCHANGED <<files, mem, ok, made, confirmed, missed, lost>>

(* save returns True. *)
Saved(p) ==
    /\ Goto(p, "saved", "run")
    /\ temp' = [temp EXCEPT ![p] = "none"]
    /\ ok' = [ok EXCEPT ![p] = TRUE]
    /\ confirmed' = confirmed \union mem[p]
    /\ UNCHANGED <<files, mem, made, orphans, missed, lost>>

-----------------------------------------------------------------------------
(* The world.                                                              *)

(* The temporary files of processes that vanish stay. *)
LeaveBehind(procs) ==
    LET left == {temp[p] : p \in {q \in procs : step[q] \in Saving}} IN
    /\ orphans' = orphans \union left
    /\ temps' = [n \in TempName |-> IF n \in left THEN Scrap ELSE temps[n]]

(* The process ends or is killed. *)
Die(p) ==
    /\ step[p] # "down"
    /\ step' = [step EXCEPT ![p] = "down"]
    /\ mem' = [mem EXCEPT ![p] = Fresh]
    /\ temp' = [temp EXCEPT ![p] = "none"]
    /\ ok' = [ok EXCEPT ![p] = FALSE]
    /\ LeaveBehind({p})
    /\ missed' = [missed EXCEPT ![p] = {}]
    /\ UNCHANGED <<file, durable, made, confirmed, lost>>

(* The directory reaches the disk. *)
Flush ==
    /\ durable' = {file}
    /\ UNCHANGED <<file, temps, processes, history>>

(* What is left of a file: one that was not synced may be cut short. *)
Leftovers(inode) ==
    IF inode.synced THEN {inode} ELSE {inode, [inode EXCEPT !.kind = "torn"]}

(* The path may name what it did before the directory was last flushed. *)
PowerFails ==
    /\ \E inode \in durable : file' \in Leftovers(inode)
    /\ durable' = {file'}
    /\ step' = [p \in Proc |-> "down"]
    /\ mem' = [p \in Proc |-> Fresh]
    /\ temp' = [p \in Proc |-> "none"]
    /\ ok' = [p \in Proc |-> FALSE]
    /\ LeaveBehind(Proc)
    /\ missed' = [p \in Proc |-> {}]
    /\ lost' = IF durable = {file} THEN lost ELSE (lost \union Loaded(file)) \ Loaded(file')
    /\ UNCHANGED <<made, confirmed>>

-----------------------------------------------------------------------------
Init ==
    /\ file = Absent
    /\ durable = {Absent}
    /\ temps = [n \in TempName |-> Absent]
    /\ step = [p \in Proc |-> "down"]
    /\ mem = [p \in Proc |-> Fresh]
    /\ temp = [p \in Proc |-> "none"]
    /\ ok = [p \in Proc |-> FALSE]
    /\ made = {}
    /\ confirmed = {}
    /\ orphans = {}
    /\ missed = [p \in Proc |-> {}]
    /\ lost = {}

ProcessStep(p) ==
    \/ Boot(p)
    \/ LookUp(p)
    \/ Read(p)
    \/ ReadFails(p)
    \/ \E a \in Attempt : Record(p, a)
    \/ SaveAgain(p)
    \/ \E n \in TempName : Create(p, n)
    \/ CreateFails(p)
    \/ Write(p)
    \/ Sync(p)
    \/ Replace(p)
    \/ SaveRaises(p)
    \/ Unlink(p)
    \/ UnlinkFails(p)
    \/ Saved(p)
    \/ Die(p)

Next ==
    \/ \E p \in Proc : ProcessStep(p)
    \/ Flush
    \/ PowerFails

Spec == Init /\ [][Next]_vars
=============================================================================
