-------------------------- MODULE StateStoreProofs --------------------------
(***************************************************************************)
(* Theorems about the state file, for any number of processes, attempts    *)
(* and temporary names: it is never torn, confirmed attempts are kept, and *)
(* it implements AtomicStore.                                              *)
(***************************************************************************)
EXTENDS StateStoreProperties, TLAPS

USE DEF State, Fresh, HasLoaded, Loaded

-----------------------------------------------------------------------------
(* Loading: nothing but the process's own copy changes. *)
LEMMA LoadKeepsInv ==
    ASSUME StoreInv, NEW p \in Proc, Boot(p) \/ LookUp(p) \/ Read(p) \/ ReadFails(p)
    PROVE  StoreInv'
<1> USE DEF Goto, Boot, LookUp, Read, ReadFails, files, history, Saving
<1>1. TypeOK'
  <2>1. CASE Boot(p)
    BY <2>1 DEF StoreInv, TypeOK, Step
  <2>2. CASE LookUp(p)
    BY <2>2 DEF StoreInv, TypeOK, Step
  <2>3. CASE Read(p)
    BY <2>3 DEF StoreInv, TypeOK, Step, Inode
  <2>4. CASE ReadFails(p)
    BY <2>4 DEF StoreInv, TypeOK, Step, Inode
  <2> QED  BY <2>1, <2>2, <2>3, <2>4
<1>2. Untorn' /\ FileFlushable'
  BY DEF StoreInv, Untorn, FileFlushable
<1>3. TempsAccounted'
  BY DEF StoreInv, TypeOK, TempsAccounted
<1>4. TempProgress'
  BY DEF StoreInv, TypeOK, TempProgress
<1>5. CopiesCurrent'
  <2>1. CASE Boot(p)
    BY <2>1 DEF StoreInv, TypeOK, CopiesCurrent
  <2>2. CASE LookUp(p)
    BY <2>2 DEF StoreInv, TypeOK, CopiesCurrent
  <2>3. CASE Read(p)
    BY <2>3 DEF StoreInv, TypeOK, CopiesCurrent
  <2>4. CASE ReadFails(p)
    BY <2>4 DEF StoreInv, TypeOK, CopiesCurrent
  <2> QED  BY <2>1, <2>2, <2>3, <2>4
<1>6. ConfirmedKept'
  <2>1. CASE Boot(p)
    BY <2>1 DEF StoreInv, TypeOK, ConfirmedKept
  <2>2. CASE LookUp(p)
    BY <2>2 DEF StoreInv, TypeOK, ConfirmedKept, Inode, Untorn
  <2>3. CASE Read(p)
    BY <2>3 DEF StoreInv, TypeOK, ConfirmedKept
  <2>4. CASE ReadFails(p)
    BY <2>4 DEF StoreInv, TypeOK, ConfirmedKept
  <2> QED  BY <2>1, <2>2, <2>3, <2>4
<1>20. UnloadedFresh'
  BY DEF StoreInv, TypeOK, UnloadedFresh
<1> QED  BY <1>1, <1>2, <1>3, <1>4, <1>5, <1>6, <1>20 DEF StoreInv

(* A save begins. *)
LEMMA BeginKeepsInv ==
    ASSUME StoreInv, NEW p \in Proc,
           SaveAgain(p) \/ CreateFails(p) \/ \E a \in Attempt : Record(p, a)
    PROVE  StoreInv'
<1> USE DEF Goto, SaveAgain, CreateFails, Record, files, history, Saving
<1>1. TypeOK'
  <2>1. CASE SaveAgain(p)
    BY <2>1 DEF StoreInv, TypeOK, Step
  <2>2. CASE CreateFails(p)
    BY <2>2 DEF StoreInv, TypeOK, Step
  <2>3. CASE \E a \in Attempt : Record(p, a)
    BY <2>3 DEF StoreInv, TypeOK, Step
  <2> QED  BY <2>1, <2>2, <2>3
<1>2. Untorn' /\ FileFlushable'
  BY DEF StoreInv, Untorn, FileFlushable
<1>3. TempsAccounted'
  BY DEF StoreInv, TypeOK, TempsAccounted
<1>4. TempProgress'
  BY DEF StoreInv, TypeOK, TempProgress
<1>5. CopiesCurrent'
  <2>1. CASE SaveAgain(p)
    BY <2>1 DEF StoreInv, TypeOK, CopiesCurrent
  <2>2. CASE CreateFails(p)
    BY <2>2 DEF StoreInv, TypeOK, CopiesCurrent
  <2>3. CASE \E a \in Attempt : Record(p, a)
    BY <2>3 DEF StoreInv, TypeOK, CopiesCurrent
  <2> QED  BY <2>1, <2>2, <2>3
<1>6. ConfirmedKept'
  <2>1. CASE SaveAgain(p)
    BY <2>1 DEF StoreInv, TypeOK, ConfirmedKept
  <2>2. CASE CreateFails(p)
    BY <2>2 DEF StoreInv, TypeOK, ConfirmedKept
  <2>3. CASE \E a \in Attempt : Record(p, a)
    BY <2>3 DEF StoreInv, TypeOK, ConfirmedKept
  <2> QED  BY <2>1, <2>2, <2>3
<1>20. UnloadedFresh'
  BY DEF StoreInv, TypeOK, UnloadedFresh
<1> QED  BY <1>1, <1>2, <1>3, <1>4, <1>5, <1>6, <1>20 DEF StoreInv

(* The temporary file is made under a name that is free. *)
LEMMA CreateKeepsInv ==
    ASSUME StoreInv, NEW p \in Proc, NEW n \in TempName, Create(p, n)
    PROVE  StoreInv'
<1> USE DEF Goto, Create, history, Saving, Scrap
<1>1. TypeOK'
  BY DEF StoreInv, TypeOK, Step, Inode
<1>2. Untorn' /\ FileFlushable'
  BY DEF StoreInv, Untorn, FileFlushable
<1>3. \A q \in Proc : step[q] \in Saving => temp[q] # n
  BY DEF StoreInv, TypeOK, TempProgress
<1>4. TempsAccounted'
  BY <1>3 DEF StoreInv, TypeOK, TempsAccounted
<1>5. TempProgress'
  BY <1>3 DEF StoreInv, TypeOK, TempProgress, Inode
<1>6. CopiesCurrent'
  BY DEF StoreInv, TypeOK, CopiesCurrent
<1>7. ConfirmedKept'
  BY DEF StoreInv, TypeOK, ConfirmedKept
<1>20. UnloadedFresh'
  BY DEF StoreInv, TypeOK, UnloadedFresh
<1> QED  BY <1>1, <1>2, <1>4, <1>5, <1>6, <1>7, <1>20 DEF StoreInv

(* The temporary file is filled and synced; it is the process's own. *)
LEMMA WriteKeepsInv ==
    ASSUME StoreInv, NEW p \in Proc, Write(p) \/ Sync(p)
    PROVE  StoreInv'
<1> USE DEF Goto, Write, Sync, history, Saving
<1>1. TypeOK'
  <2>1. CASE Write(p)
    <3>1. temp[p] \in TempName /\ temps[temp[p]] \in Inode /\ mem[p] \in State
      BY <2>1 DEF StoreInv, TypeOK
    <3>2. temps' \in [TempName -> Inode]
      BY <2>1, <3>1 DEF StoreInv, TypeOK, Inode
    <3> QED  BY <2>1, <3>2 DEF StoreInv, TypeOK, Step
  <2>2. CASE Sync(p)
    <3>1. temp[p] \in TempName /\ temps[temp[p]] \in Inode
      BY <2>2 DEF StoreInv, TypeOK
    <3>2. temps' \in [TempName -> Inode]
      BY <2>2, <3>1 DEF StoreInv, TypeOK, Inode
    <3> QED  BY <2>2, <3>2 DEF StoreInv, TypeOK, Step
  <2> QED  BY <2>1, <2>2
<1>2. Untorn' /\ FileFlushable'
  BY DEF StoreInv, Untorn, FileFlushable
<1>3. \A q \in Proc : q # p /\ step[q] \in Saving => temp[q] # temp[p]
  BY DEF StoreInv, TempsAccounted
<1>4. TempsAccounted'
  <2>1. \A n \in TempName : n # temp[p] => temps'[n] = temps[n]
    BY DEF StoreInv, TypeOK
  <2>2. temp' = temp /\ orphans' = orphans /\ \A q \in Proc : step'[q] \in Saving <=> step[q] \in Saving
    BY DEF StoreInv, TypeOK
  <2> QED  BY <2>1, <2>2 DEF StoreInv, TypeOK, TempsAccounted
<1>5. TempProgress'
  BY <1>3 DEF StoreInv, TypeOK, TempProgress, Inode
<1>6. CopiesCurrent'
  BY DEF StoreInv, TypeOK, CopiesCurrent
<1>7. ConfirmedKept'
  BY DEF StoreInv, TypeOK, ConfirmedKept
<1>20. UnloadedFresh'
  BY DEF StoreInv, TypeOK, UnloadedFresh
<1> QED  BY <1>1, <1>2, <1>4, <1>5, <1>6, <1>7, <1>20 DEF StoreInv

(* The rename: what it puts in place is whole, synced and has everything   *)
(* the file had but for what the process missed, which is lost with it.    *)
LEMMA ReplaceKeepsInv ==
    ASSUME StoreInv, NEW p \in Proc, Replace(p)
    PROVE  StoreInv'
<1> USE DEF Goto, Replace, history, Saving, Absent
<1>1. /\ temp[p] \in TempName
      /\ temps[temp[p]] \in Inode
      /\ temps[temp[p]].kind = "whole"
      /\ temps[temp[p]].state = mem[p]
      /\ temps[temp[p]].synced
  BY DEF StoreInv, TypeOK, TempProgress
<1>2. file' \in Inode /\ Loaded(file') = mem[p]
  BY <1>1
<1>3. TypeOK'
  BY <1>1 DEF StoreInv, TypeOK, Step, Inode
<1>4. Untorn' /\ FileFlushable'
  BY <1>1 DEF StoreInv, Untorn, FileFlushable
<1>5. \A q \in Proc : q # p /\ step[q] \in Saving => temp[q] # temp[p]
  BY DEF StoreInv, TempsAccounted
<1>6. TempsAccounted'
  BY <1>1, <1>5 DEF StoreInv, TypeOK, TempsAccounted
<1>7. TempProgress'
  BY <1>1, <1>5 DEF StoreInv, TypeOK, TempProgress
<1>8. /\ Loaded(file) \union lost \subseteq mem[p] \union lost'
      /\ lost \subseteq mem[p] \union lost'
  <2>1. Loaded(file) \subseteq mem[p] \union missed[p]
    BY DEF StoreInv, CopiesCurrent
  <2>2. lost' = (lost \union (Loaded(file) \intersect missed[p])) \ mem[p]
    BY DEF Replace
  <2> HIDE DEF Loaded, Replace
  <2> QED  BY <2>1, <2>2
<1>9. CopiesCurrent'
  <2>1. ASSUME NEW q \in Proc, HasLoaded(q)'
        PROVE  Loaded(file)' \subseteq mem'[q] \union missed'[q]
    <3>1. CASE q = p
      BY <1>2, <3>1
    <3>2. CASE q # p
      <4>1. HasLoaded(q) /\ missed'[q] = missed[q] \union mem[p] /\ Loaded(file)' = mem[p]
        BY <1>2, <2>1, <3>2 DEF StoreInv, TypeOK
      <4> QED  BY <4>1
    <3> QED  BY <3>1, <3>2
  <2>2. ASSUME NEW q \in Proc, step'[q] = "saved"
        PROVE  mem'[q] \subseteq Loaded(file)' \union lost'
    <3>1. CASE q = p
      BY <1>2, <3>1
    <3>2. CASE q # p
      <4>1. step[q] = "saved" /\ mem'[q] = mem[q] /\ Loaded(file)' = mem[p]
        BY <1>2, <2>2, <3>2 DEF StoreInv, TypeOK
      <4>2. mem[q] \subseteq Loaded(file) \union lost
        BY <4>1 DEF StoreInv, CopiesCurrent
      <4> HIDE DEF Loaded, Replace
      <4> QED  BY <1>8, <4>1, <4>2
    <3> QED  BY <3>1, <3>2
  <2> QED  BY <2>1, <2>2 DEF CopiesCurrent
<1>10. ConfirmedKept'
  <2>1. confirmed' \subseteq Loaded(file)' \union lost'
    <3>1. confirmed \subseteq Loaded(file) \union lost /\ Loaded(file)' = mem[p] /\ confirmed' = confirmed
      BY <1>2 DEF StoreInv, ConfirmedKept
    <3> HIDE DEF Loaded, Replace
    <3> QED  BY <1>8, <3>1
  <2>2. ASSUME NEW q \in Proc, HasLoaded(q)'
        PROVE  confirmed' \subseteq mem'[q] \union missed'[q] \union lost'
    <3>1. CASE q = p
      BY <1>2, <2>1, <3>1
    <3>2. CASE q # p
      <4>1. /\ HasLoaded(q) /\ missed'[q] = missed[q] \union mem[p]
            /\ mem' = mem /\ confirmed' = confirmed
        BY <2>2, <3>2 DEF StoreInv, TypeOK
      <4>2. confirmed \subseteq mem[q] \union missed[q] \union lost
        BY <4>1 DEF StoreInv, ConfirmedKept
      <4> HIDE DEF Loaded, Replace, HasLoaded
      <4> QED  BY <1>8, <4>1, <4>2
    <3> QED  BY <3>1, <3>2
  <2> QED  BY <2>1, <2>2 DEF ConfirmedKept
<1>20. UnloadedFresh'
  BY DEF StoreInv, TypeOK, UnloadedFresh
<1> QED  BY <1>3, <1>4, <1>6, <1>7, <1>9, <1>10, <1>20 DEF StoreInv

(* A save that fails, and its clean-up. *)
LEMMA FailKeepsInv ==
    ASSUME StoreInv, NEW p \in Proc, SaveRaises(p) \/ Unlink(p) \/ UnlinkFails(p)
    PROVE  StoreInv'
<1> USE DEF Goto, SaveRaises, Unlink, UnlinkFails, files, history, Saving, Scrap, Absent
<1>1. temp[p] \in TempName
  BY DEF StoreInv, TypeOK
<1>2. TypeOK'
  <2>1. CASE SaveRaises(p)
    BY <1>1, <2>1 DEF StoreInv, TypeOK, Step, Inode
  <2>2. CASE Unlink(p)
    BY <1>1, <2>2 DEF StoreInv, TypeOK, Step, Inode
  <2>3. CASE UnlinkFails(p)
    BY <1>1, <2>3 DEF StoreInv, TypeOK, Step
  <2> QED  BY <2>1, <2>2, <2>3
<1>3. Untorn' /\ FileFlushable'
  BY DEF StoreInv, Untorn, FileFlushable
<1>4. \A q \in Proc : q # p /\ step[q] \in Saving => temp[q] # temp[p]
  BY DEF StoreInv, TempsAccounted
<1>5. TempsAccounted'
  <2>1. CASE SaveRaises(p)
    BY <1>1, <1>4, <2>1 DEF StoreInv, TypeOK, TempsAccounted
  <2>2. CASE Unlink(p)
    BY <1>1, <1>4, <2>2 DEF StoreInv, TypeOK, TempsAccounted
  <2>3. CASE UnlinkFails(p)
    BY <1>1, <1>4, <2>3 DEF StoreInv, TypeOK, TempsAccounted
  <2> QED  BY <2>1, <2>2, <2>3
<1>6. TempProgress'
  BY <1>1, <1>4 DEF StoreInv, TypeOK, TempProgress
<1>7. CopiesCurrent'
  BY DEF StoreInv, TypeOK, CopiesCurrent
<1>8. ConfirmedKept'
  BY DEF StoreInv, TypeOK, ConfirmedKept
<1>20. UnloadedFresh'
  BY DEF StoreInv, TypeOK, UnloadedFresh
<1> QED  BY <1>2, <1>3, <1>5, <1>6, <1>7, <1>8, <1>20 DEF StoreInv

(* A save returns True: the file still has what was saved, but for what a  *)
(* save of another process has written over since the rename.              *)
LEMMA SavedKeepsInv ==
    ASSUME StoreInv, NEW p \in Proc, Saved(p)
    PROVE  StoreInv'
<1> USE DEF Goto, Saved, files, Saving
<1>1. TypeOK'
  BY DEF StoreInv, TypeOK, Step
<1>2. Untorn' /\ FileFlushable'
  BY DEF StoreInv, Untorn, FileFlushable
<1>3. TempsAccounted'
  BY DEF StoreInv, TypeOK, TempsAccounted
<1>4. TempProgress'
  BY DEF StoreInv, TypeOK, TempProgress
<1>5. CopiesCurrent'
  BY DEF StoreInv, TypeOK, CopiesCurrent
<1>6. mem[p] \subseteq Loaded(file) \union lost
  BY DEF StoreInv, CopiesCurrent
<1>7. ConfirmedKept'
  <2>1. \A q \in Proc : HasLoaded(q)' => HasLoaded(q) /\ Loaded(file) \subseteq mem[q] \union missed[q]
    BY DEF StoreInv, TypeOK, CopiesCurrent
  <2>2. /\ confirmed' = confirmed \union mem[p] /\ Loaded(file)' = Loaded(file)
        /\ mem' = mem /\ missed' = missed /\ lost' = lost
    OBVIOUS
  <2>3. /\ confirmed \subseteq Loaded(file) \union lost
        /\ \A q \in Proc : HasLoaded(q) => confirmed \subseteq mem[q] \union missed[q] \union lost
    BY DEF StoreInv, ConfirmedKept
  <2> HIDE DEF Loaded, Saved, HasLoaded
  <2> QED  BY <1>6, <2>1, <2>2, <2>3 DEF ConfirmedKept
<1>20. UnloadedFresh'
  BY DEF StoreInv, TypeOK, UnloadedFresh
<1> QED  BY <1>1, <1>2, <1>3, <1>4, <1>5, <1>7, <1>20 DEF StoreInv

(* A process dies. *)
LEMMA DieKeepsInv ==
    ASSUME StoreInv, NEW p \in Proc, Die(p)
    PROVE  StoreInv'
<1> USE DEF Die, LeaveBehind, Saving, Scrap
<1> DEFINE left == {temp[r] : r \in {q \in {p} : step[q] \in Saving}}
<1>1. left \subseteq TempName
  BY DEF StoreInv, TypeOK
<1>2. TypeOK'
  BY <1>1 DEF StoreInv, TypeOK, Step, Inode
<1>3. Untorn' /\ FileFlushable'
  BY DEF StoreInv, Untorn, FileFlushable
<1>4. \A q \in Proc : q # p /\ step[q] \in Saving => temp[q] \notin left
  BY DEF StoreInv, TempsAccounted
<1>5. TempsAccounted'
  BY <1>4 DEF StoreInv, TypeOK, TempsAccounted
<1>6. TempProgress'
  BY <1>4 DEF StoreInv, TypeOK, TempProgress
<1>7. CopiesCurrent'
  BY DEF StoreInv, TypeOK, CopiesCurrent
<1>8. ConfirmedKept'
  BY DEF StoreInv, TypeOK, ConfirmedKept
<1>20. UnloadedFresh'
  BY DEF StoreInv, TypeOK, UnloadedFresh
<1> QED  BY <1>2, <1>3, <1>5, <1>6, <1>7, <1>8, <1>20 DEF StoreInv

(* The directory is flushed, or the power fails: every file the path may   *)
(* name then is whole.                                                     *)
LEMMA WorldKeepsInv ==
    ASSUME StoreInv, Flush \/ PowerFails
    PROVE  StoreInv'
<1>1. CASE Flush
  BY <1>1 DEF Flush, StoreInv, TypeOK, Untorn, TempsAccounted, TempProgress, FileFlushable,
              CopiesCurrent, ConfirmedKept, UnloadedFresh, processes, history
<1>2. CASE PowerFails
  <2> USE <1>2 DEF PowerFails, LeaveBehind, Saving, Scrap
  <2> DEFINE left == {temp[r] : r \in {q \in Proc : step[q] \in Saving}}
  <2>1. file' \in durable
    BY DEF Leftovers, StoreInv, Untorn
  <2>2. left \subseteq TempName
    BY DEF StoreInv, TypeOK
  <2>3. TypeOK'
    BY <2>1, <2>2 DEF StoreInv, TypeOK, Step, Inode
  <2>4. Untorn' /\ FileFlushable'
    BY <2>1 DEF StoreInv, Untorn, FileFlushable
  <2>5. TempsAccounted'
    BY <2>2 DEF StoreInv, TypeOK, TempsAccounted
  <2>6. TempProgress' /\ CopiesCurrent' /\ UnloadedFresh'
    BY DEF TempProgress, CopiesCurrent, UnloadedFresh
  <2>7. ConfirmedKept'
    <3>1. confirmed \subseteq Loaded(file) \union lost /\ confirmed' = confirmed
      BY DEF StoreInv, ConfirmedKept
    <3>2. Loaded(file) \union lost \subseteq Loaded(file)' \union lost'
      <4>1. CASE durable = {file}
        BY <2>1, <4>1
      <4>2. CASE durable # {file}
        <5>1. lost' = (lost \union Loaded(file)) \ Loaded(file)'
          BY <4>2
        <5> HIDE DEF Loaded, PowerFails
        <5> QED  BY <5>1
      <4> QED  BY <4>1, <4>2
    <3>3. \A q \in Proc : ~HasLoaded(q)'
      OBVIOUS
    <3> QED  BY <3>1, <3>2, <3>3 DEF ConfirmedKept
  <2> QED  BY <2>3, <2>4, <2>5, <2>6, <2>7 DEF StoreInv
<1> QED  BY <1>1, <1>2

LEMMA NextKeepsInv == StoreInv /\ [Next]_vars => StoreInv'
<1> SUFFICES ASSUME StoreInv, [Next]_vars PROVE StoreInv'
  OBVIOUS
<1>1. CASE UNCHANGED vars
  BY <1>1 DEF vars, files, processes, history, StoreInv, TypeOK, Untorn, TempsAccounted,
              TempProgress, FileFlushable, CopiesCurrent, ConfirmedKept, UnloadedFresh
<1>2. CASE \E p \in Proc : ProcessStep(p)
  <2>1. PICK p \in Proc : ProcessStep(p)
    BY <1>2
  <2>2. CASE Boot(p) \/ LookUp(p) \/ Read(p) \/ ReadFails(p)
    BY <2>2, LoadKeepsInv
  <2>3. CASE SaveAgain(p) \/ CreateFails(p) \/ \E a \in Attempt : Record(p, a)
    BY <2>3, BeginKeepsInv
  <2>4. CASE \E n \in TempName : Create(p, n)
    BY <2>4, CreateKeepsInv
  <2>5. CASE Write(p) \/ Sync(p)
    BY <2>5, WriteKeepsInv
  <2>6. CASE Replace(p)
    BY <2>6, ReplaceKeepsInv
  <2>7. CASE SaveRaises(p) \/ Unlink(p) \/ UnlinkFails(p)
    BY <2>7, FailKeepsInv
  <2>8. CASE Saved(p)
    BY <2>8, SavedKeepsInv
  <2>9. CASE Die(p)
    BY <2>9, DieKeepsInv
  <2> QED  BY <2>1, <2>2, <2>3, <2>4, <2>5, <2>6, <2>7, <2>8, <2>9 DEF ProcessStep
<1>3. CASE Flush \/ PowerFails
  BY <1>3, WorldKeepsInv
<1> QED  BY <1>1, <1>2, <1>3 DEF Next

LEMMA InitHasInv == Init => StoreInv
BY DEF Init, StoreInv, TypeOK, Inode, Absent, Step, Saving, Untorn, TempsAccounted,
       TempProgress, FileFlushable, CopiesCurrent, ConfirmedKept, UnloadedFresh

(* The inductive invariant the theorems below follow from. *)
LEMMA StoreInvariant == Spec => []StoreInv
<1> QED  BY InitHasInv, NextKeepsInv, PTL DEF Spec

(* No load and no power failure meets half a save. *)
THEOREM NeverTorn == Spec => []Untorn
<1>1. StoreInv => Untorn
  BY DEF StoreInv
<1> QED  BY <1>1, StoreInvariant, PTL

(* What a save confirmed is kept, unless a process that missed it saves,   *)
(* as it could not read the file or had loaded before, or the power fails. *)
THEOREM ConfirmedAreKept == Spec => []ConfirmedKept
<1>1. StoreInv => ConfirmedKept
  BY DEF StoreInv
<1> QED  BY <1>1, StoreInvariant, PTL

(* Temporary files are only left by deaths and failed clean-ups. *)
THEOREM NoLeaks == Spec => []TempsAccounted
<1>1. StoreInv => TempsAccounted
  BY DEF StoreInv
<1> QED  BY <1>1, StoreInvariant, PTL

-----------------------------------------------------------------------------
(* The refinement.                                                         *)

LEMMA ImplementsInit == Init => Abstract!Init
BY DEF Init, Abstract!Init, PhaseOf, Absent

(* A step that moves a process between places moves its phase. *)
LEMMA PhaseMoves ==
    ASSUME StoreInv, NEW p \in Proc, NEW from, NEW to, Goto(p, from, to)
    PROVE  Abstract!Move(p, PhaseOf(from), PhaseOf(to))
BY DEF Goto, StoreInv, TypeOK, Abstract!Move

LEMMA PhaseLabels ==
    /\ PhaseOf("down") = "down"
    /\ PhaseOf("look") = "loading" /\ PhaseOf("read") = "loading"
    /\ PhaseOf("run") = "idle"
    /\ PhaseOf("saved") = "saved"
    /\ \A label \in Saving \union {"create"} : PhaseOf(label) = "saving"
BY DEF PhaseOf, Saving

(* Steps of a process that the store does not see. *)
LEMMA InnerStepsStutter ==
    ASSUME StoreInv, NEW p \in Proc,
           \/ LookUp(p) /\ file.kind # "none"
           \/ \E n \in TempName : Create(p, n)
           \/ Write(p) \/ Sync(p) \/ SaveRaises(p)
    PROVE  UNCHANGED Abstract!vars
<1> USE DEF Goto, files, history
<1>1. step' \in [Proc -> Step] /\ file' = file /\ durable' = durable /\ mem' = mem /\ ok' = ok
  BY DEF LookUp, Create, Write, Sync, SaveRaises, StoreInv, TypeOK, Step
<1>2. \A q \in Proc : PhaseOf(step'[q]) = PhaseOf(step[q])
  BY DEF PhaseOf, LookUp, Create, Write, Sync, SaveRaises, StoreInv, TypeOK, Step
<1> QED  BY <1>1, <1>2 DEF Abstract!vars

LEMMA LoadImplements ==
    ASSUME StoreInv, NEW p \in Proc,
           Boot(p) \/ (LookUp(p) /\ file.kind = "none") \/ Read(p) \/ ReadFails(p)
    PROVE  Abstract!ProcessStep(p)
<1> USE DEF files, history
<1>1. CASE Boot(p)
  <2>1. Abstract!Move(p, "down", "loading")
    BY <1>1, PhaseMoves, PhaseLabels DEF Boot
  <2>2. Abstract!Boot(p)
    BY <1>1, <2>1 DEF Boot, Abstract!Boot
  <2> QED  BY <2>2 DEF Abstract!ProcessStep
<1>2. CASE LookUp(p) /\ file.kind = "none"
  <2>1. Goto(p, "look", "run")
    BY <1>2 DEF LookUp
  <2>2. Abstract!Move(p, "loading", "idle")
    BY <2>1, PhaseMoves, PhaseLabels
  <2>3. mem' = [mem EXCEPT ![p] = Loaded(file)]
    BY <1>2, <2>1 DEF LookUp, StoreInv, TypeOK, Goto, UnloadedFresh
  <2>4. Abstract!Load(p)
    BY <1>2, <2>2, <2>3 DEF LookUp, Abstract!Load
  <2> QED  BY <2>4 DEF Abstract!ProcessStep
<1>3. CASE Read(p)
  <2>1. Abstract!Move(p, "loading", "idle")
    BY <1>3, PhaseMoves, PhaseLabels DEF Read
  <2>2. Abstract!Load(p)
    BY <1>3, <2>1 DEF Read, Abstract!Load
  <2> QED  BY <2>2 DEF Abstract!ProcessStep
<1>4. CASE ReadFails(p)
  <2>1. Abstract!Move(p, "loading", "idle")
    BY <1>4, PhaseMoves, PhaseLabels DEF ReadFails
  <2>2. Abstract!LoadFails(p)
    BY <1>4, <2>1 DEF ReadFails, Abstract!LoadFails
  <2> QED  BY <2>2 DEF Abstract!ProcessStep
<1> QED  BY <1>1, <1>2, <1>3, <1>4

LEMMA BeginImplements ==
    ASSUME StoreInv, NEW p \in Proc, SaveAgain(p) \/ \E a \in Attempt : Record(p, a)
    PROVE  Abstract!ProcessStep(p)
<1> USE DEF files, history
<1>1. CASE SaveAgain(p)
  <2>1. Abstract!Move(p, "idle", "saving")
    BY <1>1, PhaseMoves, PhaseLabels DEF SaveAgain
  <2>2. mem' = [mem EXCEPT ![p] = mem[p]] /\ mem[p] \in SUBSET Attempt
    BY <1>1 DEF SaveAgain, StoreInv, TypeOK
  <2>3. Abstract!BeginSave(p, mem[p])
    BY <1>1, <2>1, <2>2 DEF SaveAgain, Abstract!BeginSave
  <2> QED  BY <2>2, <2>3 DEF Abstract!ProcessStep
<1>2. CASE \E a \in Attempt : Record(p, a)
  <2>1. PICK a \in Attempt : Record(p, a)
    BY <1>2
  <2>2. Abstract!Move(p, "idle", "saving")
    BY <2>1, PhaseMoves, PhaseLabels DEF Record
  <2>3. mem[p] \union {a} \in SUBSET Attempt
    BY DEF StoreInv, TypeOK
  <2>4. Abstract!BeginSave(p, mem[p] \union {a})
    BY <2>1, <2>2 DEF Record, Abstract!BeginSave
  <2> QED  BY <2>3, <2>4 DEF Abstract!ProcessStep
<1> QED  BY <1>1, <1>2

(* The rename is the instant a save takes effect at. *)
LEMMA EndImplements ==
    ASSUME StoreInv, NEW p \in Proc,
           \/ Replace(p) \/ Saved(p)
           \/ CreateFails(p) \/ Unlink(p) \/ UnlinkFails(p)
    PROVE  Abstract!ProcessStep(p)
<1> USE DEF files, history
<1>1. CASE Replace(p)
  <2>1. Abstract!Move(p, "saving", "saved")
    BY <1>1, PhaseMoves, PhaseLabels DEF Replace, Saving
  <2>2. Loaded(temps[temp[p]]) = mem[p]
    BY <1>1 DEF Replace, Goto, StoreInv, TempProgress
  <2>3. {Loaded(inode) : inode \in durable'} = {Loaded(inode) : inode \in durable} \union {mem[p]}
    BY <1>1, <2>2 DEF Replace
  <2>4. Abstract!TakeEffect(p)
    BY <1>1, <2>1, <2>2, <2>3 DEF Replace, Abstract!TakeEffect
  <2> QED  BY <2>4 DEF Abstract!ProcessStep
<1>2. CASE Saved(p)
  <2>1. Abstract!Move(p, "saved", "idle")
    BY <1>2, PhaseMoves, PhaseLabels DEF Saved
  <2>2. Abstract!Succeed(p)
    BY <1>2, <2>1 DEF Saved, Abstract!Succeed
  <2> QED  BY <2>2 DEF Abstract!ProcessStep
<1>3. CASE CreateFails(p) \/ Unlink(p) \/ UnlinkFails(p)
  <2>1. Abstract!Move(p, "saving", "idle")
    BY <1>3, PhaseMoves, PhaseLabels DEF CreateFails, Unlink, UnlinkFails, Saving
  <2>2. Abstract!Fail(p)
    BY <1>3, <2>1 DEF CreateFails, Unlink, UnlinkFails, Abstract!Fail
  <2> QED  BY <2>2 DEF Abstract!ProcessStep
<1> QED  BY <1>1, <1>2, <1>3

LEMMA DieImplements ==
    ASSUME StoreInv, NEW p \in Proc, Die(p)
    PROVE  Abstract!Die(p)
<1>1. [q \in Proc |-> PhaseOf(step'[q])]
        = [[q \in Proc |-> PhaseOf(step[q])] EXCEPT ![p] = "down"]
  BY PhaseLabels DEF Die, StoreInv, TypeOK
<1> QED  BY <1>1 DEF Die, Abstract!Die

(* After a power failure the path names one of the files it may name. *)
LEMMA WorldImplements ==
    ASSUME StoreInv, Flush \/ PowerFails
    PROVE  Abstract!Flush \/ Abstract!PowerFails
<1>1. CASE Flush
  BY <1>1 DEF Flush, Abstract!Flush, processes, history
<1>2. CASE PowerFails
  <2>1. file' \in durable
    BY <1>2 DEF PowerFails, Leftovers, StoreInv, Untorn
  <2>2. [q \in Proc |-> PhaseOf(step'[q])] = [q \in Proc |-> "down"]
    BY <1>2, PhaseLabels DEF PowerFails
  <2>3. Abstract!PowerFails
    BY <1>2, <2>1, <2>2 DEF PowerFails, Abstract!PowerFails
  <2> QED  BY <2>3
<1> QED  BY <1>1, <1>2

LEMMA ImplementsNext == StoreInv /\ [Next]_vars => [Abstract!Next]_(Abstract!vars)
<1> SUFFICES ASSUME StoreInv, [Next]_vars PROVE [Abstract!Next]_(Abstract!vars)
  OBVIOUS
<1>1. CASE UNCHANGED vars
  BY <1>1 DEF vars, files, processes, Abstract!vars
<1>2. CASE \E p \in Proc : ProcessStep(p)
  <2>1. PICK p \in Proc : ProcessStep(p)
    BY <1>2
  <2>2. Abstract!ProcessStep(p) \/ UNCHANGED Abstract!vars
    <3>1. CASE Boot(p) \/ LookUp(p) \/ Read(p) \/ ReadFails(p)
      BY <3>1, LoadImplements, InnerStepsStutter
    <3>2. CASE SaveAgain(p) \/ \E a \in Attempt : Record(p, a)
      BY <3>2, BeginImplements
    <3>3. CASE Write(p) \/ Sync(p) \/ SaveRaises(p) \/ \E n \in TempName : Create(p, n)
      BY <3>3, InnerStepsStutter
    <3>4. CASE Replace(p) \/ Saved(p) \/ CreateFails(p) \/ Unlink(p) \/ UnlinkFails(p)
      BY <3>4, EndImplements
    <3>5. CASE Die(p)
      BY <3>5, DieImplements DEF Abstract!ProcessStep
    <3> QED  BY <2>1, <3>1, <3>2, <3>3, <3>4, <3>5 DEF ProcessStep
  <2> QED  BY <2>2 DEF Abstract!Next
<1>3. CASE Flush \/ PowerFails
  BY <1>3, WorldImplements DEF Abstract!Next
<1> QED  BY <1>1, <1>2, <1>3 DEF Next

(* The steps of atomic_write_json implement an atomic store. *)
THEOREM StoreImplementsAtomicStore == Spec => ImplementsAtomicStore
<1> QED  BY ImplementsInit, ImplementsNext, StoreInvariant, PTL
         DEF Spec, ImplementsAtomicStore, Abstract!Spec
=============================================================================
