--------------------------- MODULE KeepListProofs ---------------------------
(***************************************************************************)
(* Proofs about KeepList, for any number of clients, records and faults: its *)
(* safety properties, and that it implements KeepStore.                    *)
(***************************************************************************)
EXTENDS KeepList, TLAPS

\* What a request's locals are at each of its steps.
LocalsKnown ==
    \A c \in Client :
        /\ pc[c] # "idle" => op[c] \in Op
        /\ pc[c] \in {"entry", "write", "writing", "rename"} =>
             op[c].do \in {"keep", "unkeep"}
        /\ pc[c] = "load" => op[c].do # "forget"
        /\ pc[c] = "remove" => op[c].do # "read"
        /\ pc[c] \notin {"unlock", "answered"} => seen[c] = {}

\* The inductive invariant.
IInv == TypeOK /\ LocalsKnown /\ OneWriter /\ NoLostKeep

\* The list a Keep or Unkeep works out is a list.
LEMMA EditType ==
  ASSUME NEW o \in Op, NEW l \in Lists, o.do \in {"keep", "unkeep"}
  PROVE  Edit(o, l) \in Lists
<1>1. o.of \in Kept
  BY DEF Op
<1> QED
  BY <1>1 DEF Edit, Without, Lists

LEMMA InvInit == Init => IInv
<1> SUFFICES ASSUME Init PROVE IInv
  OBVIOUS
<1> USE KeepAssumption DEF Init
<1>1. TypeOK
  BY DEF TypeOK, Lists, Critical
<1>2. LocalsKnown
  BY DEF LocalsKnown
<1>3. OneWriter
  BY DEF OneWriter, Critical
<1>4. NoLostKeep
  BY DEF NoLostKeep
<1> QED
  BY <1>1, <1>2, <1>3, <1>4 DEF IInv

\* The types are kept by every step.
LEMMA TypeStep == IInv /\ [Next]_vars => TypeOK'
  <1> SUFFICES ASSUME IInv, [Next]_vars PROVE TypeOK'
    OBVIOUS
  <1> USE DEF IInv, TypeOK, Critical, Goto
  <1>1. ASSUME NEW c \in Client, NEW o \in Op, Ask(c, o) PROVE TypeOK'
    BY <1>1 DEF Ask
  <1>2. ASSUME NEW c \in Client, LookUp(c) PROVE TypeOK'
    BY <1>2 DEF LookUp
  <1>3. ASSUME NEW c \in Client, Lock(c) PROVE TypeOK'
    BY <1>3 DEF Lock
  <1>4. ASSUME NEW c \in Client, Read(c) PROVE TypeOK'
    BY <1>4 DEF Read
  <1>5. ASSUME NEW c \in Client, Load(c) PROVE TypeOK'
    <2>1. op[c] \in Op
      BY <1>5 DEF Load, LocalsKnown
    <2>2. Edit(op[c], file) \in Lists
      BY <1>5, <2>1, EditType DEF Load
    <2> QED
      BY <1>5, <2>2 DEF Load
  <1>6. ASSUME NEW c \in Client, LoadRefused(c) PROVE TypeOK'
    BY <1>6 DEF LoadRefused
  <1>7. ASSUME NEW c \in Client, Remove(c) PROVE TypeOK'
    BY <1>7 DEF Remove, Lists
  <1>8. ASSUME NEW c \in Client, Write(c) PROVE TypeOK'
    BY <1>8 DEF Write
  <1>9. ASSUME NEW c \in Client, Written(c) PROVE TypeOK'
    BY <1>9 DEF Written
  <1>10. ASSUME NEW c \in Client, Rename(c) PROVE TypeOK'
    BY <1>10 DEF Rename, NoLostKeep
  <1>11. ASSUME NEW c \in Client, FailIO(c) PROVE TypeOK'
    BY <1>11 DEF FailIO
  <1>12. ASSUME NEW c \in Client, Unlock(c) PROVE TypeOK'
    BY <1>12 DEF Unlock, Lists
  <1>13. ASSUME NEW c \in Client, Leave(c) PROVE TypeOK'
    BY <1>13 DEF Leave, Lists
  <1>14. ASSUME Crash PROVE TypeOK'
    BY <1>14 DEF Crash, Lists
  <1>15. ASSUME Damage PROVE TypeOK'
    BY <1>15 DEF Damage
  <1>16. ASSUME UNCHANGED vars PROVE TypeOK'
    BY <1>16 DEF vars
  <1> QED
    BY <1>1, <1>2, <1>3, <1>4, <1>5, <1>6, <1>7, <1>8, <1>9, <1>10, <1>11, <1>12, <1>13, <1>14, <1>15, <1>16 DEF Next, InLock

\* The locals stay what each step takes them for.
LEMMA LocalsStep == IInv /\ [Next]_vars => LocalsKnown'
  <1> SUFFICES ASSUME IInv, [Next]_vars PROVE LocalsKnown'
    OBVIOUS
  <1> USE DEF IInv, TypeOK, LocalsKnown, Critical, Goto
  <1>1. ASSUME NEW c \in Client, NEW o \in Op, Ask(c, o) PROVE LocalsKnown'
    BY <1>1 DEF Ask, Op
  <1>2. ASSUME NEW c \in Client, LookUp(c) PROVE LocalsKnown'
    BY <1>2 DEF LookUp
  <1>3. ASSUME NEW c \in Client, Lock(c) PROVE LocalsKnown'
    BY <1>3 DEF Lock
  <1>4. ASSUME NEW c \in Client, Read(c) PROVE LocalsKnown'
    BY <1>4 DEF Read
  <1>5. ASSUME NEW c \in Client, Load(c) PROVE LocalsKnown'
    BY <1>5 DEF Load
  <1>6. ASSUME NEW c \in Client, LoadRefused(c) PROVE LocalsKnown'
    BY <1>6 DEF LoadRefused
  <1>7. ASSUME NEW c \in Client, Remove(c) PROVE LocalsKnown'
    BY <1>7 DEF Remove
  <1>8. ASSUME NEW c \in Client, Write(c) PROVE LocalsKnown'
    BY <1>8 DEF Write
  <1>9. ASSUME NEW c \in Client, Written(c) PROVE LocalsKnown'
    BY <1>9 DEF Written
  <1>10. ASSUME NEW c \in Client, Rename(c) PROVE LocalsKnown'
    BY <1>10 DEF Rename
  <1>11. ASSUME NEW c \in Client, FailIO(c) PROVE LocalsKnown'
    BY <1>11 DEF FailIO
  <1>12. ASSUME NEW c \in Client, Unlock(c) PROVE LocalsKnown'
    BY <1>12 DEF Unlock
  <1>13. ASSUME NEW c \in Client, Leave(c) PROVE LocalsKnown'
    BY <1>13 DEF Leave
  <1>14. ASSUME Crash PROVE LocalsKnown'
    BY <1>14 DEF Crash
  <1>15. ASSUME Damage PROVE LocalsKnown'
    BY <1>15 DEF Damage
  <1>16. ASSUME UNCHANGED vars PROVE LocalsKnown'
    BY <1>16 DEF vars
  <1> QED
    BY <1>1, <1>2, <1>3, <1>4, <1>5, <1>6, <1>7, <1>8, <1>9, <1>10, <1>11, <1>12, <1>13, <1>14, <1>15, <1>16 DEF Next, InLock

\* Nobody enters withState while somebody is in it.
LEMMA LockStep == IInv /\ [Next]_vars => OneWriter'
  <1> SUFFICES ASSUME IInv, [Next]_vars PROVE OneWriter'
    OBVIOUS
  <1> USE KeepAssumption DEF IInv, TypeOK, OneWriter, Critical, Goto
  <1>1. ASSUME NEW c \in Client, NEW o \in Op, Ask(c, o) PROVE OneWriter'
    BY <1>1 DEF Ask
  <1>2. ASSUME NEW c \in Client, LookUp(c) PROVE OneWriter'
    BY <1>2 DEF LookUp
  <1>3. ASSUME NEW c \in Client, Lock(c) PROVE OneWriter'
    BY <1>3 DEF Lock
  <1>4. ASSUME NEW c \in Client, Read(c) PROVE OneWriter'
    BY <1>4 DEF Read
  <1>5. ASSUME NEW c \in Client, Load(c) PROVE OneWriter'
    BY <1>5 DEF Load
  <1>6. ASSUME NEW c \in Client, LoadRefused(c) PROVE OneWriter'
    BY <1>6 DEF LoadRefused
  <1>7. ASSUME NEW c \in Client, Remove(c) PROVE OneWriter'
    BY <1>7 DEF Remove
  <1>8. ASSUME NEW c \in Client, Write(c) PROVE OneWriter'
    BY <1>8 DEF Write
  <1>9. ASSUME NEW c \in Client, Written(c) PROVE OneWriter'
    BY <1>9 DEF Written
  <1>10. ASSUME NEW c \in Client, Rename(c) PROVE OneWriter'
    BY <1>10 DEF Rename
  <1>11. ASSUME NEW c \in Client, FailIO(c) PROVE OneWriter'
    BY <1>11 DEF FailIO
  <1>12. ASSUME NEW c \in Client, Unlock(c) PROVE OneWriter'
    BY <1>12 DEF Unlock
  <1>13. ASSUME NEW c \in Client, Leave(c) PROVE OneWriter'
    BY <1>13 DEF Leave
  <1>14. ASSUME Crash PROVE OneWriter'
    BY <1>14 DEF Crash
  <1>15. ASSUME Damage PROVE OneWriter'
    BY <1>15 DEF Damage
  <1>16. ASSUME UNCHANGED vars PROVE OneWriter'
    BY <1>16 DEF vars
  <1> QED
    BY <1>1, <1>2, <1>3, <1>4, <1>5, <1>6, <1>7, <1>8, <1>9, <1>10, <1>11, <1>12, <1>13, <1>14, <1>15, <1>16 DEF Next, InLock

\* The list on the disk does not change under a request that edits it.
LEMMA KeepStep == IInv /\ [Next]_vars => NoLostKeep'
  <1> SUFFICES ASSUME IInv, [Next]_vars PROVE NoLostKeep'
    OBVIOUS
  <1> USE KeepAssumption DEF IInv, TypeOK, OneWriter, NoLostKeep, LocalsKnown, Critical, Goto
  <1>1. ASSUME NEW c \in Client, NEW o \in Op, Ask(c, o) PROVE NoLostKeep'
    BY <1>1 DEF Ask
  <1>2. ASSUME NEW c \in Client, LookUp(c) PROVE NoLostKeep'
    BY <1>2 DEF LookUp
  <1>3. ASSUME NEW c \in Client, Lock(c) PROVE NoLostKeep'
    BY <1>3 DEF Lock
  <1>4. ASSUME NEW c \in Client, Read(c) PROVE NoLostKeep'
    BY <1>4 DEF Read
  <1>5. ASSUME NEW c \in Client, Load(c) PROVE NoLostKeep'
    BY <1>5 DEF Load
  <1>6. ASSUME NEW c \in Client, LoadRefused(c) PROVE NoLostKeep'
    BY <1>6 DEF LoadRefused
  <1>7. ASSUME NEW c \in Client, Remove(c) PROVE NoLostKeep'
    BY <1>7 DEF Remove
  <1>8. ASSUME NEW c \in Client, Write(c) PROVE NoLostKeep'
    BY <1>8 DEF Write
  <1>9. ASSUME NEW c \in Client, Written(c) PROVE NoLostKeep'
    BY <1>9 DEF Written
  <1>10. ASSUME NEW c \in Client, Rename(c) PROVE NoLostKeep'
    BY <1>10 DEF Rename
  <1>11. ASSUME NEW c \in Client, FailIO(c) PROVE NoLostKeep'
    BY <1>11 DEF FailIO
  <1>12. ASSUME NEW c \in Client, Unlock(c) PROVE NoLostKeep'
    BY <1>12 DEF Unlock
  <1>13. ASSUME NEW c \in Client, Leave(c) PROVE NoLostKeep'
    BY <1>13 DEF Leave
  <1>14. ASSUME Crash PROVE NoLostKeep'
    BY <1>14 DEF Crash
  <1>15. ASSUME Damage PROVE NoLostKeep'
    BY <1>15 DEF Damage
  <1>16. ASSUME UNCHANGED vars PROVE NoLostKeep'
    BY <1>16 DEF vars
  <1> QED
    BY <1>1, <1>2, <1>3, <1>4, <1>5, <1>6, <1>7, <1>8, <1>9, <1>10, <1>11, <1>12, <1>13, <1>14, <1>15, <1>16 DEF Next, InLock

LEMMA Invariance == Spec => []IInv
<1>1. IInv /\ [Next]_vars => IInv'
  BY TypeStep, LocalsStep, LockStep, KeepStep DEF IInv
<1> QED
  BY <1>1, InvInit, PTL DEF Spec

\* Every variable keeps its type.
THEOREM TypeCorrect == Spec => []TypeOK
  BY Invariance, PTL DEF IInv

\* keepMu is held by exactly the request between its load and its save.
THEOREM OneWriterHolds == Spec => []OneWriter
  BY Invariance, PTL DEF IInv

\* The state is of its type, and keepMu is held as just said.
THEOREM ConsistentHolds == Spec => []Consistent
  BY Invariance, PTL DEF IInv, Consistent

\* No Keep is lost to another request, and no half file is installed.
THEOREM NoLostKeepHolds == Spec => []NoLostKeep
  BY Invariance, PTL DEF IInv

-----------------------------------------------------------------------------
LEMMA StoreInit == Init => Store!AbsInit
  BY DEF Init, Store!AbsInit, Lists

\* Every step of the code is a step of the atomic list, or is invisible.
LEMMA StoreStep == IInv /\ [Next]_vars => [Store!AbsNext]_(Store!absVars)
  <1> SUFFICES ASSUME IInv, [Next]_vars PROVE [Store!AbsNext]_(Store!absVars)
    OBVIOUS
  <1> USE DEF IInv, TypeOK, Critical, Goto
  <1>1. ASSUME NEW c \in Client, NEW o \in Op, Ask(c, o) PROVE [Store!AbsNext]_(Store!absVars)
    <2>1. Store!AbsAsk(c, o)
      BY <1>1 DEF Ask, Store!AbsAsk
    <2>2. o \in Store!Op
      BY DEF Op, Store!Op
    <2> QED
      BY <2>1, <2>2 DEF Store!AbsNext
  <1>2. ASSUME NEW c \in Client, LookUp(c) PROVE [Store!AbsNext]_(Store!absVars)
    <2>1. CASE pc'[c] = "lock"
      BY <1>2, <2>1 DEF LookUp, Store!absVars
    <2>2. CASE pc'[c] = "answered"
      <3>1. Store!AbsRefuse(c)
        BY <1>2, <2>2 DEF LookUp, Store!AbsRefuse
      <3> QED
        BY <3>1 DEF Store!AbsNext
    <2> QED
      BY <1>2, <2>1, <2>2 DEF LookUp
  <1>3. ASSUME NEW c \in Client, Lock(c) PROVE [Store!AbsNext]_(Store!absVars)
    BY <1>3 DEF Lock, Store!absVars
  <1>4. ASSUME NEW c \in Client, Read(c) PROVE [Store!AbsNext]_(Store!absVars)
    <2>1. Store!AbsApply(c)
      BY <1>4 DEF Read, Store!AbsApply, Store!After, Store!Without, Without, Edit, LocalsKnown, NoLostKeep, Op
    <2> QED
      BY <2>1 DEF Store!AbsNext
  <1>5. ASSUME NEW c \in Client, Load(c) PROVE [Store!AbsNext]_(Store!absVars)
    BY <1>5 DEF Load, Store!absVars
  <1>6. ASSUME NEW c \in Client, LoadRefused(c) PROVE [Store!AbsNext]_(Store!absVars)
    <2>1. Store!AbsRefuse(c)
      BY <1>6 DEF LoadRefused, Store!AbsRefuse
    <2> QED
      BY <2>1 DEF Store!AbsNext
  <1>7. ASSUME NEW c \in Client, Remove(c) PROVE [Store!AbsNext]_(Store!absVars)
    <2>1. Store!AbsApply(c)
      BY <1>7 DEF Remove, Store!AbsApply, Store!After, Store!Without, Without, Edit, LocalsKnown, NoLostKeep, Op
    <2> QED
      BY <2>1 DEF Store!AbsNext
  <1>8. ASSUME NEW c \in Client, Write(c) PROVE [Store!AbsNext]_(Store!absVars)
    BY <1>8 DEF Write, Store!absVars
  <1>9. ASSUME NEW c \in Client, Written(c) PROVE [Store!AbsNext]_(Store!absVars)
    BY <1>9 DEF Written, Store!absVars
  <1>10. ASSUME NEW c \in Client, Rename(c) PROVE [Store!AbsNext]_(Store!absVars)
    <2>1. Store!AbsApply(c)
      BY <1>10 DEF Rename, Store!AbsApply, Store!After, Store!Without, Without, Edit, LocalsKnown, NoLostKeep, Op
    <2> QED
      BY <2>1 DEF Store!AbsNext
  <1>11. ASSUME NEW c \in Client, FailIO(c) PROVE [Store!AbsNext]_(Store!absVars)
    <2>1. Store!AbsRefuse(c)
      BY <1>11 DEF FailIO, Store!AbsRefuse
    <2> QED
      BY <2>1 DEF Store!AbsNext
  <1>12. ASSUME NEW c \in Client, Unlock(c) PROVE [Store!AbsNext]_(Store!absVars)
    BY <1>12 DEF Unlock, Store!absVars
  <1>13. ASSUME NEW c \in Client, Leave(c) PROVE [Store!AbsNext]_(Store!absVars)
    <2>1. Store!AbsLeave(c)
      BY <1>13 DEF Leave, Store!AbsLeave
    <2> QED
      BY <2>1 DEF Store!AbsNext
  <1>14. ASSUME Crash PROVE [Store!AbsNext]_(Store!absVars)
    <2>1. Store!AbsDie
      BY <1>14 DEF Crash, Store!AbsDie
    <2> QED
      BY <2>1 DEF Store!AbsNext
  <1>15. ASSUME Damage PROVE [Store!AbsNext]_(Store!absVars)
    <2>1. Store!AbsDamage
      BY <1>15 DEF Damage, Store!AbsDamage, Store!calls
    <2> QED
      BY <2>1 DEF Store!AbsNext
  <1>16. ASSUME UNCHANGED vars PROVE [Store!AbsNext]_(Store!absVars)
    BY <1>16 DEF vars, Store!absVars
  <1> QED
    BY <1>1, <1>2, <1>3, <1>4, <1>5, <1>6, <1>7, <1>8, <1>9, <1>10, <1>11, <1>12, <1>13, <1>14, <1>15, <1>16 DEF Next, InLock

\* The file, the temporary file and the mutex implement the atomic list.
THEOREM Implementation == Spec => ImplementsStore
  BY StoreInit, StoreStep, Invariance, PTL DEF Spec, ImplementsStore, Store!AbsSpec
=============================================================================
