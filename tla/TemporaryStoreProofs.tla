------------------------- MODULE TemporaryStoreProofs -------------------------
(* Theorems about TemporaryStore, for all constants: any number of         *)
(* processes, operations, files and faults.                                *)
EXTENDS TemporaryStore, TLAPS

USE DEF locals, Names

LEMMA NullIsNoSet == \A S \in (SUBSET Names) \union (SUBSET Refs) : S # Null
  BY NameAssumption

LEMMA TypeInit == Init => TypeOK
  BY NullIsNoSet, BoundAssumption DEF Init, TypeOK, Placed

LEMMA TypeStep == TypeOK /\ [Next]_vars => TypeOK'
  <1> SUFFICES ASSUME TypeOK, [Next]_vars PROVE TypeOK'
    OBVIOUS
  <1> USE NullIsNoSet, NameAssumption DEF TypeOK, Placed
  <1>1. ASSUME NEW p \in Processes, Call(p) PROVE TypeOK'
    <2> USE <1>1 DEF GoTo, Leave
    <2>1. ASSUME NEW r \in Refs, StoreBegin(p, r) PROVE TypeOK'
      BY <2>1 DEF StoreBegin
    <2>2. ASSUME NEW r \in Refs, Delete(p, r) PROVE TypeOK'
      BY <2>2 DEF Delete
    <2>3. ASSUME NEW r \in Refs, SweepVisit(p, r) PROVE TypeOK'
      BY <2>3 DEF SweepVisit, Takes
    <2>4. CASE StoreWrite(p)
      <3>1. ref[p] \in Refs /\ disk[ref[p]] \in SUBSET Names
        BY <2>4 DEF StoreWrite
      <3>2. disk' \in [Refs -> (SUBSET Names) \union {Null}]
        BY <2>4, <3>1 DEF StoreWrite
      <3> QED
        BY <2>4, <3>1, <3>2 DEF StoreWrite
    <2>5. CASE StoreFails(p)
      BY <2>5 DEF StoreFails
    <2>6. CASE RemoveOpen(p)
      <3>1. CASE disk[ref[p]] = Null
        BY <2>6, <3>1 DEF RemoveOpen
      <3>2. CASE disk[ref[p]] # Null
        <4>1. ref[p] \in Refs /\ pc[p] = "opening"
          BY <2>6 DEF RemoveOpen
        <4>2. disk[ref[p]] \in SUBSET Names
          BY <3>2, <4>1
        <4> QED
          BY <2>6, <3>2, <4>1, <4>2 DEF RemoveOpen
      <3> QED
        BY <3>1, <3>2
    <2>7. CASE Unlink(p)
      BY <2>7 DEF Unlink
    <2>8. CASE RemoveDirectory(p)
      BY <2>8 DEF RemoveDirectory, Return
    <2>9. CASE SweepBegin(p)
      BY <2>9 DEF SweepBegin, Expired
    <2>10. CASE SweepReturn(p)
      BY <2>10 DEF SweepReturn
    <2>11. CASE Abandon(p)
      BY <2>11 DEF Abandon, Fault
    <2> QED
      BY <2>1, <2>2, <2>3, <2>4, <2>5, <2>6, <2>7, <2>8, <2>9, <2>10, <2>11 DEF Call
  <1>2. CASE Tick
    <2>1. ttl' \in [Refs -> 0..Retention]
      BY <1>2, BoundAssumption DEF Tick
    <2> QED
      BY <1>2, <2>1 DEF Tick
  <1>3. CASE UNCHANGED vars
    BY <1>3 DEF vars
  <1> QED
    BY <1>1, <1>2, <1>3 DEF Next

(* Every reachable state has the types of TypeOK, and what a process holds *)
(* goes with where it is.                                                  *)
THEOREM TypeCorrect == Spec => []TypeOK
  BY TypeInit, TypeStep, PTL DEF Spec
-----------------------------------------------------------------------------
(* A store that is under way has the directory to itself, and writes its   *)
(* manifest last.                                                          *)
Alone(p) ==
    pc[p] = "storing" =>
       /\ disk[ref[p]] = Names \ todo[p]
       /\ Manifest \in todo[p]
       /\ \A q \in Processes \ {p} : ref[q] # ref[p]
       /\ \A q \in Processes : ref[p] \notin due[q]
StoreInv == \A p \in Processes : Alone(p)

LEMMA StoreInit == Init => StoreInv
  BY DEF Init, StoreInv, Alone

LEMMA StoreStep == TypeOK /\ StoreInv /\ [Next]_vars => StoreInv'
  <1> SUFFICES ASSUME TypeOK, StoreInv, [Next]_vars, NEW p \in Processes PROVE Alone(p)'
    BY DEF StoreInv
  <1> USE NullIsNoSet, NameAssumption DEF TypeOK, Placed, StoreInv, Alone
  <1>1. ASSUME NEW q \in Processes, Call(q) PROVE Alone(p)'
    <2> USE <1>1 DEF GoTo, Leave
    <2>1. ASSUME NEW r \in Refs, StoreBegin(q, r) PROVE Alone(p)'
      BY <2>1 DEF StoreBegin
    <2>2. ASSUME NEW r \in Refs, Delete(q, r) PROVE Alone(p)'
      BY <2>2 DEF Delete, Storing
    <2>3. ASSUME NEW r \in Refs, SweepVisit(q, r) PROVE Alone(p)'
      BY <2>3 DEF SweepVisit, Takes, Whole
    <2>4. CASE StoreWrite(q)
      BY <2>4 DEF StoreWrite, InOrder
    <2>5. CASE StoreFails(q)
      BY <2>5 DEF StoreFails
    <2>6. CASE RemoveOpen(q)
      BY <2>6 DEF RemoveOpen
    <2>7. CASE Unlink(q)
      BY <2>7 DEF Unlink
    <2>8. CASE RemoveDirectory(q)
      BY <2>8 DEF RemoveDirectory, Return
    <2>9. CASE SweepBegin(q)
      BY <2>9 DEF SweepBegin, Expired, Whole
    <2>10. CASE SweepReturn(q)
      BY <2>10 DEF SweepReturn
    <2>11. CASE Abandon(q)
      BY <2>11 DEF Abandon, Fault
    <2> QED
      BY <2>1, <2>2, <2>3, <2>4, <2>5, <2>6, <2>7, <2>8, <2>9, <2>10, <2>11 DEF Call
  <1>2. CASE Tick
    BY <1>2 DEF Tick
  <1>3. CASE UNCHANGED vars
    BY <1>3 DEF vars
  <1> QED
    BY <1>1, <1>2, <1>3 DEF Next

(* Whatever runs beside it, a store finds in its directory exactly what it *)
(* has written: nobody else removes anything from it.                      *)
THEOREM StoreCorrect == Spec => []StoreUndisturbed
  <1>1. StoreInv => StoreUndisturbed
    BY DEF StoreInv, Alone, StoreUndisturbed
  <1> QED
    BY <1>1, TypeInit, TypeStep, StoreInit, StoreStep, PTL DEF Spec
-----------------------------------------------------------------------------
(* A directory that was whole and expired when delete_expired was called   *)
(* has lost its manifest, or is still to be visited, or is being removed   *)
(* by this very call.                                                      *)
Covered(p) ==
    left[p] # Null => \A r \in due[p] : Whole(r) => r \in left[p] \/ r = ref[p]
SweepInv == \A p \in Processes : Covered(p)

LEMMA SweepInit == Init => SweepInv
  BY DEF Init, SweepInv, Covered

LEMMA SweepStep == TypeOK /\ StoreInv /\ SweepInv /\ [Next]_vars => SweepInv'
  <1> SUFFICES ASSUME TypeOK, StoreInv, SweepInv, [Next]_vars, NEW p \in Processes
               PROVE  Covered(p)'
    BY DEF SweepInv
  <1> USE NullIsNoSet, NameAssumption DEF TypeOK, Placed, StoreInv, Alone, SweepInv, Covered, Whole
  <1>1. ASSUME NEW q \in Processes, Call(q) PROVE Covered(p)'
    <2> USE <1>1 DEF GoTo, Leave
    <2>1. ASSUME NEW r \in Refs, StoreBegin(q, r) PROVE Covered(p)'
      BY <2>1 DEF StoreBegin
    <2>2. ASSUME NEW r \in Refs, Delete(q, r) PROVE Covered(p)'
      BY <2>2 DEF Delete
    <2>3. ASSUME NEW r \in Refs, SweepVisit(q, r) PROVE Covered(p)'
      BY <2>3 DEF SweepVisit, Takes
    <2>4. CASE StoreWrite(q)
      BY <2>4 DEF StoreWrite, InOrder
    <2>5. CASE StoreFails(q)
      BY <2>5 DEF StoreFails
    <2>6. CASE RemoveOpen(q)
      BY <2>6 DEF RemoveOpen
    <2>7. CASE Unlink(q)
      BY <2>7 DEF Unlink
    <2>8. CASE RemoveDirectory(q)
      BY <2>8 DEF RemoveDirectory, Return
    <2>9. CASE SweepBegin(q)
      BY <2>9 DEF SweepBegin, Expired
    <2>10. CASE SweepReturn(q)
      BY <2>10 DEF SweepReturn
    <2>11. CASE Abandon(q)
      BY <2>11 DEF Abandon, Fault
    <2> QED
      BY <2>1, <2>2, <2>3, <2>4, <2>5, <2>6, <2>7, <2>8, <2>9, <2>10, <2>11 DEF Call
  <1>2. CASE Tick
    BY <1>2 DEF Tick
  <1>3. CASE UNCHANGED vars
    BY <1>3 DEF vars
  <1> QED
    BY <1>1, <1>2, <1>3 DEF Next

(* A delete_expired that returns has left nothing behind that was whole    *)
(* and expired when it was called.                                         *)
THEOREM SweepCorrect == Spec => SweepIsThorough
  <1>1. ASSUME TypeOK, SweepInv, NEW p \in Processes, SweepReturn(p)
        PROVE  \A r \in due[p] : ~Whole(r)
    BY <1>1, NameAssumption, NullIsNoSet DEF SweepReturn, TypeOK, Placed, SweepInv, Covered
  <1>2. TypeOK /\ SweepInv =>
           [\A p \in Processes : SweepReturn(p) => \A r \in due[p] : ~Whole(r)]_vars
    BY <1>1
  <1> QED
    BY <1>2, TypeInit, TypeStep, StoreInit, StoreStep, SweepInit, SweepStep, PTL
    DEF Spec, SweepIsThorough
-----------------------------------------------------------------------------
(* A removal has listed whatever its directory still holds, and without a  *)
(* fault a directory on which nobody works is whole.                       *)
Listed(p) ==
    pc[p] = "removing" => disk[ref[p]] = Null \/ disk[ref[p]] \subseteq todo[p]
OrphanInv == (\A p \in Processes : Listed(p)) /\ OrphansOnlyByFaults

LEMMA OrphanInit == Init => OrphanInv
  BY DEF Init, OrphanInv, Listed, OrphansOnlyByFaults, Orphan

LEMMA ListedStep ==
    TypeOK /\ StoreInv /\ OrphanInv /\ [Next]_vars => \A p \in Processes : Listed(p)'
  <1> SUFFICES ASSUME TypeOK, StoreInv, \A p \in Processes : Listed(p), [Next]_vars,
                      NEW p \in Processes
               PROVE  Listed(p)'
    BY DEF OrphanInv
  <1> USE NullIsNoSet, NameAssumption DEF TypeOK, Placed, StoreInv, Alone, Listed
  <1>1. ASSUME NEW q \in Processes, Call(q) PROVE Listed(p)'
    <2> USE <1>1 DEF GoTo, Leave
    <2>1. ASSUME NEW r \in Refs, StoreBegin(q, r) PROVE Listed(p)'
      BY <2>1 DEF StoreBegin
    <2>2. ASSUME NEW r \in Refs, Delete(q, r) \/ SweepVisit(q, r) PROVE Listed(p)'
      BY <2>2 DEF Delete, SweepVisit
    <2>3. CASE StoreWrite(q)
      BY <2>3 DEF StoreWrite, InOrder
    <2>4. CASE StoreFails(q) \/ SweepBegin(q) \/ SweepReturn(q) \/ Abandon(q)
      BY <2>4 DEF StoreFails, SweepBegin, SweepReturn, Abandon
    <2>5. CASE RemoveOpen(q)
      BY <2>5 DEF RemoveOpen
    <2>6. CASE Unlink(q)
      BY <2>6 DEF Unlink
    <2>7. CASE RemoveDirectory(q)
      BY <2>7 DEF RemoveDirectory, Return
    <2> QED
      BY <2>1, <2>2, <2>3, <2>4, <2>5, <2>6, <2>7 DEF Call
  <1>2. CASE Tick
    BY <1>2 DEF Tick
  <1>3. CASE UNCHANGED vars
    BY <1>3 DEF vars
  <1> QED
    BY <1>1, <1>2, <1>3 DEF Next

LEMMA OrphanStep == TypeOK /\ StoreInv /\ OrphanInv /\ [Next]_vars => OrphanInv'
  <1> SUFFICES ASSUME TypeOK, StoreInv, OrphanInv, [Next]_vars, faults' = 0,
                      NEW r \in Refs, Orphan(r)'
               PROVE  Whole(r)'
    BY ListedStep DEF OrphanInv, OrphansOnlyByFaults
  <1>0. faults = 0
    BY DEF Next, Call, vars, StoreBegin, Delete, SweepVisit, StoreWrite, StoreFails, RemoveOpen,
           Unlink, RemoveDirectory, SweepBegin, SweepReturn, Abandon, Fault, Tick, TypeOK
  <1> USE <1>0, NullIsNoSet, NameAssumption
      DEF TypeOK, Placed, StoreInv, Alone, OrphanInv, Listed, OrphansOnlyByFaults, Orphan, Whole
  <1>1. ASSUME NEW q \in Processes, Call(q) PROVE Whole(r)'
    <2> USE <1>1 DEF GoTo, Leave
    <2>1. ASSUME NEW s \in Refs, StoreBegin(q, s) PROVE Whole(r)'
      BY <2>1 DEF StoreBegin
    <2>2. ASSUME NEW s \in Refs, Delete(q, s) \/ SweepVisit(q, s) PROVE Whole(r)'
      BY <2>2 DEF Delete, SweepVisit
    <2>3. CASE StoreWrite(q)
      BY <2>3 DEF StoreWrite, InOrder
    <2>4. CASE StoreFails(q) \/ SweepBegin(q) \/ SweepReturn(q)
      BY <2>4 DEF StoreFails, SweepBegin, SweepReturn
    <2>5. CASE RemoveOpen(q)
      BY <2>5 DEF RemoveOpen
    <2>6. CASE Unlink(q)
      BY <2>6 DEF Unlink
    <2>7. CASE RemoveDirectory(q)
      BY <2>7 DEF RemoveDirectory, Return
    <2>8. CASE Abandon(q)
      BY <2>8 DEF Abandon, Fault
    <2> QED
      BY <2>1, <2>2, <2>3, <2>4, <2>5, <2>6, <2>7, <2>8 DEF Call
  <1>2. CASE Tick
    BY <1>2 DEF Tick
  <1>3. CASE UNCHANGED vars
    BY <1>3 DEF vars
  <1> QED
    BY <1>1, <1>2, <1>3 DEF Next

(* Only a fault leaves a directory that no delete_expired will ever take.  *)
THEOREM OrphanCorrect == Spec => []OrphansOnlyByFaults
  <1>1. OrphanInv => OrphansOnlyByFaults
    BY DEF OrphanInv
  <1> QED
    BY <1>1, TypeInit, TypeStep, StoreInit, StoreStep, OrphanInit, OrphanStep, PTL DEF Spec
=============================================================================
