---------------------------- MODULE TemporaryStore ----------------------------
(***************************************************************************)
(* LocalTemporaryDocumentStore (intake/infrastructure/local_store.py): a   *)
(* directory for each operation, shared by API and worker processes        *)
(* through a volume, with no lock.  A step is one system call on the       *)
(* volume.  A manifest that is still being written reads as missing: it    *)
(* does not parse, and delete_expired skips both alike.                    *)
(*                                                                         *)
(* shutil.rmtree lists the directory once, unlinks what it listed and      *)
(* tolerates that a file has gone, but not that the directory has.         *)
(* load only reads, and raises if anything is missing.                     *)
(***************************************************************************)
EXTENDS Integers

CONSTANTS
    Refs,       \* storage references: operation ids
    Files,      \* file-0000.bin, ...
    Manifest,   \* manifest.json
    Processes,  \* API and worker processes, and whoever calls delete_expired
    Null,       \* Python None, no directory
    Retention,  \* from submission to expires_at, in ticks
    MaxFaults   \* bound: processes killed and unlinks failed

ASSUME NameAssumption ==
    /\ Manifest \notin Files
    /\ Null \notin Refs
    /\ \A S \in (SUBSET (Files \union {Manifest})) \union (SUBSET Refs) : S # Null
ASSUME BoundAssumption == Retention \in Nat /\ MaxFaults \in Nat

Names == Files \union {Manifest}

VARIABLES
    disk,    \* what the directory of each reference holds, Null if there is none
    given,   \* references that a submission has drawn
    ttl,     \* time left to expires_at
    pc,      \* where each process is
    ref,     \* the directory it works on
    todo,    \* names it has still to write or to unlink
    left,    \* directories that its delete_expired has still to visit
    old,     \* references with expires_at <= at when it called delete_expired
    due,     \* history: those of them that were whole then
    faults   \* history: faults so far

locals == <<pc, ref, todo, left, old, due>>
vars == <<disk, given, ttl, locals, faults>>

(* What a process holds goes with where it is.                             *)
Placed(p) ==
    /\ ref[p] # Null <=> pc[p] \in {"storing", "opening", "removing"}
    /\ ref[p] # Null => ref[p] \in given
    /\ todo[p] # {} => pc[p] \in {"storing", "removing"}
    /\ left[p] # Null => pc[p] \in {"sweeping", "opening", "removing"}
    /\ pc[p] = "sweeping" => left[p] # Null
    /\ due[p] \subseteq old[p] /\ old[p] \subseteq given

TypeOK ==
    /\ disk \in [Refs -> (SUBSET Names) \union {Null}]
    /\ given \subseteq Refs
    /\ ttl \in [Refs -> 0..Retention]
    /\ pc \in [Processes -> {"idle", "storing", "opening", "removing", "sweeping"}]
    /\ ref \in [Processes -> Refs \union {Null}]
    /\ todo \in [Processes -> SUBSET Names]
    /\ left \in [Processes -> (SUBSET Refs) \union {Null}]
    /\ old \in [Processes -> SUBSET Refs]
    /\ due \in [Processes -> SUBSET Refs]
    /\ faults \in Nat
    /\ \A p \in Processes : Placed(p)

Init ==
    /\ disk = [r \in Refs |-> Null]
    /\ given = {}
    /\ ttl = [r \in Refs |-> Retention]
    /\ pc = [p \in Processes |-> "idle"]
    /\ ref = [p \in Processes |-> Null]
    /\ todo = [p \in Processes |-> {}]
    /\ left = [p \in Processes |-> Null]
    /\ old = [p \in Processes |-> {}]
    /\ due = [p \in Processes |-> {}]
    /\ faults = 0
-----------------------------------------------------------------------------
GoTo(p, where, r, names) ==
    /\ pc' = [pc EXCEPT ![p] = where]
    /\ ref' = [ref EXCEPT ![p] = r]
    /\ todo' = [todo EXCEPT ![p] = names]

(* The process is in no call of the store any more.                        *)
Leave(p) ==
    /\ GoTo(p, "idle", Null, {})
    /\ left' = [left EXCEPT ![p] = Null]
    /\ old' = [old EXCEPT ![p] = {}]
    /\ due' = [due EXCEPT ![p] = {}]

(* store, with a reference nobody has drawn before.                        *)
StoreBegin(p, r) ==
    /\ pc[p] = "idle" /\ r \notin given
    /\ given' = given \union {r}
    /\ disk' = [disk EXCEPT ![r] = {}]
    /\ GoTo(p, "storing", r, Names)
    /\ UNCHANGED <<ttl, left, old, due, faults>>

(* The manifest comes last.                                                *)
InOrder(p, n) == n \in todo[p] /\ (n = Manifest => todo[p] = {Manifest})

StoreWrite(p) ==
    /\ pc[p] = "storing" /\ disk[ref[p]] # Null
    /\ \E n \in Names :
          /\ InOrder(p, n)
          /\ disk' = [disk EXCEPT ![ref[p]] = @ \union {n}]
          /\ IF todo[p] = {n} THEN Leave(p)
             ELSE GoTo(p, "storing", ref[p], todo[p] \ {n}) /\ UNCHANGED <<left, old, due>>
    /\ UNCHANGED <<given, ttl, faults>>

(* Sensitivity variant: what is there stays.                               *)
StoreFailsAsItIs(p) ==
    /\ pc[p] = "storing"
    /\ Leave(p)
    /\ UNCHANGED <<disk, given, ttl, faults>>

(* A write fails, if only because the directory has gone: what is there is *)
(* removed.                                                                *)
StoreFails(p) ==
    /\ pc[p] = "storing"
    /\ GoTo(p, "opening", ref[p], {})
    /\ UNCHANGED <<disk, given, ttl, left, old, due, faults>>

Storing(r) == \E p \in Processes : pc[p] = "storing" /\ ref[p] = r

(* delete of a reference that store returned, by a worker or by the        *)
(* compensation of submit: nothing happens if there is no directory.       *)
Delete(p, r) ==
    /\ pc[p] = "idle" /\ r \in given /\ ~Storing(r) /\ disk[r] # Null
    /\ GoTo(p, "opening", r, {})
    /\ UNCHANGED <<disk, given, ttl, left, old, due, faults>>

(* rmtree raises: delete, and a delete_expired under way, are over; store  *)
(* ignores it.                                                             *)
RemoveOpen(p) ==
    /\ pc[p] = "opening"
    /\ IF disk[ref[p]] = Null THEN Leave(p)
       ELSE GoTo(p, "removing", ref[p], disk[ref[p]]) /\ UNCHANGED <<left, old, due>>
    /\ UNCHANGED <<disk, given, ttl, faults>>

Unlink(p) ==
    /\ pc[p] = "removing"
    /\ \E n \in todo[p] :
          /\ disk' = [disk EXCEPT ![ref[p]] = IF @ = Null THEN Null ELSE @ \ {n}]
          /\ GoTo(p, "removing", ref[p], todo[p] \ {n})
    /\ UNCHANGED <<given, ttl, left, old, due, faults>>

(* Sensitivity variant: as if only delete_expired removed directories.     *)
ReturnToSweep(p) == GoTo(p, "sweeping", Null, {}) /\ UNCHANGED <<left, old, due>>

(* Back in delete_expired, or out of the call.                             *)
Return(p) ==
    IF left[p] = Null THEN Leave(p)
    ELSE GoTo(p, "sweeping", Null, {}) /\ UNCHANGED <<left, old, due>>

RemoveDirectory(p) ==
    /\ pc[p] = "removing" /\ todo[p] = {}
    /\ IF disk[ref[p]] = {} THEN Return(p) ELSE Leave(p)
    /\ disk' = [disk EXCEPT ![ref[p]] = IF @ = {} THEN Null ELSE @]
    /\ UNCHANGED <<given, ttl, faults>>
-----------------------------------------------------------------------------
Whole(r) == disk[r] # Null /\ Manifest \in disk[r]
Expired(r) == r \in given /\ ttl[r] = 0

(* delete_expired(now) lists the root ...                                  *)
SweepBegin(p) ==
    /\ pc[p] = "idle"
    /\ GoTo(p, "sweeping", Null, {})
    /\ left' = [left EXCEPT ![p] = {r \in Refs : disk[r] # Null}]
    /\ old' = [old EXCEPT ![p] = {r \in Refs : Expired(r)}]
    /\ due' = [due EXCEPT ![p] = {r \in Refs : Expired(r) /\ Whole(r)}]
    /\ UNCHANGED <<disk, given, ttl, faults>>

(* Sensitivity variant: a missing manifest is no reason to pass over.      *)
TakesUnwritten(p, r) == disk[r] # Null /\ r \in old[p]

Takes(p, r) == Whole(r) /\ r \in old[p]

(* Sensitivity variant: the first directory that is not taken ends it.     *)
SweepVisitBreak(p, r) ==
    /\ pc[p] = "sweeping" /\ left[p] # Null /\ r \in left[p]
    /\ left' = [left EXCEPT ![p] = IF Takes(p, r) THEN @ \ {r} ELSE {}]
    /\ IF Takes(p, r) THEN GoTo(p, "opening", r, {}) ELSE UNCHANGED <<pc, ref, todo>>
    /\ UNCHANGED <<disk, given, ttl, old, due, faults>>

(* ... and takes the directories whose manifest says they expired.         *)
SweepVisit(p, r) ==
    /\ pc[p] = "sweeping" /\ left[p] # Null /\ r \in left[p]
    /\ left' = [left EXCEPT ![p] = @ \ {r}]
    /\ IF Takes(p, r) THEN GoTo(p, "opening", r, {}) ELSE UNCHANGED <<pc, ref, todo>>
    /\ UNCHANGED <<disk, given, ttl, old, due, faults>>

SweepReturn(p) ==
    /\ pc[p] = "sweeping" /\ left[p] = {}
    /\ Leave(p)
    /\ UNCHANGED <<disk, given, ttl, faults>>
-----------------------------------------------------------------------------
Fault == faults < MaxFaults /\ faults' = faults + 1

(* A process is killed, or a system call of it fails with an OSError that  *)
(* is raised, out of rmtree too.                                           *)
Abandon(p) ==
    /\ Fault
    /\ pc[p] # "idle"
    /\ Leave(p)
    /\ UNCHANGED <<disk, given, ttl>>

Tick ==
    /\ ttl' = [r \in Refs |-> IF r \in given /\ ttl[r] > 0 THEN ttl[r] - 1 ELSE ttl[r]]
    /\ UNCHANGED <<disk, given, locals, faults>>

Call(p) ==
    \/ \E r \in Refs : StoreBegin(p, r) \/ Delete(p, r) \/ SweepVisit(p, r)
    \/ StoreWrite(p) \/ StoreFails(p)
    \/ RemoveOpen(p) \/ Unlink(p) \/ RemoveDirectory(p)
    \/ SweepBegin(p) \/ SweepReturn(p)
    \/ Abandon(p)

Next == (\E p \in Processes : Call(p)) \/ Tick

Spec == Init /\ [][Next]_vars
-----------------------------------------------------------------------------
(* A store under way is disturbed by nobody, a sweep that runs past its    *)
(* expiry included: delete_expired tells a directory that is being written *)
(* by its missing manifest (store writes it last).                         *)
StoreUndisturbed ==
    \A p \in Processes : pc[p] = "storing" => disk[ref[p]] = Names \ todo[p]

(* A delete_expired that returns has left no directory that was whole and  *)
(* expired when it was called, whatever was deleted, stored or killed      *)
(* beside it; if it meets another deletion in a directory, it raises.      *)
SweepIsThorough ==
    [][\A p \in Processes : SweepReturn(p) => \A r \in due[p] : ~Whole(r)]_vars

(* Only a fault leaves a directory that no delete_expired will ever take:  *)
(* calls that end as the code lets them end, in an exception too, leave    *)
(* it whole or take it away.                                               *)
Orphan(r) == disk[r] # Null /\ \A p \in Processes : ref[p] # r
OrphansOnlyByFaults == faults = 0 => \A r \in Refs : Orphan(r) => Whole(r)
=============================================================================
