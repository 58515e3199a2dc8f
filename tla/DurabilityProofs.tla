-------------------------- MODULE DurabilityProofs --------------------------
(***************************************************************************)
(* Proofs about SaveDurability for every bound on the ids, every set of    *)
(* contents and every retention: what a crash or a power loss between any  *)
(* two system calls of a save can and cannot take away.                    *)
(***************************************************************************)
EXTENDS SaveDurability, FiniteSetTheorems, TLAPS

\* A nonempty set of numbers up to LastId has a greatest member, and Max
\* names it.
LEMMA MaxIsGreatest ==
    ASSUME NEW S \in SUBSET (0 .. LastId), S # {}
    PROVE  Max(S) \in S /\ \A id \in S : id <= Max(S)
  <1> DEFINE Below == {LastId - id : id \in S}
  <1>1. \A id \in S : id \in Nat /\ LastId - id \in Nat
    BY DurabilityAssumption
  <1>2. Below \subseteq Nat /\ Below # {}
    BY <1>1
  <1> HIDE DEF Below
  <1>3. PICK least \in Below : \A n \in Below : <<n, least>> \notin OpToRel(<, Nat)
    BY <1>2, NatLessThanWellFounded, WFMin
  <1>4. \A n \in Below : ~ (n < least)
    BY <1>2, <1>3 DEF OpToRel
  <1>5. PICK newest \in S : least = LastId - newest
    BY DEF Below
  <1>6. ASSUME NEW id \in S PROVE newest >= id
    <2>1. LastId - id \in Below
      BY DEF Below
    <2>2. ~ (LastId - id < LastId - newest)
      BY <2>1, <1>4, <1>5
    <2> QED
      BY <2>2, <1>1, DurabilityAssumption
  <1>7. \A id \in S : newest >= id
    BY <1>6
  <1>8. Max(S) \in S /\ \A id \in S : Max(S) >= id
    BY <1>7 DEF Max
  <1> QED
    BY <1>1, <1>8

\* The next id is above every generation there is.
LEMMA NextIsAbove ==
    NextId \in Nat \ {0} /\ \A g \in Generations : g < NextId
  <1>1. {0} \cup Generations \in SUBSET (0 .. LastId)
    BY DurabilityAssumption DEF Generations, Ids
  <1> QED
    BY <1>1, MaxIsGreatest, DurabilityAssumption DEF NextId

\* Retention keeps at least one: what is doomed is not the newest.
LEMMA DoomedIsNotNewest ==
    ASSUME NEW g \in Doomed
    PROVE  g \in Generations /\ \E h \in Generations : g < h
  <1>1. g \in Generations /\ Cardinality({h \in Generations : g < h}) >= Keep
    BY DEF Doomed
  <1>2. CASE {h \in Generations : g < h} = {}
    <2>1. Cardinality({h \in Generations : g < h}) = 0
      BY <1>2, FS_EmptySet
    <2> QED
      BY <1>1, <2>1, DurabilityAssumption
  <1> QED
    BY <1>1, <1>2

-----------------------------------------------------------------------------
\* TypeOK is inductive once it is known that Saved has a generation to return:
\* one was published and retention never takes the newest.
TypeInv ==
    TypeOK /\ (stage \in {"published", "pruning"} => Generations # {})

LEMMA InitTypes == Init => TypeInv
  BY DEF Init, TypeInv, TypeOK, TempFiles

LEMMA StepTypes == TypeInv /\ [Next]_vars => TypeInv'
  <1> SUFFICES ASSUME TypeInv, [Next]_vars PROVE TypeInv'
    OBVIOUS
  <1> USE DEF TypeInv, TypeOK, TempFiles, past
  <1>1. ASSUME NEW needed \in SUBSET Blobs, Save(needed) PROVE TypeInv'
    <2>1. Ids \cup {NextId} = Ids /\ refs \in [Ids -> SUBSET Blobs]
      BY <1>1 DEF Save, IdIsLeft
    <2>2. refs' = [id \in Ids |-> IF id = NextId THEN needed ELSE refs[id]]
      BY <1>1, <2>1 DEF Save
    <2>3. refs' \in [Ids -> SUBSET Blobs]
      BY <2>1, <2>2
    <2> QED
      BY <1>1, <2>3 DEF Save
  <1>2. CASE NoIdLeft
    BY <1>2 DEF NoIdLeft, vars, Generations
  <1>3. CASE PutKnown
    BY <1>3 DEF PutKnown
  <1>4. ASSUME NEW name \in Names, WriteTemp(name) PROVE TypeInv'
    BY <1>4 DEF WriteTemp
  <1>5. CASE SyncTemp
    BY <1>5 DEF SyncTemp, Generations
  <1>6. CASE RenameTemp
    <2>1. temp.name \in Names /\ temp.synced
      BY <1>6 DEF RenameTemp, TempIsSafe
    <2>2. TypeOK'
      BY <1>6, <2>1 DEF RenameTemp
    <2>3. stage' \in {"published", "pruning"} => Generations' # {}
      BY <1>6, <2>1 DEF RenameTemp, Generations
    <2> QED
      BY <2>2, <2>3
  <1>7. CASE SyncDir
    BY <1>7 DEF SyncDir, DirectorySynced, Generations, Names
  <1>8. CASE Prune
    <2>1. PICK g \in Doomed : /\ names' = names \ {g} /\ unsynced' = unsynced \ {g}
                              /\ torn' = torn \ {g}
      BY <1>8 DEF Prune
    <2>2. TypeOK'
      BY <1>8, <2>1 DEF Prune
    <2>3. PICK h \in Generations : g < h
      BY DoomedIsNotNewest
    <2>4. g \in Nat /\ h \in Nat /\ h # g
      BY <2>3, DoomedIsNotNewest DEF Generations, Ids
    <2>5. h \in Generations'
      BY <2>1, <2>4 DEF Generations
    <2> QED
      BY <2>2, <2>5
  <1>9. CASE Saved
    <2>1. Generations # {} /\ Generations \in SUBSET (0 .. LastId)
      BY <1>9, DurabilityAssumption DEF Saved, Generations, Ids
    <2>2. Max(Generations) \in Ids
      BY <2>1, MaxIsGreatest DEF Generations
    <2> QED
      BY <1>9, <2>2 DEF Saved
  <1>10. CASE Abandon
    BY <1>10 DEF Abandon
  <1>11. CASE PowerLoss
    BY <1>11 DEF PowerLoss
  <1>12. CASE UNCHANGED vars
    BY <1>12 DEF vars, Generations
  <1> QED
    BY <1>1, <1>2, <1>3, <1>4, <1>5, <1>6, <1>7, <1>8, <1>9, <1>10, <1>11,
       <1>12 DEF Next

\* Every variable keeps its type.
THEOREM DurableTypes == Spec => []TypeOK
  <1>1. TypeInv => TypeOK
    BY DEF TypeInv
  <1> QED
    BY <1>1, InitTypes, StepTypes, PTL DEF Spec

-----------------------------------------------------------------------------
\* A file is torn only by a power loss that finds it unsynced, which no
\* visible file ever is: the fsync of a temp file comes before its rename.
WholeInv == unsynced = {} /\ torn = {}

LEMMA InitWhole == Init => WholeInv
  BY DEF Init, WholeInv

LEMMA StepWhole == WholeInv /\ [Next]_vars => WholeInv'
  <1> SUFFICES ASSUME WholeInv, [Next]_vars PROVE WholeInv'
    OBVIOUS
  <1> USE DEF WholeInv
  <1>1. CASE RenameTemp
    BY <1>1 DEF RenameTemp, TempIsSafe
  <1>2. CASE Prune
    BY <1>2 DEF Prune
  <1>3. CASE PowerLoss
    BY <1>3 DEF PowerLoss
  <1>4. CASE UNCHANGED <<unsynced, torn>>
    BY <1>4
  <1> QED
    BY <1>1, <1>2, <1>3, <1>4 DEF Next, Save, NoIdLeft, PutKnown, WriteTemp,
       SyncTemp, SyncDir, Saved, Abandon, vars

\* No visible file, blob or generation, is ever found half written, whatever
\* dies and however often power is lost.
THEOREM NothingIsTorn == Spec => []NothingTorn
  <1>1. WholeInv => NothingTorn
    BY DEF WholeInv, NothingTorn
  <1> QED
    BY <1>1, InitWhole, StepWhole, PTL DEF Spec

-----------------------------------------------------------------------------
\* Short of a power loss, what the files that are there and the stage of the
\* running save say of each other: the blobs of every generation are there;
\* those of the one being written are there or still to be put, and it is
\* not renamed while any is.
DangleInv ==
    ~ lost =>
        /\ \A g \in Generations : refs[g] \subseteq names
        /\ stage = "writing" =>
              /\ NextId \in Ids /\ todo \subseteq Blobs
              /\ refs[NextId] \subseteq names \cup todo
        /\ temp # Nothing =>
              /\ stage = "writing"
              /\ temp.name \in Ids => todo = {} /\ temp.name = NextId

LEMMA InitDangle == Init => DangleInv
  BY DEF Init, DangleInv, Generations

\* A save that puts no generation into the directory and takes none out
\* chooses the same id.
LEMMA SameNextId ==
    ASSUME Generations' = Generations PROVE NextId' = NextId
  BY DEF NextId

LEMMA SaveKeepsDangle ==
    ASSUME TypeOK, DangleInv, NEW needed \in SUBSET Blobs, Save(needed)
    PROVE  DangleInv'
  <1> USE DEF Save, past
  <1> SUFFICES ASSUME ~ lost PROVE DangleInv'
    BY DEF DangleInv
  <1>1. Generations' = Generations /\ names' = names
    BY DEF Generations
  <1>2. NextId' = NextId /\ NextId \in Ids
    BY <1>1, SameNextId DEF IdIsLeft
  <1>3. refs'[NextId] = needed
    BY <1>2 DEF TypeOK
  <1>4. ASSUME NEW g \in Generations PROVE refs'[g] \subseteq names
    <2>1. g \in Ids /\ g # NextId
      BY NextIsAbove DEF Generations, Ids
    <2> QED
      BY <2>1 DEF TypeOK, DangleInv
  <1>5. temp = Nothing
    BY DEF DangleInv
  <1> QED
    BY <1>1, <1>2, <1>3, <1>4, <1>5 DEF DangleInv

LEMMA WritingKeepsDangle ==
    ASSUME TypeOK, DangleInv,
           PutKnown \/ (\E name \in Names : WriteTemp(name)) \/ SyncTemp
    PROVE  DangleInv'
  <1> SUFFICES ASSUME ~ lost PROVE DangleInv'
    BY DEF DangleInv, PutKnown, WriteTemp, SyncTemp, past
  <1>1. names' = names /\ refs' = refs /\ stage' = stage
    BY DEF PutKnown, WriteTemp, SyncTemp
  <1>2. Generations' = Generations
    BY <1>1 DEF Generations
  <1>3. NextId' = NextId
    BY <1>2, SameNextId
  <1>4. CASE PutKnown
    BY <1>1, <1>2, <1>3, <1>4 DEF PutKnown, DangleInv
  <1>5. ASSUME NEW name \in Names, WriteTemp(name) PROVE DangleInv'
    <2>1. stage = "writing" /\ temp'.name = name /\ todo' = todo
      BY <1>5 DEF WriteTemp
    <2>2. name \in Ids => todo = {} /\ name = NextId
      <3>1. CASE todo = {}
        BY <3>1, <1>5 DEF WriteTemp, ReadyToWrite
      <3>2. CASE todo # {}
        BY <3>2, <1>5, DurabilityAssumption
           DEF WriteTemp, ReadyToWrite, TypeOK, Ids
      <3> QED
        BY <3>1, <3>2
    <2> QED
      BY <1>1, <1>2, <1>3, <2>1, <2>2 DEF DangleInv
  <1>6. CASE SyncTemp
    <2>1. temp'.name = temp.name /\ todo' = todo /\ temp # Nothing
      BY <1>6 DEF SyncTemp, TypeOK, TempFiles
    <2> QED
      BY <1>1, <1>2, <1>3, <2>1 DEF DangleInv
  <1> QED
    BY <1>4, <1>5, <1>6

LEMMA RenameKeepsDangle ==
    ASSUME TypeOK, DangleInv, RenameTemp PROVE DangleInv'
  <1> SUFFICES ASSUME ~ lost PROVE DangleInv'
    BY DEF DangleInv, RenameTemp, past
  <1>1. /\ temp # Nothing /\ temp.name \in Names /\ stage = "writing"
        /\ names' = names \cup {temp.name} /\ refs' = refs
        /\ todo' = todo \ {temp.name} /\ temp' = Nothing
    BY DEF RenameTemp, TempIsSafe, TypeOK, TempFiles, DangleInv
  <1>2. CASE temp.name \in Ids
    <2>1. todo = {} /\ temp.name = NextId /\ refs[NextId] \subseteq names
      BY <1>1, <1>2 DEF DangleInv
    <2>2. stage' = "published"
      BY <1>2 DEF RenameTemp
    <2>3. Generations' \subseteq Generations \cup {NextId}
      BY <1>1, <2>1 DEF Generations
    <2> QED
      BY <1>1, <2>1, <2>2, <2>3 DEF DangleInv
  <1>3. CASE temp.name \notin Ids
    <2>1. Generations' = Generations
      BY <1>1, <1>3 DEF Generations
    <2>2. NextId' = NextId /\ stage' = stage
      BY <1>3, <2>1, SameNextId DEF RenameTemp
    <2> QED
      BY <1>1, <2>1, <2>2 DEF DangleInv
  <1> QED
    BY <1>2, <1>3

LEMMA PruneKeepsDangle ==
    ASSUME TypeOK, DangleInv, Prune PROVE DangleInv'
  <1> SUFFICES ASSUME ~ lost PROVE DangleInv'
    BY DEF DangleInv, Prune, past
  <1>1. PICK g \in Doomed : names' = names \ {g}
    BY DEF Prune
  <1>2. g \in Ids /\ g \notin Blobs
    BY DurabilityAssumption DEF Doomed, Generations, Ids
  <1>3. ASSUME NEW h \in Generations' PROVE refs'[h] \subseteq names'
    <2>1. h \in Generations /\ refs' = refs /\ refs[h] \subseteq Blobs
      BY <1>1 DEF Prune, Generations, TypeOK
    <2> QED
      BY <1>1, <1>2, <2>1 DEF DangleInv
  <1>4. stage' = "pruning" /\ temp' = Nothing
    BY DEF Prune, DangleInv
  <1> QED
    BY <1>3, <1>4 DEF DangleInv

LEMMA StepDangle == TypeOK /\ DangleInv /\ [Next]_vars => DangleInv'
  <1> SUFFICES ASSUME TypeOK, DangleInv, [Next]_vars PROVE DangleInv'
    OBVIOUS
  <1>1. CASE SyncDir \/ Saved \/ Abandon
    BY <1>1 DEF SyncDir, Saved, Abandon, DangleInv, Generations, past
  <1>2. CASE PowerLoss
    BY <1>2 DEF PowerLoss, DangleInv
  <1>3. CASE UNCHANGED vars
    BY <1>3 DEF vars, past, DangleInv, Generations, NextId
  <1> QED
    BY <1>1, <1>2, <1>3, SaveKeepsDangle, WritingKeepsDangle,
       RenameKeepsDangle, PruneKeepsDangle DEF Next, NoIdLeft

\* Short of a power loss no visible generation names a blob that is not
\* there, however many saves die on the way.
THEOREM NothingIsDangling == Spec => []NothingDangles
  <1>1. Init => TypeInv /\ DangleInv
    BY InitTypes, InitDangle
  <1>2. (TypeInv /\ DangleInv) /\ [Next]_vars => (TypeInv /\ DangleInv)'
    BY StepTypes, StepDangle DEF TypeInv
  <1>3. DangleInv => NothingDangles
    BY DEF DangleInv, NothingDangles
  <1> QED
    BY <1>1, <1>2, <1>3, PTL DEF Spec

-----------------------------------------------------------------------------
\* Where directories can be fsynced: what a save returned is matched by a
\* generation whose entry is durable, and while a save prunes its newest is.
KeptInv ==
    ~ refused =>
        /\ returned # 0 => \E g \in Generations \cap persisted : returned <= g
        /\ stage = "pruning" => Max(Generations) \in persisted

LEMMA InitKept == Init => KeptInv
  BY DEF Init, KeptInv

\* Generations are numbers Max applies to.
LEMMA NewestGeneration ==
    ASSUME Generations # {}
    PROVE  /\ Max(Generations) \in Generations
           /\ \A g \in Generations : g \in Nat /\ g <= Max(Generations)
  <1>1. Generations \in SUBSET (0 .. LastId)
    BY DurabilityAssumption DEF Generations, Ids
  <1> QED
    BY <1>1, MaxIsGreatest, DurabilityAssumption

\* What remains once the doomed is unlinked has the same newest.
LEMMA PruneKeepsKept ==
    ASSUME TypeInv, KeptInv, Prune PROVE KeptInv'
  <1> SUFFICES ASSUME ~ refused PROVE KeptInv'
    BY DEF KeptInv, Prune, past
  <1> DEFINE newest == Max(Generations)
  <1>1. PICK g \in Doomed : names' = names \ {g}
    BY DEF Prune
  <1>2. PICK h \in Generations : g < h
    BY DoomedIsNotNewest
  <1>3. /\ newest \in Generations /\ newest \in persisted
        /\ \A k \in Generations : k \in Nat /\ k <= newest
    BY NewestGeneration DEF Prune, TypeInv, KeptInv
  <1>4. g \in Nat /\ g # newest
    BY <1>2, <1>3, DoomedIsNotNewest
  <1>5. Generations' = Generations \ {g}
    BY <1>1 DEF Generations
  <1>6. newest \in Generations' /\ \A k \in Generations' : k <= newest
    BY <1>3, <1>4, <1>5
  <1>7. Max(Generations') = newest
    <2>1. Generations' # {} /\ Generations' \in SUBSET (0 .. LastId)
      BY <1>6, DurabilityAssumption DEF Generations, Ids
    <2>2. Max(Generations') \in Generations' /\ newest <= Max(Generations')
      BY <2>1, <1>6, MaxIsGreatest
    <2>3. Max(Generations') \in Nat /\ Max(Generations') <= newest
      BY <2>2, <1>3, <1>5, <1>6
    <2> QED
      BY <2>2, <2>3, <1>3
  <1>8. ASSUME returned # 0 PROVE \E k \in Generations' \cap persisted : returned <= k
    <2>1. PICK k \in Generations \cap persisted : returned <= k
      BY <1>8 DEF KeptInv
    <2>2. returned <= newest
      BY <2>1, <1>3, DurabilityAssumption DEF TypeInv, TypeOK, Ids
    <2> QED
      BY <2>2, <1>3, <1>6
  <1>9. returned' = returned /\ persisted' = persisted /\ stage' = stage
    BY DEF Prune
  <1> QED
    BY <1>3, <1>7, <1>8, <1>9 DEF KeptInv

LEMMA SyncKeepsKept ==
    ASSUME TypeInv, KeptInv, SyncDir PROVE KeptInv'
  <1> SUFFICES ASSUME ~ refused' PROVE KeptInv'
    BY DEF KeptInv
  <1>1. DirectorySynced /\ ~ refused /\ names' = names /\ returned' = returned
    BY DEF SyncDir
  <1>2. Generations' = Generations /\ Generations \subseteq persisted'
    BY <1>1 DEF Generations, DirectorySynced
  <1>3. Max(Generations) \in Generations
    BY NewestGeneration DEF TypeInv, SyncDir
  <1> QED
    BY <1>1, <1>2, <1>3 DEF KeptInv

LEMMA StepKept == TypeInv /\ KeptInv /\ [Next]_vars => KeptInv'
  <1> SUFFICES ASSUME TypeInv, KeptInv, [Next]_vars PROVE KeptInv'
    OBVIOUS
  <1>1. CASE RenameTemp
    <2>1. Generations \subseteq Generations' /\ persisted' = persisted
      BY <1>1 DEF RenameTemp, Generations
    <2>2. stage' = "pruning" => stage = "pruning" /\ Generations' = Generations
      BY <1>1 DEF RenameTemp, Generations
    <2> QED
      BY <1>1, <2>1, <2>2 DEF RenameTemp, KeptInv, past
  <1>2. CASE Saved
    <2>1. Generations' = Generations /\ Max(Generations) \in Generations
      BY <1>2, NewestGeneration DEF Saved, Generations, TypeInv
    <2>2. Max(Generations) <= Max(Generations)
      BY <2>1, NewestGeneration
    <2> QED
      BY <1>2, <2>1, <2>2 DEF Saved, KeptInv, past
  <1>3. CASE PowerLoss
    <2>1. names \cap persisted \subseteq names' /\ persisted' = names'
      BY <1>3 DEF PowerLoss
    <2>2. Generations \cap persisted \subseteq Generations' \cap persisted'
      BY <2>1 DEF Generations
    <2> QED
      BY <1>3, <2>2 DEF PowerLoss, KeptInv
  <1>4. CASE \/ (\E needed \in SUBSET Blobs : Save(needed))
             \/ PutKnown \/ (\E name \in Names : WriteTemp(name))
             \/ SyncTemp \/ Abandon \/ UNCHANGED vars
    <2>1. /\ Generations' = Generations /\ persisted' = persisted
          /\ returned' = returned /\ refused' = refused
          /\ stage' = "pruning" => stage = "pruning"
      BY <1>4 DEF Save, PutKnown, WriteTemp, SyncTemp, Abandon, vars, past,
         Generations
    <2> QED
      BY <2>1 DEF KeptInv
  <1> QED
    BY <1>1, <1>2, <1>3, <1>4, PruneKeepsKept, SyncKeepsKept DEF Next, NoIdLeft

\* Once a save has returned, its generation or a newer one is there for good,
\* power losses included, wherever the store directory can be fsynced.
THEOREM ReturnedIsKept == Spec => []SavedIsKept
  <1>1. Init => TypeInv /\ KeptInv
    BY InitTypes, InitKept
  <1>2. (TypeInv /\ KeptInv) /\ [Next]_vars => (TypeInv /\ KeptInv)'
    BY StepTypes, StepKept
  <1>3. KeptInv => SavedIsKept
    BY DEF KeptInv, SavedIsKept
  <1> QED
    BY <1>1, <1>2, <1>3, PTL DEF Spec
=============================================================================
