---------------------------- MODULE StoreProofs ----------------------------
(***************************************************************************)
(* Proofs about Store for every number of savers and readers, every set of *)
(* ids and every retention: its inductive invariant, and that it           *)
(* implements Generations.                                                 *)
(***************************************************************************)
EXTENDS Store, FiniteSetTheorems, TLAPS

\* A nonempty set of ids has a newest member, and Newest names it.
LEMMA NewestIsNewest ==
    ASSUME NEW S \in SUBSET Ids, S # {}
    PROVE  /\ Newest(S) \in S
           /\ \A id \in S : id <= Newest(S)
  <1>1. \E newest \in S : \A id \in S : id <= newest
    BY IdsAssumption
  <1> QED
    BY <1>1 DEF Newest

\* The files a read opens are named by ids.
LEMMA OpenedIds ==
    ASSUME NEW asked \in Reads, NEW listing \in SUBSET Ids
    PROVE  Opened(asked, listing) \in SUBSET Ids
  <1>1. CASE asked.op = "load"
    <2>1. asked.id \in Ids
      BY <1>1 DEF Reads
    <2> QED
      BY <1>1, <2>1 DEF Opened
  <1>2. CASE asked.op # "load" /\ (asked.op = "list" \/ listing = {})
    BY <1>2 DEF Opened
  <1>3. CASE asked.op # "load" /\ asked.op # "list" /\ listing # {}
    BY <1>3, NewestIsNewest DEF Opened
  <1> QED
    BY <1>1, <1>2, <1>3

\* The values the fields of idle calls hold are of their type.
LEMMA IdleValues ==
    /\ Requests \subseteq RequestType
    /\ AnyRequest \in Requests
    /\ AnyId \in Ids
    /\ AnyRead \in Reads
  <1>1. \E r \in Requests : TRUE
    <2>1. PICK t \in Times, k \in Retentions : TRUE
      BY StoreAssumption
    <2>2. [captured |-> t, tag |-> TRUE, keep |-> k] \in Requests
      BY <2>1 DEF Requests
    <2> QED
      BY <2>2
  <1>2. \E id \in Ids : TRUE
    BY StoreAssumption
  <1>3. AnyRead \in Reads
    BY DEF AnyRead, Reads
  <1>4. Requests \subseteq RequestType
    BY StoreAssumption DEF Requests, RequestType
  <1> QED
    BY <1>1, <1>2, <1>3, <1>4 DEF AnyRequest, AnyId

\* Returning leaves the saver's fields in their types.
LEMMA ReturnType ==
    ASSUME TypeOK, NEW s \in Savers, Return(s)
    PROVE  /\ lock' \in Savers \cup {Free}
           /\ stage' \in [Savers -> {"idle", "waiting"} \cup Exclusive]
           /\ request' \in [Savers -> RequestType]
           /\ chosen' \in [Savers -> Ids]
           /\ existing' \in [Savers -> SUBSET Ids]
           /\ doomed' \in [Savers -> SUBSET Ids]
  BY IdleValues DEF Return, TypeOK

\* Every step of a save preserves the types.
LEMMA SaverTypes ==
    ASSUME TypeOK, NEW s \in Savers,
           SaveStep(s) \/ Abandon(s) \/ \E asked \in Requests : Save(s, asked)
    PROVE  TypeOK'
  <1> USE DEF directory, saving, looking
  <1>1. CASE \E asked \in Requests : Save(s, asked)
    BY <1>1, IdleValues DEF Save, TypeOK
  <1>2. CASE TakeLock(s)
    BY <1>2 DEF TakeLock, TypeOK, Exclusive
  <1>3. CASE Contended(s) \/ NoIdLeft(s) \/ Saved(s) \/ Abandon(s)
    <2>1. Return(s) /\ UNCHANGED <<directory, looking>>
      BY <1>3 DEF Contended, NoIdLeft, Saved, Abandon
    <2>2. /\ UNCHANGED <<generations, tagged, headless, corrupt, latestPointer>>
          /\ UNCHANGED <<reading, read, before, unopened, kind, answer>>
      BY <2>1
    <2> QED
      BY <2>1, <2>2, ReturnType DEF TypeOK
  <1>4. CASE Prepare(s)
    <2>1. PICK id \in Ids, unreadable \in SUBSET generations :
             /\ chosen' = [chosen EXCEPT ![s] = id]
             /\ existing' = [existing EXCEPT
                               ![s] = generations \ (unreadable \cup tagged)]
      BY <1>4 DEF Prepare, Untagged
    <2>2. generations \ (unreadable \cup tagged) \in SUBSET Ids
      BY DEF TypeOK
    <2> QED
      BY <1>4, <2>1, <2>2 DEF Prepare, TypeOK, Exclusive
  <1>5. CASE Publish(s)
    <2> DEFINE untagged == existing[s] \cup (IF request[s].tag THEN {}
                                                        ELSE {chosen[s]})
    <2>1. chosen[s] \in Ids /\ existing[s] \in SUBSET Ids
      BY DEF TypeOK
    <2>2. BeyondRetention(untagged, request[s].keep) \in SUBSET Ids
      BY <2>1 DEF BeyondRetention
    <2>3. doomed' = [doomed EXCEPT
                       ![s] = BeyondRetention(untagged, request[s].keep)]
      BY <1>5 DEF Publish
    <2> HIDE DEF untagged
    <2>4. doomed' \in [Savers -> SUBSET Ids]
      BY <2>2, <2>3 DEF TypeOK
    <2>5. /\ generations' \in SUBSET Ids /\ tagged' \in SUBSET Ids
          /\ headless' \in SUBSET Ids /\ corrupt' \in SUBSET Ids
      BY <1>5, <2>1 DEF Publish, TypeOK
    <2> QED
      BY <1>5, <2>4, <2>5 DEF Publish, TypeOK, Exclusive
  <1>6. CASE PruneOne(s)
    BY <1>6 DEF PruneOne, TypeOK
  <1> QED
    BY <1>1, <1>2, <1>3, <1>4, <1>5, <1>6 DEF SaveStep

\* Every step of a read preserves the types.
LEMMA ReaderTypes ==
    ASSUME TypeOK, NEW r \in Readers,
           ReadStep(r) \/ GiveUp(r) \/ \E asked \in Reads : Ask(r, asked)
    PROVE  TypeOK'
  <1> USE DEF directory, saving, looking
  <1>1. CASE \E asked \in Reads : Ask(r, asked)
    BY <1>1 DEF Ask, TypeOK
  <1>2. CASE List(r)
    <2>1. Opened(read[r], generations) \in SUBSET Ids
      BY OpenedIds DEF TypeOK
    <2> QED
      BY <1>2, <2>1 DEF List, TypeOK, Kinds
  <1>3. CASE Open(r)
    <2>1. PICK id \in unopened[r] :
             /\ unopened' = [unopened EXCEPT ![r] = @ \ {id}]
             /\ kind' = [kind EXCEPT
                           ![r] = IF id \notin generations THEN "missing"
                                  ELSE IF id \in Undecodable(read[r], headless, corrupt)
                                       THEN "damaged"
                                  ELSE "found"]
      BY <1>3 DEF Open
    <2>2. unopened' \in [Readers -> SUBSET Ids]
      BY <2>1 DEF TypeOK
    <2>3. kind' \in [Readers -> Kinds]
      BY <2>1 DEF TypeOK, Kinds
    <2> QED
      BY <1>3, <2>2, <2>3 DEF Open, TypeOK
  <1>4. CASE Recheck(r)
    <2>1. /\ read' \in [Readers -> Reads]
          /\ before' \in [Readers -> SUBSET Ids]
          /\ unopened' \in [Readers -> SUBSET Ids]
          /\ kind' \in [Readers -> Kinds]
          /\ reading' \in [Readers -> {"idle", "listing", "opening"}]
      BY <1>4, IdleValues DEF Recheck, Unmoved, TypeOK, Kinds
    <2>2. Opened(read[r], before[r]) \in SUBSET Ids
      BY OpenedIds DEF TypeOK
    <2>3. read[r] \in Reads /\ kind[r] \in Kinds
      BY DEF TypeOK
    <2>4. /\ [read |-> read[r], kind |-> "found",
              ids |-> Opened(read[r], before[r])] \in Answers
          /\ Failure(read[r], kind[r]) \in Answers
      BY <2>2, <2>3 DEF Answers, Failure, Kinds
    <2>5. answer' \in [Readers -> Answers \cup {NoAnswer}]
      BY <1>4, <2>4 DEF Recheck, Unmoved, TypeOK
    <2> QED
      BY <1>4, <2>1, <2>5 DEF Recheck, Unmoved, TypeOK
  <1>5. CASE GiveUp(r)
    BY <1>5, IdleValues DEF GiveUp, TypeOK, Kinds
  <1> QED
    BY <1>1, <1>2, <1>3, <1>4, <1>5 DEF ReadStep

\* Every variable of the store keeps its type, whatever the processes do.
THEOREM TypeCorrect == Spec => []TypeOK
  <1>1. Init => TypeOK
    BY IdleValues, StoreAssumption DEF Init, TypeOK, Kinds, Exclusive
  <1>2. TypeOK /\ [Next]_vars => TypeOK'
    <2> SUFFICES ASSUME TypeOK, [Next]_vars
                 PROVE  TypeOK'
      OBVIOUS
    <2>1. CASE UNCHANGED vars
      BY <2>1 DEF vars, directory, saving, looking, TypeOK
    <2>2. CASE Next
      BY <2>2, SaverTypes, ReaderTypes DEF Next
    <2> QED
      BY <2>1, <2>2
  <1> QED
    BY <1>1, <1>2, PTL DEF Spec

-----------------------------------------------------------------------------
(***************************************************************************)
(* Saves.  The flock makes id choice, publish and prune one unit although  *)
(* each is several steps: while a save is between two of them no other is  *)
(* in an exclusive stage, so nothing it read has changed.                  *)
(***************************************************************************)
\* A call that returns takes nothing from the other calls' invariants.
LEMMA ReturnKeepsSaveInv ==
    ASSUME TypeOK, SaveInv, NEW s \in Savers, Return(s), UNCHANGED directory
    PROVE  SaveInv'
  <1> USE DEF TypeOK, SaveInv, Return, directory
  <1>1. LockExcludes'
    BY StoreAssumption DEF LockExcludes, Exclusive
  <1>2. ChosenStaysAbove'
    BY DEF ChosenStaysAbove
  <1>3. ExistingIsPrunable'
    BY DEF ExistingIsPrunable
  <1>4. DoomedIsExpendable'
    BY DEF DoomedIsExpendable
  <1> QED
    BY <1>1, <1>2, <1>3, <1>4

LEMMA TakeLockKeepsSaveInv ==
    ASSUME TypeOK, SaveInv, NEW s \in Savers, TakeLock(s)
    PROVE  SaveInv'
  <1> USE DEF TypeOK, SaveInv, TakeLock, directory
  <1>1. LockExcludes'
    BY StoreAssumption DEF LockExcludes, Exclusive
  <1>2. ChosenStaysAbove' /\ ExistingIsPrunable' /\ DoomedIsExpendable'
    BY DEF ChosenStaysAbove, ExistingIsPrunable, DoomedIsExpendable
  <1> QED
    BY <1>1, <1>2

LEMMA PrepareKeepsSaveInv ==
    ASSUME TypeOK, SaveInv, NEW s \in Savers, Prepare(s)
    PROVE  SaveInv'
  <1>1. PICK id \in Ids, unreadable \in SUBSET generations :
           /\ \A other \in generations : other < id
           /\ headless \cap generations \subseteq unreadable
           /\ chosen' = [chosen EXCEPT ![s] = id]
           /\ existing' = [existing EXCEPT
                             ![s] = generations \ (unreadable \cup tagged)]
    BY DEF Prepare, IsNextId, Untagged
  <1>2. /\ stage[s] = "locked" /\ stage' = [stage EXCEPT ![s] = "prepared"]
        /\ UNCHANGED <<generations, tagged, headless, lock, doomed>>
    BY DEF Prepare
  <1> USE <1>1, <1>2 DEF TypeOK, SaveInv
  <1>3. LockExcludes'
    BY DEF LockExcludes, Exclusive
  <1>4. ChosenStaysAbove'
    BY DEF ChosenStaysAbove
  <1>5. ExistingIsPrunable'
    BY DEF ExistingIsPrunable
  <1>6. DoomedIsExpendable'
    BY DEF DoomedIsExpendable
  <1> QED
    BY <1>3, <1>4, <1>5, <1>6

\* Retention keeps at least one: nothing the prune takes is the newest of
\* the generations it counts.
LEMMA NewestIsRetained ==
    ASSUME NEW S \in SUBSET Ids, NEW keep \in Nat \ {0},
           NEW id \in BeyondRetention(S, keep)
    PROVE  id \in S /\ \E newer \in S : id < newer
  <1>1. id \in S /\ Cardinality({h \in S : id < h}) >= keep
    BY DEF BeyondRetention
  <1>2. Cardinality({h \in S : id < h}) # 0
    <2>1. CASE Cardinality({h \in S : id < h}) = 0
      BY <1>1, <2>1
    <2> QED
      BY <2>1
  <1>3. {h \in S : id < h} # {}
    BY <1>2, FS_EmptySet
  <1> QED
    BY <1>1, <1>3

LEMMA PublishKeepsSaveInv ==
    ASSUME TypeOK, SaveInv, NEW s \in Savers, Publish(s)
    PROVE  SaveInv'
  <1> DEFINE untagged == existing[s] \cup (IF request[s].tag THEN {}
                                                      ELSE {chosen[s]})
  <1>1. /\ stage[s] = "prepared" /\ stage' = [stage EXCEPT ![s] = "pruning"]
        /\ generations' = generations \cup {chosen[s]}
        /\ tagged' = IF request[s].tag THEN tagged \cup {chosen[s]}
                                       ELSE tagged \ {chosen[s]}
        /\ headless' = headless \ {chosen[s]}
        /\ doomed' = [doomed EXCEPT
                        ![s] = BeyondRetention(untagged, request[s].keep)]
        /\ existing' = [existing EXCEPT ![s] = {}]
        /\ UNCHANGED <<lock, chosen>>
    BY DEF Publish
  <1>2. \A t \in Savers : t # s => stage[t] \notin Exclusive
    BY <1>1 DEF SaveInv, LockExcludes, Exclusive
  <1>3. /\ existing[s] \subseteq generations \ (tagged \cup headless)
        /\ \A id \in generations : id < chosen[s]
    BY <1>1 DEF SaveInv, ExistingIsPrunable, ChosenStaysAbove
  <1>4. LockExcludes'
    BY <1>1 DEF TypeOK, SaveInv, LockExcludes, Exclusive
  <1>5. ChosenStaysAbove' /\ ExistingIsPrunable'
    BY <1>1, <1>2 DEF TypeOK, ChosenStaysAbove, ExistingIsPrunable, Exclusive
  <1>6. ASSUME NEW id \in doomed'[s]
        PROVE  id < chosen[s] /\ id \notin tagged' \cup headless'
    <2>1. /\ untagged \in SUBSET Ids
          /\ request[s].keep \in Nat \ {0}
          /\ chosen[s] \in Int /\ Ids \subseteq Int
      BY StoreAssumption, IdsAssumption DEF TypeOK, RequestType
    <2>2. id \in BeyondRetention(untagged, request[s].keep)
      BY <1>1 DEF TypeOK
    <2>3. id \in untagged /\ \E newer \in untagged : id < newer
      BY <2>1, <2>2, NewestIsRetained
    <2>4. id # chosen[s]
      <3>1. PICK newer \in untagged : id < newer
        BY <2>3
      <3>2. newer \in Int /\ (newer = chosen[s] \/ newer < chosen[s])
        BY <1>3, <2>1
      <3> QED
        BY <2>1, <3>1, <3>2
    <2>5. id \in existing[s]
      BY <2>3, <2>4
    <2> QED
      BY <1>1, <1>3, <2>4, <2>5
  <1>7. DoomedIsExpendable'
    <2>1. \A t \in Savers : stage'[t] = "pruning" => t = s
      BY <1>1, <1>2 DEF TypeOK, Exclusive
    <2>2. chosen'[s] \in generations'
      BY <1>1
    <2> QED
      BY <1>1, <1>6, <2>1, <2>2 DEF DoomedIsExpendable
  <1> QED
    BY <1>4, <1>5, <1>7 DEF SaveInv

LEMMA PruneOneKeepsSaveInv ==
    ASSUME TypeOK, SaveInv, NEW s \in Savers, PruneOne(s)
    PROVE  SaveInv'
  <1>1. PICK id \in doomed[s] :
           /\ generations' \in {generations \ {id}, generations}
           /\ doomed' = [doomed EXCEPT ![s] = doomed[s] \ {id}]
    BY DEF PruneOne
  <1>2. /\ stage[s] = "pruning"
        /\ UNCHANGED <<tagged, headless, lock, stage, chosen, existing>>
    BY DEF PruneOne
  <1>3. \A t \in Savers : t # s => stage[t] \notin Exclusive
    BY <1>2 DEF SaveInv, LockExcludes, Exclusive
  <1>4. id < chosen[s] /\ chosen[s] \in Int /\ id \in Int
    BY <1>2, IdsAssumption DEF TypeOK, SaveInv, DoomedIsExpendable
  <1>5. LockExcludes' /\ ChosenStaysAbove' /\ ExistingIsPrunable'
    BY <1>1, <1>2, <1>3
       DEF SaveInv, LockExcludes, ChosenStaysAbove, ExistingIsPrunable, Exclusive
  <1>6. DoomedIsExpendable'
    <2>1. \A t \in Savers : stage'[t] = "pruning" => t = s
      BY <1>2, <1>3 DEF Exclusive
    <2>2. chosen[s] \in generations'
      BY <1>1, <1>2, <1>4 DEF SaveInv, DoomedIsExpendable
    <2>3. doomed'[s] \subseteq doomed[s]
      BY <1>1 DEF TypeOK
    <2> QED
      BY <1>2, <2>1, <2>2, <2>3 DEF SaveInv, DoomedIsExpendable
  <1> QED
    BY <1>5, <1>6 DEF SaveInv

LEMMA SaverKeepsSaveInv ==
    ASSUME TypeOK, SaveInv, NEW s \in Savers,
           SaveStep(s) \/ Abandon(s) \/ \E asked \in Requests : Save(s, asked)
    PROVE  SaveInv'
  <1>1. CASE \E asked \in Requests : Save(s, asked)
    <2>1. /\ stage[s] = "idle" /\ stage' = [stage EXCEPT ![s] = "waiting"]
          /\ UNCHANGED <<generations, tagged, headless, lock, chosen,
                         existing, doomed>>
      BY <1>1 DEF Save, directory
    <2> QED
      BY <2>1 DEF TypeOK, SaveInv, LockExcludes, ChosenStaysAbove,
                  ExistingIsPrunable, DoomedIsExpendable, Exclusive
  <1>2. CASE Contended(s) \/ NoIdLeft(s) \/ Saved(s) \/ Abandon(s)
    BY <1>2, ReturnKeepsSaveInv DEF Contended, NoIdLeft, Saved, Abandon
  <1> QED
    BY <1>1, <1>2, TakeLockKeepsSaveInv, PrepareKeepsSaveInv,
       PublishKeepsSaveInv, PruneOneKeepsSaveInv DEF SaveStep

\* Reads change nothing a save relies on: the invariant of saves holds for
\* every interleaving of savers, readers and deaths.
THEOREM SavesAreSafe == Spec => []SaveInv
  <1>1. Init => SaveInv
    BY StoreAssumption
       DEF Init, SaveInv, LockExcludes, ChosenStaysAbove, ExistingIsPrunable,
           DoomedIsExpendable, Exclusive
  <1>2. TypeOK /\ SaveInv /\ [Next]_vars => SaveInv'
    <2> SUFFICES ASSUME TypeOK, SaveInv, [Next]_vars
                 PROVE  SaveInv'
      OBVIOUS
    <2>1. CASE UNCHANGED <<directory, saving>>
      BY <2>1 DEF directory, saving, SaveInv, LockExcludes, ChosenStaysAbove,
                  ExistingIsPrunable, DoomedIsExpendable
    <2>2. ASSUME NEW r \in Readers,
                 ReadStep(r) \/ GiveUp(r) \/ \E asked \in Reads : Ask(r, asked)
          PROVE  UNCHANGED <<directory, saving>>
      BY <2>2 DEF ReadStep, GiveUp, Ask, List, Open, Recheck
    <2> QED
      BY <2>1, <2>2, SaverKeepsSaveInv DEF Next, vars
  <1> QED
    BY <1>1, <1>2, TypeCorrect, PTL DEF Spec

-----------------------------------------------------------------------------
(***************************************************************************)
(* Retention.  Deleting newest first, and perhaps dying on the way, a      *)
(* prune always leaves the newest untagged generations it was asked to     *)
(* keep: they are newer than everything doomed, and none of them is.       *)
(***************************************************************************)
Retained(s, id) ==
    {newer \in generations \ (tagged \cup doomed[s]) : id < newer}

RetentionInv ==
    /\ IsFiniteSet(generations)
    /\ \A s \in Savers : stage[s] = "pruning" =>
          \A id \in doomed[s] : Cardinality(Retained(s, id)) >= request[s].keep

\* A larger finite set is no smaller.
LEMMA MoreIsEnough ==
    ASSUME NEW S, IsFiniteSet(S), NEW T \in SUBSET S, NEW n \in Nat,
           Cardinality(T) >= n
    PROVE  Cardinality(S) >= n
  BY FS_Subset, FS_CardinalityType

\* What BeyondRetention spares is enough, and newer than what it does not.
LEMMA SparedIsEnough ==
    ASSUME NEW S \in SUBSET Ids, IsFiniteSet(S), NEW keep \in Nat \ {0},
           NEW id \in BeyondRetention(S, keep)
    PROVE  Cardinality({h \in S \ BeyondRetention(S, keep) : id < h}) >= keep
  <1> DEFINE doom == BeyondRetention(S, keep)
             Newer(g) == {h \in S : g < h}
  <1>1. id \in doom /\ doom \in SUBSET Ids /\ doom # {} /\ doom \subseteq S /\ Ids \subseteq Int
    BY IdsAssumption DEF BeyondRetention
  <1>2. PICK top \in doom : \A g \in doom : g <= top
    BY <1>1, IdsAssumption
  <1>3. Cardinality(Newer(top)) >= keep
    BY <1>2 DEF BeyondRetention
  <1>4. Newer(top) \subseteq {h \in S \ doom : id < h}
    <2> SUFFICES ASSUME NEW h \in S, top < h
                 PROVE  h \notin doom /\ id < h
      OBVIOUS
    <2> HIDE DEF doom
    <2>1. h \in Int /\ top \in Int /\ id \in Int /\ id <= top /\ top < h
      BY <1>1, <1>2
    <2>2. id < h
      BY <2>1
    <2>3. ASSUME h \in doom PROVE FALSE
      BY <1>2, <2>1, <2>3
    <2> QED
      BY <2>2, <2>3
  <1>5. IsFiniteSet({h \in S \ doom : id < h})
    BY FS_Subset
  <1> QED
    BY <1>3, <1>4, <1>5, MoreIsEnough

LEMMA SaverKeepsRetention ==
    ASSUME TypeOK, SaveInv, RetentionInv, NEW s \in Savers,
           SaveStep(s) \/ Abandon(s) \/ \E asked \in Requests : Save(s, asked)
    PROVE  RetentionInv'
  <1>1. CASE Publish(s)
    <2> DEFINE id == chosen[s]
               untagged == existing[s] \cup (IF request[s].tag THEN {} ELSE {id})
               doom == BeyondRetention(untagged, request[s].keep)
    <2>1. /\ stage[s] = "prepared" /\ stage' = [stage EXCEPT ![s] = "pruning"]
          /\ generations' = generations \cup {id}
          /\ tagged' = IF request[s].tag THEN tagged \cup {id} ELSE tagged \ {id}
          /\ doomed' = [doomed EXCEPT ![s] = doom]
          /\ request' = request
      BY <1>1 DEF Publish
    <2>2. /\ existing[s] \subseteq generations \ tagged
          /\ \A other \in generations : other < id
          /\ id \in Ids /\ generations \subseteq Ids /\ Ids \subseteq Int
          /\ request[s].keep \in Nat \ {0}
      BY <2>1, IdsAssumption DEF SaveInv, ExistingIsPrunable, ChosenStaysAbove,
                                 TypeOK, RequestType
    <2>3. IsFiniteSet(generations')
      BY <2>1, FS_AddElement DEF RetentionInv
    <2>4. IsFiniteSet(untagged) /\ untagged \in SUBSET Ids
      <3>1. untagged \subseteq generations'
        BY <2>1, <2>2
      <3> QED
        BY <2>2, <2>3, <3>1, FS_Subset
    <2>5. untagged \subseteq generations' \ tagged'
      <3>1. id \notin generations
        <4>1. ASSUME id \in generations PROVE FALSE
          <5>1. id < id /\ id \in Int
            BY <2>2, <4>1
          <5> QED
            BY <5>1
        <4> QED
          BY <4>1
      <3>2. existing[s] \subseteq generations' \ tagged'
        BY <2>1, <2>2, <3>1
      <3>3. ~ request[s].tag => id \in generations' \ tagged'
        BY <2>1
      <3> QED
        BY <3>2, <3>3
    <2>6. ASSUME NEW g \in doom
          PROVE  Cardinality({newer \in generations' \ (tagged' \cup doom) :
                                g < newer}) >= request[s].keep
      <3>1. Cardinality({h \in untagged \ doom : g < h}) >= request[s].keep
        BY <2>2, <2>4, SparedIsEnough
      <3>2. {h \in untagged \ doom : g < h} \subseteq
              {newer \in generations' \ (tagged' \cup doom) : g < newer}
        BY <2>5
      <3>3. IsFiniteSet({newer \in generations' \ (tagged' \cup doom) : g < newer})
        BY <2>3, FS_Subset
      <3> QED
        BY <2>2, <3>1, <3>2, <3>3, MoreIsEnough
    <2>7. \A t \in Savers : stage'[t] = "pruning" => t = s
      BY <2>1 DEF SaveInv, LockExcludes, TypeOK, Exclusive
    <2>8. doomed'[s] = doom
      BY <2>1 DEF TypeOK
    <2> HIDE DEF doom, untagged
    <2> QED
      BY <2>1, <2>3, <2>6, <2>7, <2>8 DEF RetentionInv, Retained
  <1>2. CASE PruneOne(s)
    <2>1. PICK id \in doomed[s] :
             /\ generations' \in {generations \ {id}, generations}
             /\ doomed' = [doomed EXCEPT ![s] = doomed[s] \ {id}]
      BY <1>2 DEF PruneOne
    <2>2. stage[s] = "pruning" /\ UNCHANGED <<tagged, stage, request>>
      BY <1>2 DEF PruneOne
    <2>3. IsFiniteSet(generations')
      BY <2>1, FS_Subset DEF RetentionInv
    <2>4. ASSUME NEW g \in doomed'[s]
          PROVE  Cardinality(Retained(s, g)') >= request[s].keep
      <3>1. g \in doomed[s] /\ doomed'[s] = doomed[s] \ {id}
        BY <2>1 DEF TypeOK
      <3>2. Cardinality(Retained(s, g)) >= request[s].keep
        BY <2>2, <3>1 DEF RetentionInv
      <3>3. Retained(s, g) \subseteq Retained(s, g)'
        BY <2>1, <2>2, <3>1 DEF Retained
      <3>4. IsFiniteSet(Retained(s, g)')
        BY <2>3, FS_Subset DEF Retained
      <3>5. request[s].keep \in Nat
        BY DEF TypeOK, RequestType
      <3> QED
        BY <3>2, <3>3, <3>4, <3>5, MoreIsEnough
    <2>5. \A t \in Savers : stage'[t] = "pruning" => t = s
      BY <2>2 DEF SaveInv, LockExcludes, Exclusive
    <2> QED
      BY <2>2, <2>3, <2>4, <2>5 DEF RetentionInv
  <1>3. CASE ~ (Publish(s) \/ PruneOne(s))
    <2>1. UNCHANGED <<generations, tagged>>
      BY <1>3 DEF SaveStep, Save, TakeLock, Contended, Prepare, NoIdLeft, Saved,
                  Abandon, directory
    <2>2. \A t \in Savers : stage'[t] = "pruning" =>
             /\ stage[t] = "pruning"
             /\ doomed'[t] = doomed[t] /\ request'[t] = request[t]
      BY <1>3 DEF SaveStep, Save, TakeLock, Contended, Prepare, NoIdLeft, Saved,
                  Abandon, Return, TypeOK
    <2> QED
      BY <2>1, <2>2 DEF RetentionInv, Retained
  <1> QED
    BY <1>1, <1>2, <1>3

\* Reads do not change what retention is about.
LEMMA ReadersLeaveDirectory ==
    ASSUME NEW r \in Readers,
           ReadStep(r) \/ GiveUp(r) \/ \E asked \in Reads : Ask(r, asked)
    PROVE  UNCHANGED <<directory, saving>>
  BY DEF ReadStep, GiveUp, Ask, List, Open, Recheck

\* Untagged generations as many as were asked for outlive every prune.
THEOREM RetentionHolds == Spec => PruneLeavesEnough
  <1>1. Init => RetentionInv
    BY StoreAssumption, FS_Subset DEF Init, RetentionInv
  <1>2. TypeOK /\ SaveInv /\ RetentionInv /\ [Next]_vars => RetentionInv'
    <2> SUFFICES ASSUME TypeOK, SaveInv, RetentionInv, [Next]_vars
                 PROVE  RetentionInv'
      OBVIOUS
    <2>1. CASE UNCHANGED <<directory, saving>>
      BY <2>1 DEF directory, saving, RetentionInv, Retained
    <2> QED
      BY <2>1, SaverKeepsRetention, ReadersLeaveDirectory DEF Next, vars
  <1>3. TypeOK /\ SaveInv /\ RetentionInv /\ [Next]_vars =>
          [\A id \in generations \ generations' :
              /\ lock # Free
              /\ Cardinality({newer \in generations' \ tagged : id < newer})
                    >= request[lock].keep]_vars
    <2> SUFFICES ASSUME TypeOK, SaveInv, RetentionInv, [Next]_vars,
                        NEW id \in generations \ generations'
                 PROVE  /\ lock # Free
                        /\ Cardinality({newer \in generations' \ tagged :
                                          id < newer}) >= request[lock].keep
      OBVIOUS
    <2>1. PICK s \in Savers : PruneOne(s)
      BY ReadersLeaveDirectory
         DEF Next, vars, directory, SaveStep, Save, TakeLock, Contended, Prepare,
             NoIdLeft, Publish, Saved, Abandon
    <2>2. /\ stage[s] = "pruning" /\ id \in doomed[s]
          /\ generations' = generations \ {id}
      BY <2>1 DEF PruneOne
    <2>3. lock = s /\ lock # Free
      BY <2>2, StoreAssumption DEF SaveInv, LockExcludes, Exclusive
    <2>4. Cardinality(Retained(s, id)) >= request[s].keep
      BY <2>2 DEF RetentionInv
    <2>5. Retained(s, id) \subseteq {newer \in generations' \ tagged : id < newer}
      BY <2>2 DEF Retained
    <2>6. IsFiniteSet({newer \in generations' \ tagged : id < newer})
      BY <2>2, FS_Subset DEF RetentionInv
    <2>7. request[s].keep \in Nat
      BY DEF TypeOK, RequestType
    <2> QED
      BY <2>3, <2>4, <2>5, <2>6, <2>7, MoreIsEnough
  <1> QED
    BY <1>1, <1>2, <1>3, TypeCorrect, SavesAreSafe, PTL
       DEF Spec, PruneLeavesEnough

-----------------------------------------------------------------------------
(***************************************************************************)
(* Reads.  Each step of a save is a step of Generations or changes nothing *)
(* a reader sees; such steps never bring the directory back to a listing   *)
(* it has left; so an unchanged second listing vouches for everything read *)
(* since the first.                                                        *)
(***************************************************************************)
LEMMA SaverImplementsPromise ==
    ASSUME TypeOK, SaveInv, NEW s \in Savers,
           SaveStep(s) \/ Abandon(s) \/ \E asked \in Requests : Save(s, asked)
    PROVE  /\ Promise!Publish \/ Promise!Prune \/ UNCHANGED Promise!vars
           /\ UNCHANGED looking
  <1> USE DEF directory, looking, Promise!vars
  <1>1. CASE \E asked \in Requests : Save(s, asked)
    BY <1>1 DEF Save
  <1>2. CASE TakeLock(s) \/ Contended(s) \/ Prepare(s) \/ NoIdLeft(s)
             \/ Saved(s) \/ Abandon(s)
    BY <1>2 DEF TakeLock, Contended, Prepare, NoIdLeft, Saved, Abandon
  <1>3. CASE Publish(s)
    <2>1. /\ chosen[s] \in Ids
          /\ request[s].tag \in BOOLEAN
          /\ \A other \in generations : other < chosen[s]
      BY <1>3 DEF Publish, TypeOK, RequestType, SaveInv, ChosenStaysAbove
    <2>2. /\ generations' = generations \cup {chosen[s]}
          /\ tagged' = IF request[s].tag THEN tagged \cup {chosen[s]}
                                         ELSE tagged \ {chosen[s]}
          /\ headless' = headless \ {chosen[s]}
          /\ corrupt' = corrupt \ {chosen[s]}
          /\ UNCHANGED looking
      BY <1>3 DEF Publish
    <2> QED
      BY <2>1, <2>2 DEF Promise!Publish
  <1>4. CASE PruneOne(s)
    <2>1. PICK id \in doomed[s] :
             generations' \in {generations \ {id}, generations}
      BY <1>4 DEF PruneOne
    <2>2. /\ stage[s] = "pruning"
          /\ UNCHANGED <<tagged, headless, corrupt, looking>>
      BY <1>4 DEF PruneOne
    <2>3. /\ id < chosen[s] /\ chosen[s] \in generations
          /\ id \notin tagged \cup headless
      BY <2>2 DEF SaveInv, DoomedIsExpendable
    <2>4. CASE id \in generations /\ generations' = generations \ {id}
      BY <2>2, <2>3, <2>4 DEF Promise!Prune
    <2>5. CASE id \notin generations \/ generations' = generations
      <3>1. generations' = generations
        BY <2>1, <2>5
      <3> QED
        BY <2>2, <3>1
    <2> QED
      BY <2>1, <2>2, <2>4, <2>5
  <1> QED
    BY <1>1, <1>2, <1>3, <1>4 DEF SaveStep

\* Publishing overtakes every listing taken before it.
LEMMA PublishOvertakes ==
    ASSUME TypeOK, SecondListingSuffices, Promise!Publish, UNCHANGED looking,
           NEW r \in Readers, reading[r] = "opening"
    PROVE  ListingIsOvertaken(r)' /\ generations' # before'[r]
  <1>1. PICK id \in Ids : /\ \A other \in generations : other < id
                          /\ generations' = generations \cup {id}
    BY DEF Promise!Publish
  <1>2. /\ before' = before /\ before[r] \subseteq Int
        /\ generations \subseteq Int /\ id \in Int
    BY IdsAssumption DEF looking, TypeOK
  <1>3. ListingIsOvertaken(r) \/ ListingOnlyShrank(r)
    BY DEF SecondListingSuffices
  <1>4. \A listed \in before[r] : listed < id
    <2>1. CASE before[r] = {}
      BY <2>1
    <2>2. CASE before[r] # {}
      <3>1. PICK top \in generations : \A listed \in before[r] : listed <= top
        BY <1>2, <1>3, <2>2 DEF ListingIsOvertaken, ListingOnlyShrank
      <3>2. top < id /\ top \in Int
        BY <1>1, <1>2
      <3> QED
        BY <1>2, <3>1, <3>2
    <2> QED
      BY <2>1, <2>2
  <1>5. id \notin before[r]
    BY <1>2, <1>4
  <1> QED
    BY <1>1, <1>2, <1>4, <1>5 DEF ListingIsOvertaken

\* Pruning leaves an overtaken listing overtaken and only shrinks the others,
\* and the directory no longer matches either.
LEMMA PruneMovesAway ==
    ASSUME TypeOK, SecondListingSuffices, Promise!Prune, UNCHANGED looking,
           NEW r \in Readers, reading[r] = "opening"
    PROVE  /\ (ListingIsOvertaken(r) \/ ListingOnlyShrank(r))'
           /\ generations' # before'[r]
  <1>1. PICK id \in generations : /\ \E newer \in generations : id < newer
                                  /\ generations' = generations \ {id}
    BY DEF Promise!Prune
  <1>2. PICK newer \in generations : id < newer
    BY <1>1
  <1>3. /\ before' = before /\ before[r] \subseteq Int
        /\ generations \subseteq Int /\ id \in Int /\ newer \in Int
    BY <1>1, IdsAssumption DEF looking, TypeOK
  <1>4. newer \in generations'
    BY <1>1, <1>2, <1>3
  <1>5. CASE ListingIsOvertaken(r)
    <2>1. PICK top \in generations : \A listed \in before[r] : listed < top
      BY <1>5 DEF ListingIsOvertaken
    <2>2. \E above \in generations' : \A listed \in before[r] : listed < above
      <3>1. CASE top = id
        BY <1>2, <1>3, <1>4, <2>1, <3>1
      <3>2. CASE top # id
        BY <1>1, <2>1, <3>2
      <3> QED
        BY <3>1, <3>2
    <2>3. PICK above \in generations' : \A listed \in before[r] : listed < above
      BY <2>2
    <2>4. above \notin before[r]
      BY <1>1, <1>3, <2>3
    <2> QED
      BY <1>3, <2>2, <2>4 DEF ListingIsOvertaken
  <1>6. CASE ListingOnlyShrank(r)
    <2>1. generations \subseteq before[r]
      BY <1>6 DEF ListingOnlyShrank
    <2>2. PICK top \in generations : \A listed \in before[r] : listed <= top
      BY <1>1, <1>6, <2>1 DEF ListingOnlyShrank
    <2>3. top # id
      BY <1>2, <1>3, <2>1, <2>2
    <2>4. top \in generations'
      BY <1>1, <2>3
    <2>5. ListingOnlyShrank(r)'
      BY <1>1, <1>3, <2>1, <2>2, <2>4 DEF ListingOnlyShrank
    <2> QED
      BY <1>1, <1>3, <2>1, <2>5
  <1>7. ListingIsOvertaken(r) \/ ListingOnlyShrank(r)
    BY DEF SecondListingSuffices
  <1> QED
    BY <1>5, <1>6, <1>7

LEMMA SaverKeepsReads ==
    ASSUME TypeOK, SecondListingSuffices, UNCHANGED looking,
           Promise!Publish \/ Promise!Prune \/ UNCHANGED Promise!vars
    PROVE  SecondListingSuffices'
  <1>1. CASE UNCHANGED Promise!vars
    BY <1>1 DEF Promise!vars, looking, SecondListingSuffices, SeenSoFar,
                ListingIsOvertaken, ListingOnlyShrank
  <1>2. CASE Promise!Publish \/ Promise!Prune
    <2> SUFFICES ASSUME NEW r \in Readers, reading'[r] = "opening"
                 PROVE  /\ (ListingIsOvertaken(r) \/ ListingOnlyShrank(r))'
                        /\ unopened'[r] \subseteq Opened(read'[r], before'[r])
                        /\ generations' # before'[r]
      BY DEF SecondListingSuffices
    <2>1. /\ reading[r] = "opening"
          /\ unopened[r] \subseteq Opened(read[r], before[r])
      BY DEF looking, SecondListingSuffices
    <2>2. unopened'[r] \subseteq Opened(read'[r], before'[r])
      BY <2>1 DEF looking
    <2> QED
      BY <1>2, <2>1, <2>2, PublishOvertakes, PruneMovesAway
  <1> QED
    BY <1>1, <1>2

LEMMA ReaderKeepsReads ==
    ASSUME TypeOK, SecondListingSuffices, NEW r \in Readers,
           ReadStep(r) \/ GiveUp(r) \/ \E asked \in Reads : Ask(r, asked)
    PROVE  SecondListingSuffices'
  <1>1. UNCHANGED <<generations, headless, corrupt>>
    BY DEF ReadStep, List, Open, Recheck, GiveUp, Ask, directory
  <1>2. ASSUME NEW other \in Readers, other # r
        PROVE  /\ reading'[other] = reading[other] /\ read'[other] = read[other]
               /\ before'[other] = before[other] /\ kind'[other] = kind[other]
               /\ unopened'[other] = unopened[other]
    BY <1>2 DEF ReadStep, List, Open, Recheck, GiveUp, Ask, TypeOK
  <1>3. ASSUME reading'[r] = "opening"
        PROVE  /\ (ListingIsOvertaken(r) \/ ListingOnlyShrank(r))'
               /\ unopened'[r] \subseteq Opened(read'[r], before'[r])
               /\ generations' = before'[r] => SeenSoFar(r)'
    <2>1. CASE List(r)
      <3>1. /\ before'[r] = generations /\ read'[r] = read[r]
            /\ unopened'[r] = Opened(read[r], generations)
            /\ kind'[r] = IF NothingToOpen(read[r], generations)
                          THEN "no latest" ELSE "found"
        BY <2>1 DEF List, TypeOK
      <3>2. ListingOnlyShrank(r)'
        <4>1. CASE generations = {}
          BY <1>1, <3>1, <4>1 DEF ListingOnlyShrank
        <4>2. CASE generations # {}
          BY <1>1, <3>1, <4>2, IdsAssumption DEF ListingOnlyShrank, TypeOK
        <4> QED
          BY <4>1, <4>2
      <3>3. SeenSoFar(r)'
        BY <1>1, <3>1 DEF SeenSoFar
      <3> QED
        BY <3>1, <3>2, <3>3
    <2>2. CASE Open(r)
      <3>1. PICK id \in unopened[r] :
               /\ unopened' = [unopened EXCEPT ![r] = unopened[r] \ {id}]
               /\ kind' = [kind EXCEPT ![r] =
                    IF id \notin generations THEN "missing"
                    ELSE IF id \in Undecodable(read[r], headless, corrupt)
                         THEN "damaged"
                    ELSE "found"]
        BY <2>2 DEF Open
      <3>2. /\ reading[r] = "opening" /\ kind[r] = "found"
            /\ read' = read /\ before' = before
        BY <2>2 DEF Open
      <3>3. /\ ListingIsOvertaken(r) \/ ListingOnlyShrank(r)
            /\ unopened[r] \subseteq Opened(read[r], before[r])
            /\ generations = before[r] => SeenSoFar(r)
        BY <3>2 DEF SecondListingSuffices
      <3>4. (ListingIsOvertaken(r) \/ ListingOnlyShrank(r))'
        BY <1>1, <3>2, <3>3 DEF ListingIsOvertaken, ListingOnlyShrank
      <3>5. /\ unopened'[r] = unopened[r] \ {id}
            /\ kind'[r] = IF id \notin generations THEN "missing"
                          ELSE IF id \in Undecodable(read[r], headless, corrupt)
                               THEN "damaged"
                          ELSE "found"
        BY <3>1 DEF TypeOK
      <3>6. ASSUME generations' = before'[r]
            PROVE  SeenSoFar(r)'
        <4>1. SeenSoFar(r) /\ generations = before[r]
          BY <1>1, <3>2, <3>3, <3>6
        <4>2. id \in Opened(read[r], before[r])
          BY <3>3
        <4>3. \/ Opened(read[r], before[r]) = {id}
              \/ Opened(read[r], before[r]) \subseteq before[r]
          <5>1. read[r] \in Reads /\ before[r] \in SUBSET Ids
            BY DEF TypeOK
          <5>2. CASE read[r].op = "load"
            BY <4>2, <5>2 DEF Opened
          <5>3. CASE read[r].op # "load"
            BY <5>1, <5>3, NewestIsNewest DEF Opened
          <5> QED
            BY <5>2, <5>3
        <4> QED
          BY <1>1, <3>2, <3>5, <4>1, <4>2, <4>3 DEF SeenSoFar
      <3> QED
        BY <3>2, <3>3, <3>4, <3>5, <3>6
    <2>3. CASE Recheck(r) \/ GiveUp(r) \/ \E asked \in Reads : Ask(r, asked)
      BY <1>3, <2>3 DEF Recheck, GiveUp, Ask, TypeOK
    <2> QED
      BY <2>1, <2>2, <2>3 DEF ReadStep
  <1> SUFFICES ASSUME NEW other \in Readers, reading'[other] = "opening"
               PROVE  /\ (ListingIsOvertaken(other) \/ ListingOnlyShrank(other))'
                      /\ unopened'[other] \subseteq
                            Opened(read'[other], before'[other])
                      /\ generations' = before'[other] => SeenSoFar(other)'
    BY DEF SecondListingSuffices
  <1>4. CASE other = r
    BY <1>3, <1>4
  <1>5. CASE other # r
    BY <1>1, <1>2, <1>5
       DEF SecondListingSuffices, SeenSoFar, ListingIsOvertaken, ListingOnlyShrank
  <1> QED
    BY <1>4, <1>5

\* Generations and Store read the same meaning into a read.
LEMMA SameReads ==
    /\ Promise!Reads = Reads
    /\ \A asked, present, bad, worse :
          Promise!AnswerOf(asked, present, bad, worse)
             = AnswerOf(asked, present, bad, worse)
  BY DEF Promise!Reads, Reads, Promise!AnswerOf, AnswerOf, Promise!Opened, Opened,
         Promise!Newest, Newest, Promise!NothingToOpen, NothingToOpen,
         Promise!Failure, Failure, Promise!Undecodable, Undecodable

\* An answer the second listing lets through is the one an atomic read gives.
LEMMA RecheckIsAtomic ==
    ASSUME TypeOK, SecondListingSuffices, NEW r \in Readers, Recheck(r)
    PROVE  Promise!Read(r) \/ UNCHANGED Promise!vars
  <1>1. UNCHANGED <<generations, tagged, headless, corrupt>>
    BY DEF Recheck, directory
  <1>2. CASE generations # before[r]
    BY <1>1, <1>2 DEF Recheck, Unmoved, Promise!vars
  <1>3. CASE generations = before[r]
    <2>1. /\ reading[r] = "opening"
          /\ kind[r] = "found" => unopened[r] = {}
          /\ answer' = [answer EXCEPT ![r] =
                 IF kind[r] = "found"
                 THEN [read |-> read[r], kind |-> "found",
                       ids |-> Opened(read[r], before[r])]
                 ELSE Failure(read[r], kind[r])]
      BY <1>3 DEF Recheck, Unmoved
    <2>2. /\ SeenSoFar(r) /\ read[r] \in Reads /\ kind[r] \in Kinds
      BY <1>3, <2>1 DEF SecondListingSuffices, TypeOK
    <2>3. (IF kind[r] = "found"
           THEN [read |-> read[r], kind |-> "found",
                 ids |-> Opened(read[r], before[r])]
           ELSE Failure(read[r], kind[r]))
          = AnswerOf(read[r], generations, headless, corrupt)
      <3> DEFINE opened == Opened(read[r], generations)
                 bad == Undecodable(read[r], headless, corrupt)
      <3>1. NothingToOpen(read[r], generations) <=> kind[r] = "no latest"
        BY <1>3, <2>2 DEF SeenSoFar
      <3>2. kind[r] = "found" => opened \subseteq generations \ bad
        BY <1>3, <2>1, <2>2 DEF SeenSoFar
      <3>3. kind[r] = "missing" => ~ (opened \subseteq generations)
        BY <1>3, <2>2 DEF SeenSoFar
      <3>4. kind[r] = "damaged" => opened \subseteq generations
                                   /\ opened \cap bad # {}
        BY <1>3, <2>2 DEF SeenSoFar
      <3>5. AnswerOf(read[r], generations, headless, corrupt) =
              IF NothingToOpen(read[r], generations)
              THEN Failure(read[r], "no latest")
              ELSE IF ~ (opened \subseteq generations)
              THEN Failure(read[r], "missing")
              ELSE IF opened \cap bad # {} THEN Failure(read[r], "damaged")
              ELSE [read |-> read[r], kind |-> "found", ids |-> opened]
        BY DEF AnswerOf
      <3>6. opened = Opened(read[r], before[r])
        BY <1>3
      <3> HIDE DEF opened, bad
      <3>7. CASE kind[r] = "found"
        BY <3>1, <3>2, <3>5, <3>6, <3>7
      <3>8. CASE kind[r] = "no latest"
        BY <3>1, <3>5, <3>8
      <3>9. CASE kind[r] = "missing"
        BY <3>1, <3>3, <3>5, <3>9
      <3>10. CASE kind[r] = "damaged"
        BY <3>1, <3>4, <3>5, <3>10
      <3> QED
        BY <2>2, <3>7, <3>8, <3>9, <3>10 DEF Kinds
    <2>4. answer' = [answer EXCEPT
                       ![r] = AnswerOf(read[r], generations, headless, corrupt)]
      BY <2>1, <2>3
    <2> QED
      BY <1>1, <2>2, <2>4, SameReads DEF Promise!Read
  <1> QED
    BY <1>2, <1>3

\* What a reader has seen since its first listing is what an atomic read
\* would see, for as long as the directory still matches that listing.
THEOREM ReadsAreConsistent == Spec => []SecondListingSuffices
  <1>1. Init => SecondListingSuffices
    BY DEF Init, SecondListingSuffices
  <1>2. TypeOK /\ SaveInv /\ SecondListingSuffices /\ [Next]_vars
          => SecondListingSuffices'
    <2> SUFFICES ASSUME TypeOK, SaveInv, SecondListingSuffices, [Next]_vars
                 PROVE  SecondListingSuffices'
      OBVIOUS
    <2>1. CASE UNCHANGED vars
      BY <2>1 DEF vars, directory, looking, SecondListingSuffices, SeenSoFar,
                  ListingIsOvertaken, ListingOnlyShrank
    <2>2. CASE Next
      BY <2>2, SaverImplementsPromise, SaverKeepsReads, ReaderKeepsReads DEF Next
    <2> QED
      BY <2>1, <2>2
  <1> QED
    BY <1>1, <1>2, TypeCorrect, SavesAreSafe, PTL DEF Spec

\* The store keeps the promise of Generations: lock-free reads are atomic
\* and saves only add above and remove below.
THEOREM StoreImplementsGenerations == Spec => ReadsAreAtomic
  <1>1. Init => Promise!Init
    BY DEF Init, Promise!Init
  <1>2. TypeOK /\ SaveInv /\ SecondListingSuffices /\ [Next]_vars
          => [Promise!Next]_Promise!vars
    <2> SUFFICES ASSUME TypeOK, SaveInv, SecondListingSuffices, [Next]_vars
                 PROVE  Promise!Next \/ UNCHANGED Promise!vars
      OBVIOUS
    <2>1. CASE UNCHANGED vars
      BY <2>1 DEF vars, directory, looking, Promise!vars
    <2>2. ASSUME NEW r \in Readers, ReadStep(r)
          PROVE  Promise!Read(r) \/ UNCHANGED Promise!vars
      BY <2>2, RecheckIsAtomic DEF ReadStep, List, Open, directory, Promise!vars
    <2>3. ASSUME NEW r \in Readers,
                 GiveUp(r) \/ \E asked \in Reads : Ask(r, asked)
          PROVE  UNCHANGED Promise!vars
      BY <2>3 DEF GiveUp, Ask, directory, Promise!vars
    <2> QED
      BY <2>1, <2>2, <2>3, SaverImplementsPromise DEF Next, Promise!Next
  <1> QED
    BY <1>1, <1>2, TypeCorrect, SavesAreSafe, ReadsAreConsistent, PTL
       DEF Spec, ReadsAreAtomic, Promise!Spec
=============================================================================
