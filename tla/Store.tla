------------------------------- MODULE Store -------------------------------
(***************************************************************************)
(* phoenix-store/src/store.rs: the generation directory shared by every    *)
(* `phoenix` process.  Saves run one at a time under the flock on `.lock`  *)
(* and are interleaved here at each system call other processes can see;   *)
(* reads take no lock and run between any two steps of a save.  A process  *)
(* may die anywhere; the kernel then drops its flock.                      *)
(*                                                                         *)
(* The temp file a save writes before its rename is not a generation file  *)
(* (its name does not parse) and is left out; SaveDurability.tla models it *)
(* together with fsync and the blob files.                                 *)
(***************************************************************************)
EXTENDS GenerationFiles

CONSTANTS
    Savers,         \* processes that may call Store::save
    Readers,        \* processes that may call latest, load or list
    Times,          \* the timestamps captures may carry
    Retentions,     \* the keep_untagged counts callers may pass
    FirstIds,       \* bound: generations an existing store may start with
    Free,           \* the lock when no one holds it
    NoAnswer        \* what a reader holds before its first answer

ASSUME StoreAssumption ==
    /\ Times \subseteq Ids /\ Times # {}
    /\ FirstIds \subseteq Ids
    /\ IsFiniteSet(FirstIds)
    /\ Retentions \subseteq Nat \ {0} /\ Retentions # {}     \* NonZeroUsize
    /\ Free \notin Savers

VARIABLES
    generations, tagged, headless, corrupt,     \* the generation files
    latestPointer,  \* TRUE while the previous format's `latest` link exists
    lock,           \* the saver holding the flock, or Free
    stage,          \* how far each saver's call has come
    request,        \* the snapshot's time, the tag and the retention it passed
    chosen,         \* the id it saves under
    existing,       \* the untagged generations whose header it read
    doomed,         \* the generations it has still to prune
    reading,        \* how far each reader's call has come
    read,           \* what each reader asked for
    before,         \* the listing it works from
    unopened,       \* the files it has still to open
    kind,           \* what its read has come to so far
    answer          \* the last answer it was given

directory == <<generations, tagged, headless, corrupt, latestPointer>>
saving == <<lock, stage, request, chosen, existing, doomed>>
looking == <<reading, read, before, unopened, kind, answer>>
vars == <<directory, saving, looking>>

\* Mutant: `--keep 0` gets through.
RequestsKeepingNone == [captured : Times, tag : BOOLEAN, keep : Retentions \cup {0}]

Requests == [captured : Times, tag : BOOLEAN, keep : Retentions]

\* What a request may carry at all: NonZeroUsize makes keeping none impossible.
RequestType == [captured : Ids, tag : BOOLEAN, keep : Nat \ {0}]

\* The stages of Store::save that run with the lock held.
Exclusive == {"locked", "prepared", "pruning"}

TypeOK ==
    /\ generations \in SUBSET Ids /\ tagged \in SUBSET Ids
    /\ headless \in SUBSET Ids /\ corrupt \in SUBSET Ids
    /\ latestPointer \in BOOLEAN
    /\ lock \in Savers \cup {Free}
    /\ stage \in [Savers -> {"idle", "waiting"} \cup Exclusive]
    /\ request \in [Savers -> RequestType]
    /\ chosen \in [Savers -> Ids]
    /\ existing \in [Savers -> SUBSET Ids]
    /\ doomed \in [Savers -> SUBSET Ids]
    /\ reading \in [Readers -> {"idle", "listing", "opening"}]
    /\ read \in [Readers -> Reads]
    /\ before \in [Readers -> SUBSET Ids]
    /\ unopened \in [Readers -> SUBSET Ids]
    /\ kind \in [Readers -> Kinds]
    /\ answer \in [Readers -> Answers \cup {NoAnswer}]

\* Values the fields of an idle call hold; never read.
AnyRequest == CHOOSE r \in Requests : TRUE
AnyId == CHOOSE id \in Ids : TRUE
AnyRead == [op |-> "latest", id |-> 0]

\* A store may hold generations of earlier runs, some tagged, some torn,
\* foreign or of a newer format, and the previous format's pointer.
Init ==
    /\ generations \in SUBSET FirstIds
    /\ headless \in SUBSET generations
    /\ tagged \in SUBSET (generations \ headless)
    /\ corrupt \in {bad \in SUBSET generations : headless \subseteq bad}
    /\ latestPointer \in BOOLEAN
    /\ lock = Free
    /\ stage = [s \in Savers |-> "idle"]
    /\ request = [s \in Savers |-> AnyRequest]
    /\ chosen = [s \in Savers |-> AnyId]
    /\ existing = [s \in Savers |-> {}]
    /\ doomed = [s \in Savers |-> {}]
    /\ reading = [r \in Readers |-> "idle"]
    /\ read = [r \in Readers |-> AnyRead]
    /\ before = [r \in Readers |-> {}]
    /\ unopened = [r \in Readers |-> {}]
    /\ kind = [r \in Readers |-> "found"]
    /\ answer = [r \in Readers |-> NoAnswer]

-----------------------------------------------------------------------------
(***************************************************************************)
(* Store::save.                                                            *)
(***************************************************************************)
Save(s, asked) ==
    /\ stage[s] = "idle"
    /\ stage' = [stage EXCEPT ![s] = "waiting"]
    /\ request' = [request EXCEPT ![s] = asked]
    /\ UNCHANGED <<directory, lock, chosen, existing, doomed, looking>>

\* `try_lock` succeeds.
TakeLock(s) ==
    /\ stage[s] = "waiting"
    /\ lock = Free
    /\ lock' = s
    /\ stage' = [stage EXCEPT ![s] = "locked"]
    /\ UNCHANGED <<directory, request, chosen, existing, doomed, looking>>

\* Mutant: a call that never held the lock drops it.
ReturnUnlocking(s) ==
    /\ lock' = Free
    /\ stage' = [stage EXCEPT ![s] = "idle"]
    /\ UNCHANGED <<request, chosen, existing, doomed>>

\* The call is over, whatever it came to: its lock file is closed.
Return(s) ==
    /\ lock' = IF lock = s THEN Free ELSE lock
    /\ stage' = [stage EXCEPT ![s] = "idle"]
    /\ request' = [request EXCEPT ![s] = AnyRequest]
    /\ chosen' = [chosen EXCEPT ![s] = AnyId]
    /\ existing' = [existing EXCEPT ![s] = {}]
    /\ doomed' = [doomed EXCEPT ![s] = {}]

\* `try_lock` would block and the deadline has passed; for the daemon, whose
\* wait is zero, that is the first attempt.
Contended(s) ==
    /\ stage[s] = "waiting"
    /\ lock # Free
    /\ Return(s)
    /\ UNCHANGED <<directory, looking>>

\* Mutant: tagged generations are counted and pruned like the others.
UntaggedOrNot(unreadable) == generations \ unreadable

\* The generations whose header was read and carries no tag.
Untagged(unreadable) == generations \ (unreadable \cup tagged)

\* List the ids, choose the next, remove the retired pointer and read every
\* header.  A header that cannot be read, for good or only this once, puts
\* its generation out of the prune's reach.
Prepare(s) ==
    /\ stage[s] = "locked"
    /\ \E id \in Ids, unreadable \in SUBSET generations :
          /\ IsNextId(id, request[s].captured, generations)
          /\ headless \cap generations \subseteq unreadable
          /\ chosen' = [chosen EXCEPT ![s] = id]
          /\ existing' = [existing EXCEPT ![s] = Untagged(unreadable)]
    /\ latestPointer' = FALSE
    /\ stage' = [stage EXCEPT ![s] = "prepared"]
    /\ UNCHANGED <<generations, tagged, headless, corrupt, lock, request,
                   doomed, looking>>

\* `checked_add` overflows: the newest id leaves none above it.
NoIdLeft(s) ==
    /\ stage[s] = "locked"
    /\ ~ \E id \in Ids : IsNextId(id, request[s].captured, generations)
    /\ Return(s)
    /\ UNCHANGED <<directory, looking>>

\* The rename publishes the file; what it prunes is settled with it.
Publish(s) ==
    /\ stage[s] = "prepared"
    /\ LET id == chosen[s]
           untagged == existing[s] \cup (IF request[s].tag THEN {} ELSE {id})
       IN  /\ generations' = generations \cup {id}
           /\ tagged' = IF request[s].tag THEN tagged \cup {id}
                                          ELSE tagged \ {id}
           /\ headless' = headless \ {id}
           /\ corrupt' = corrupt \ {id}
           /\ doomed' = [doomed EXCEPT
                           ![s] = BeyondRetention(untagged, request[s].keep)]
    /\ existing' = [existing EXCEPT ![s] = {}]
    /\ stage' = [stage EXCEPT ![s] = "pruning"]
    /\ UNCHANGED <<latestPointer, lock, request, chosen, looking>>

\* Newest first; a file that cannot be deleted is reported and passed over.
PruneOne(s) ==
    /\ stage[s] = "pruning"
    /\ \E id \in doomed[s] :
          /\ \A other \in doomed[s] : other <= id
          /\ generations' \in {generations \ {id}, generations}
          /\ doomed' = [doomed EXCEPT ![s] = @ \ {id}]
    /\ UNCHANGED <<tagged, headless, corrupt, latestPointer, lock, stage,
                   request, chosen, existing, looking>>

Saved(s) ==
    /\ stage[s] = "pruning"
    /\ doomed[s] = {}
    /\ Return(s)
    /\ UNCHANGED <<directory, looking>>

\* An I/O error before the rename, or the process dying at any point.
Abandon(s) ==
    /\ stage[s] # "idle"
    /\ Return(s)
    /\ UNCHANGED <<directory, looking>>

-----------------------------------------------------------------------------
(***************************************************************************)
(* Store::read_consistent with latest, load and list.                      *)
(***************************************************************************)
Ask(r, asked) ==
    /\ reading[r] = "idle"
    /\ reading' = [reading EXCEPT ![r] = "listing"]
    /\ read' = [read EXCEPT ![r] = asked]
    /\ UNCHANGED <<directory, saving, before, unopened, kind, answer>>

\* The first listing, and what the read will open from it.
List(r) ==
    /\ reading[r] = "listing"
    /\ reading' = [reading EXCEPT ![r] = "opening"]
    /\ before' = [before EXCEPT ![r] = generations]
    /\ unopened' = [unopened EXCEPT ![r] = Opened(read[r], generations)]
    /\ kind' = [kind EXCEPT ![r] =
                  IF NothingToOpen(read[r], generations) THEN "no latest"
                                                         ELSE "found"]
    /\ UNCHANGED <<directory, saving, read, answer>>

\* Open the next file, newest first; the first failure is the outcome.
Open(r) ==
    /\ reading[r] = "opening"
    /\ kind[r] = "found"
    /\ \E id \in unopened[r] :
          /\ \A other \in unopened[r] : other <= id
          /\ unopened' = [unopened EXCEPT ![r] = @ \ {id}]
          /\ kind' = [kind EXCEPT ![r] =
               IF id \notin generations THEN "missing"
               ELSE IF id \in Undecodable(read[r], headless, corrupt)
                    THEN "damaged"
               ELSE "found"]
    /\ UNCHANGED <<directory, saving, reading, read, before, answer>>

\* Mutants: only the newest id is compared; a failed read is always repeated.
SameNewest(r) ==
    /\ (generations = {}) = (before[r] = {})
    /\ generations # {} => Newest(generations) = Newest(before[r])

UnmovedAndFound(r) == generations = before[r] /\ kind[r] = "found"

Unmoved(r) == generations = before[r]

\* The second listing: the outcome stands only if no id came or went.
Recheck(r) ==
    /\ reading[r] = "opening"
    /\ kind[r] = "found" => unopened[r] = {}
    /\ IF Unmoved(r)
       THEN /\ reading' = [reading EXCEPT ![r] = "idle"]
            /\ answer' = [answer EXCEPT ![r] =
                 IF kind[r] = "found"
                 THEN [read |-> read[r], kind |-> "found",
                       ids |-> Opened(read[r], before[r])]
                 ELSE Failure(read[r], kind[r])]
       ELSE /\ reading' = [reading EXCEPT ![r] = "listing"]
            /\ UNCHANGED answer
    /\ read' = [read EXCEPT ![r] = IF Unmoved(r) THEN AnyRead ELSE @]
    /\ before' = [before EXCEPT ![r] = {}]
    /\ unopened' = [unopened EXCEPT ![r] = {}]
    /\ kind' = [kind EXCEPT ![r] = "found"]
    /\ UNCHANGED <<directory, saving>>

\* A listing fails, or the reader dies.
GiveUp(r) ==
    /\ reading[r] # "idle"
    /\ reading' = [reading EXCEPT ![r] = "idle"]
    /\ read' = [read EXCEPT ![r] = AnyRead]
    /\ before' = [before EXCEPT ![r] = {}]
    /\ unopened' = [unopened EXCEPT ![r] = {}]
    /\ kind' = [kind EXCEPT ![r] = "found"]
    /\ UNCHANGED <<directory, saving, answer>>

-----------------------------------------------------------------------------
SaveStep(s) ==
    \/ TakeLock(s) \/ Contended(s) \/ Prepare(s) \/ NoIdLeft(s)
    \/ Publish(s) \/ PruneOne(s) \/ Saved(s)

ReadStep(r) == List(r) \/ Open(r) \/ Recheck(r)

Next ==
    \/ \E s \in Savers : SaveStep(s) \/ Abandon(s)
                         \/ \E asked \in Requests : Save(s, asked)
    \/ \E r \in Readers : ReadStep(r) \/ GiveUp(r)
                          \/ \E asked \in Reads : Ask(r, asked)

Spec == Init /\ [][Next]_vars

\* A call once begun runs on; nobody is obliged to begin one.
FairSpec ==
    /\ Spec
    /\ \A s \in Savers : WF_vars(SaveStep(s))
    /\ \A r \in Readers : WF_vars(ReadStep(r))

-----------------------------------------------------------------------------
(***************************************************************************)
(* Properties.                                                             *)
(***************************************************************************)
Promise ==
    INSTANCE Generations WITH
        Ids <- Ids, Readers <- Readers, FirstIds <- FirstIds,
        NoAnswer <- NoAnswer, generations <- generations, tagged <- tagged,
        headless <- headless, corrupt <- corrupt, answer <- answer

\* Reads and saves together behave as if every read were one atomic look at
\* the directory at the moment it returns, and the directory only ever
\* gained ids above all others and lost unprotected ones below the newest.
\* This is what the comment on `read_consistent` argues: equal listings on
\* both sides of a lock-free read mean nothing happened in between.
ReadsAreAtomic == Promise!Spec

\* At most one call is between taking the flock and returning, and it is
\* the holder: a save that gives up or dies never releases another's lock.
LockExcludes ==
    \A s \in Savers : stage[s] \in Exclusive <=> lock = s

\* The id a save chose while others waited is still above every generation
\* when its rename happens, so it overwrites nothing and becomes latest.
ChosenStaysAbove ==
    \A s \in Savers : stage[s] = "prepared" =>
        \A id \in generations : id < chosen[s]

\* A save never deletes the generation it just published, and what it still
\* means to delete is neither tagged nor of unknown tag.
DoomedIsExpendable ==
    \A s \in Savers : stage[s] = "pruning" =>
        /\ chosen[s] \in generations
        /\ \A id \in doomed[s] :
              /\ id < chosen[s]
              /\ id \notin tagged \cup headless

\* What a save read before publishing is still true when it publishes:
\* everything it may prune is there, untagged and of known tag.
ExistingIsPrunable ==
    \A s \in Savers : stage[s] = "prepared" =>
        existing[s] \subseteq generations \ (tagged \cup headless)

\* The flock makes the choice of an id, the rename and the prune one unit,
\* though each is several steps and a saver may die between any two: what a
\* save read stays true of the directory until it has used it.
SaveInv ==
    LockExcludes /\ ChosenStaysAbove /\ ExistingIsPrunable /\ DoomedIsExpendable

\* Why the second listing suffices.  Once the directory has moved away from a
\* reader's first listing it never looks like it again, and while it has not,
\* what the reader has seen so far is what an atomic read would see.
ListingIsOvertaken(r) ==
    \E id \in generations : \A listed \in before[r] : listed < id

ListingOnlyShrank(r) ==
    /\ generations \subseteq before[r]
    /\ before[r] = {} \/ \E id \in generations :
                              \A listed \in before[r] : listed <= id

SeenSoFar(r) ==
    LET opened == Opened(read[r], before[r])
        bad == Undecodable(read[r], headless, corrupt)
    IN  /\ NothingToOpen(read[r], before[r]) <=> kind[r] = "no latest"
        /\ kind[r] = "found" =>
              opened \ unopened[r] \subseteq generations \ bad
        /\ kind[r] = "missing" => ~ (opened \subseteq generations)
        /\ kind[r] = "damaged" => /\ opened \subseteq generations
                                  /\ opened \cap bad # {}

SecondListingSuffices ==
    \A r \in Readers : reading[r] = "opening" =>
        /\ ListingIsOvertaken(r) \/ ListingOnlyShrank(r)
        /\ unopened[r] \subseteq Opened(read[r], before[r])
        /\ generations = before[r] => SeenSoFar(r)

\* Whenever a generation disappears, as many newer untagged generations as
\* its saver was asked to keep are on disk, even if earlier saves died
\* halfway through their own prune.
PruneLeavesEnough ==
    [][\A id \in generations \ generations' :
          /\ lock # Free
          /\ Cardinality({newer \in generations' \ tagged : id < newer})
                >= request[lock].keep]_vars

\* A read repeats only while saves keep landing in its middle: since ids
\* run out, saves end, and every read is answered.
ReadsReturn ==
    \A r \in Readers : (reading[r] # "idle") ~> (reading[r] = "idle")
=============================================================================
