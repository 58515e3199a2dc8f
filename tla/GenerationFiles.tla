-------------------------- MODULE GenerationFiles --------------------------
(***************************************************************************)
(* What a store directory's generation files mean, as operators without    *)
(* state: how ids are ordered and chosen, and what a read asks for and     *)
(* answers (phoenix-store/src/store.rs).  A generation is named by its id, *)
(* the only part of its file name that varies; a file is published once    *)
(* and never rewritten, so its id stands for its content.                  *)
(***************************************************************************)
EXTENDS Integers, FiniteSets

CONSTANT Ids            \* the values GenerationId(i64) takes

(***************************************************************************)
(* Ids are integers with a greatest one (i64::MAX), so every set of ids    *)
(* has a newest member.                                                    *)
(***************************************************************************)
ASSUME IdsAssumption ==
    /\ Ids \subseteq Int
    /\ \A S \in SUBSET Ids :
          S # {} => \E newest \in S : \A id \in S : id <= newest

\* `generation_ids_desc` sorts descending: the first id is the newest.
Newest(S) == CHOOSE newest \in S : \A id \in S : id <= newest

\* Mutant: the timestamp is used as it is.
IsNextIdNotRaised(id, captured, existing) == id = captured

(***************************************************************************)
(* `next_generation_id`: the capture's timestamp, raised above the newest  *)
(* existing id when it is not above it already.  No id satisfies this when *)
(* the newest one is the last of all.                                      *)
(***************************************************************************)
IsNextId(id, captured, existing) ==
    /\ \A other \in existing : other < id
    /\ captured <= id
    /\ id = captured \/ (id - 1) \in existing

\* Mutants: one generation too few survives; at least one always does.
BeyondOneFewer(untagged, keep) ==
    {g \in untagged : Cardinality({h \in untagged : g < h}) >= keep - 1}

BeyondOneFewerButOne(untagged, keep) ==
    {g \in untagged : LET newer == Cardinality({h \in untagged : g < h})
                      IN  newer >= 1 /\ newer >= keep - 1}

(***************************************************************************)
(* `prune`: of the untagged generations, all but the newest `keep`.        *)
(***************************************************************************)
BeyondRetention(untagged, keep) ==
    {g \in untagged : Cardinality({h \in untagged : g < h}) >= keep}

(***************************************************************************)
(* Reads: `latest` and `load` decode one whole file, `list` every header.  *)
(***************************************************************************)
Reads == [op : {"latest", "list"}, id : {0}] \cup [op : {"load"}, id : Ids]

\* The files a read opens when the directory listing showed `listing`.
Opened(read, listing) ==
    IF read.op = "load" THEN {read.id}
    ELSE IF read.op = "list" \/ listing = {} THEN listing
    ELSE {Newest(listing)}

Kinds == {"found", "no latest", "missing", "damaged"}

\* An answer and the read it answers; only "found" carries generations.
Answers == [read : Reads, kind : Kinds, ids : SUBSET Ids]

Failure(read, kind) == [read |-> read, kind |-> kind, ids |-> {}]

\* `latest` of an empty listing fails before it opens a file.
NothingToOpen(read, listing) == read.op = "latest" /\ listing = {}

(***************************************************************************)
(* What a read answers when the directory holds exactly `present`, of      *)
(* which `headless` have headers this build cannot read and `corrupt` a    *)
(* header or body it cannot decode.                                        *)
(***************************************************************************)
Undecodable(read, headless, corrupt) ==
    IF read.op = "list" THEN headless ELSE corrupt

AnswerOf(read, present, headless, corrupt) ==
    LET opened == Opened(read, present)
    IN  IF NothingToOpen(read, present) THEN Failure(read, "no latest")
        ELSE IF ~ (opened \subseteq present) THEN Failure(read, "missing")
        ELSE IF opened \cap Undecodable(read, headless, corrupt) # {}
             THEN Failure(read, "damaged")
        ELSE [read |-> read, kind |-> "found", ids |-> opened]
=============================================================================
