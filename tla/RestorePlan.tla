----------------------------- MODULE RestorePlan -----------------------------
(***************************************************************************)
(* `plan` of phoenix-restore/src/plan.rs: the difference between a saved   *)
(* snapshot and a captured server, as a sequence of steps.                 *)
(*                                                                         *)
(* A snapshot holds the names of its sessions in saved order (those tmux   *)
(* can be told as a target), what window each links at which index, the    *)
(* index each shows, and how many panes each window has.  A capture holds  *)
(* the windows each live session links, what restore of this generation    *)
(* each live window is stamped by, whether the server carries this         *)
(* generation's mark, and whether it is the server the snapshot was saved  *)
(* from.  Window ids are positive; an unstamped window is stamped 0.       *)
(***************************************************************************)
EXTENDS Integers, SequencesExt

CONSTANT Scratch        \* scratch_name: no session of the snapshot has it

\* Snapshot::new and Session::new: a session links a window and shows one it
\* links, a link names a window held here, and a window has a pane.
IsSnapshot(snapshot) ==
    /\ snapshot.order \in Seq(DOMAIN snapshot.links)
    /\ \A name \in DOMAIN snapshot.links :
          /\ DOMAIN snapshot.links[name] \in (SUBSET Nat) \ {{}}
          /\ IsFiniteSet(DOMAIN snapshot.links[name])
          /\ Range(snapshot.links[name]) \subseteq DOMAIN snapshot.panes
          /\ snapshot.active[name] \in DOMAIN snapshot.links[name]
    /\ DOMAIN snapshot.panes \subseteq Nat \ {0} /\ IsFiniteSet(DOMAIN snapshot.panes)
    /\ \A w \in DOMAIN snapshot.panes : snapshot.panes[w] \in Nat \ {0}

\* f with x mapped to v.
Put(f, x, v) == [y \in DOMAIN f \cup {x} |-> IF y = x THEN v ELSE f[y]]

\* The k-th index is the one that k - 1 are below.
Sorted(indices) ==
    [k \in 1 .. Cardinality(indices) |->
        CHOOSE i \in indices : Cardinality({j \in indices : j < i}) = k - 1]

\* The live window that is saved window w, 0 if none; the first, if several.
Present(live, w) ==
    LET them == {x \in DOMAIN live.made :
                    live.made[x] = w \/ (live.sameServer /\ x = w)}
    IN  IF them = {} THEN 0 ELSE Min(them)

\* Mutant: whatever sits at the saved index is taken for the saved window.
LackingByIndex(snapshot, live, name) ==
    DOMAIN snapshot.links[name] \ DOMAIN live.links[name]

\* Mutant: a window that had to be placed elsewhere is lacking again.
LackingExactly(snapshot, live, name) ==
    {i \in DOMAIN snapshot.links[name] :
        ~ (/\ i \in DOMAIN live.links[name]
           /\ live.links[name][i] = Present(live, snapshot.links[name][i]))}

\* The saved indices no live link answers: each saved link is paired with a
\* live link to its window, at its own index first, then at any.
Lacking(snapshot, live, name) ==
    LET wanted == snapshot.links[name]
        held == live.links[name]
        Exact(i) == i \in DOMAIN held /\ held[i] = Present(live, wanted[i])
        Earlier(i) == {j \in DOMAIN wanted :
                          j < i /\ wanted[j] = wanted[i] /\ ~ Exact(j)}
        Spare(i) == {j \in DOMAIN held :
                        /\ held[j] = Present(live, wanted[i])
                        /\ ~ (j \in DOMAIN wanted /\ Exact(j))}
    IN  {i \in DOMAIN wanted :
            ~ Exact(i) /\ Cardinality(Earlier(i)) >= Cardinality(Spare(i))}

\* Mutant: indices that later saved links want are free to land at.
TakenLive(snapshot, live, name) == DOMAIN live.links[name]

Taken(snapshot, live, name) ==
    DOMAIN live.links[name] \cup DOMAIN snapshot.links[name]

\* The lowest index at or above `from` that is not taken.
FreeFrom(from, taken) == Min((from .. from + Cardinality(taken)) \ taken)

\* What is lacking, in saved order, with the index it lands at: its own, or
\* the next free one when a live window holds that.
Placed(snapshot, live, name) ==
    LET lacking == Sorted(Lacking(snapshot, live, name))
        Place(done, i) ==
            LET at == IF i \in DOMAIN live.links[name]
                      THEN FreeFrom(i, done.taken) ELSE i
            IN  [links |-> Append(done.links,
                                  [at |-> at, window |-> snapshot.links[name][i]]),
                 taken |-> done.taken \cup {at}]
        placing[k \in 0 .. Len(lacking)] ==
            IF k = 0 THEN [links |-> <<>>, taken |-> Taken(snapshot, live, name)]
            ELSE Place(placing[k - 1], lacking[k])
    IN  placing[Len(lacking)].links

-----------------------------------------------------------------------------
\* A draft: the steps so far, the reference of each window built so far,
\* whether the scratch session still stands, and the reference of a window
\* made only so the session can exist, 0 once a link is to take its place.

With(draft, new) == [draft EXCEPT !.steps = @ \o new]

\* Mutant: built windows are forgotten.
PresentOnly(draft, live, w) ==
    IF Present(live, w) # 0 THEN [live |-> Present(live, w)] ELSE [none |-> 0]

\* Where saved window w can be linked from, if it exists yet.
Existing(draft, live, w) ==
    CASE w \in DOMAIN draft.built -> [built |-> draft.built[w]]
      [] w \notin DOMAIN draft.built /\ Present(live, w) # 0 ->
            [live |-> Present(live, w)]
      [] OTHER -> [none |-> 0]

Exists(draft, live, w) == "none" \notin DOMAIN Existing(draft, live, w)

\* Mutant: the stamp goes on before what it vouches for.
StampFirst(panes, ref, w) ==
    <<[op |-> "stamp", window |-> ref, saved |-> w]>>
    \o [p \in 1 .. panes - 1 |-> [op |-> "split", window |-> ref]]
    \o <<[op |-> "layout", window |-> ref], [op |-> "fill", window |-> ref]>>

\* Panes are split (and spread), laid out, given their content and programs;
\* the stamp comes last.
Filling(panes, ref, w) ==
    [p \in 1 .. panes - 1 |-> [op |-> "split", window |-> ref]]
    \o <<[op |-> "layout", window |-> ref], [op |-> "fill", window |-> ref],
         [op |-> "stamp", window |-> ref, saved |-> w]>>

Furnish(draft, snapshot, w, ref) ==
    [With(draft, Filling(snapshot.panes[w], ref, w)) EXCEPT
        !.built = Put(@, w, ref)]

ScratchSteps(name) ==
    <<[op |-> "switch", session |-> name], [op |-> "kill"]>>

\* The scratch goes with the first session there is to take its clients.
CloseScratch(draft, name) ==
    IF draft.scratch
    THEN [With(draft, ScratchSteps(name)) EXCEPT !.scratch = FALSE]
    ELSE draft

\* One lacking link: of a window that exists, or of one to build. The first
\* link takes the placeholder's place.
PlaceWindow(draft, snapshot, live, name, link) ==
    IF Exists(draft, live, link.window)
    THEN [With(draft, <<[op |-> "link", session |-> name, at |-> link.at,
                         source |-> Existing(draft, live, link.window),
                         replacing |-> draft.placeholder]>>)
             EXCEPT !.placeholder = 0]
    ELSE Furnish([With(draft, <<[op |-> "new", session |-> name, at |-> link.at,
                                 window |-> draft.refs]>>) EXCEPT !.refs = @ + 1],
                 snapshot, link.window, draft.refs)

\* A session the server lacks is made around the first of its windows that
\* has to be built, else around a placeholder where the first link goes.
MakeSession(draft, snapshot, live, name, missing) ==
    LET toBuild == {k \in DOMAIN missing : ~ Exists(draft, live, missing[k].window)}
        seed == IF toBuild = {} THEN 1 ELSE Min(toBuild)
        made == CloseScratch(
                    [With(draft, <<[op |-> "create", session |-> name, window |-> draft.refs],
                                   [op |-> "move", session |-> name, at |-> missing[seed].at,
                                    window |-> draft.refs]>>) EXCEPT !.refs = @ + 1],
                    name)
    IN  IF toBuild = {}
        THEN [draft |-> [made EXCEPT !.placeholder = draft.refs], rest |-> missing]
        ELSE [draft |-> Furnish(made, snapshot, missing[seed].window, draft.refs),
              rest |-> RemoveAt(missing, seed)]

\* Every step for one saved session.
Session(draft, snapshot, live, name) ==
    LET lives == live.links[name] # << >>
        missing == Placed(snapshot, live, name)
        begun == IF lives THEN [draft |-> CloseScratch(draft, name), rest |-> missing]
                          ELSE MakeSession(draft, snapshot, live, name, missing)
        placing[k \in 0 .. Len(begun.rest)] ==
            IF k = 0 THEN begun.draft
            ELSE PlaceWindow(placing[k - 1], snapshot, live, name, begun.rest[k])
        placed == placing[Len(begun.rest)]
        shown == IF lives THEN <<>>
                 ELSE <<[op |-> "select", session |-> name, at |-> snapshot.active[name]]>>
        marked == IF draft.unfinished \/ Len(placed.steps \o shown) > Len(draft.steps)
                  THEN <<[op |-> "mark", session |-> name]>> ELSE <<>>
    IN  [With(placed, shown \o marked) EXCEPT !.placeholder = 0]

\* The mark on the server is the last step of a restore.
Plan(snapshot, live, scratch) ==
    LET blank == [steps |-> <<>>, built |-> <<>>, refs |-> 1, scratch |-> scratch,
                  placeholder |-> 0, unfinished |-> ~ live.touched]
        drafting[k \in 0 .. Len(snapshot.order)] ==
            IF k = 0 THEN blank
            ELSE Session(drafting[k - 1], snapshot, live, snapshot.order[k])
        drafted == drafting[Len(snapshot.order)]
    IN  drafted.steps
        \o (IF drafted.unfinished THEN <<[op |-> "touch"]>> ELSE <<>>)
=============================================================================
