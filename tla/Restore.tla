------------------------------- MODULE Restore -------------------------------
(***************************************************************************)
(* Restores of one generation onto a tmux server: each opens a connection  *)
(* (making a scratch session where the server has none), captures, plans   *)
(* (RestorePlan.tla) and applies its steps one tmux command at a time,     *)
(* while the server's user opens and closes sessions and windows and other *)
(* restores run.  A restore may be cut anywhere and begun again.           *)
(*                                                                         *)
(* Which window a session shows, pane contents and layouts are kept only   *)
(* as far as a window has been furnished.  The server does not exit:       *)
(* Daemon.tla has what happens across its incarnations.                    *)
(***************************************************************************)
EXTENDS RestorePlan

CONSTANTS
    Restorers,          \* those who restore: the daemon at boot, `phoenix restore`
    SessionNames,       \* names users and snapshots give sessions
    Snapshots,          \* the snapshots to restore
    BaseIndex,          \* the server's base-index
    MaxIndex,           \* bound: the user opens windows at indices up to this
    MaxMoves,           \* bound: what the user does
    MaxCuts,            \* bound: restores cut short for no reason of the server's
    MaxRuns             \* bound: restores begun

ASSUME RestoreAssumption ==
    /\ Scratch \notin SessionNames
    /\ \A snap \in Snapshots :
          IsSnapshot(snap) /\ DOMAIN snap.links \subseteq SessionNames
    /\ BaseIndex \in Nat /\ MaxIndex \in Nat
    /\ MaxMoves \in Nat /\ MaxCuts \in Nat /\ MaxRuns \in Nat

VARIABLES
    snapshot,   \* what is restored
    server,     \* the windows each session links, the stamps, the server's mark
    filled,     \* how far each window is furnished
    marked,     \* the sessions that carry @phoenix-restored
    nextId,     \* tmux hands window ids out in order and never again
    restore,    \* each restorer's connection, steps left to apply, ids bound
    around,     \* what others did since each restorer began
    budget      \* what may still happen

vars == <<snapshot, server, filled, marked, nextId, restore, around, budget>>

AllSessions == SessionNames \cup {Scratch}

Alive(s) == server.links[s] # << >>

Idle == [stage |-> "idle", client |-> Scratch, scratch |-> FALSE,
         steps |-> <<>>, bound |-> << >>]

Bare == [panes |-> 1, laidOut |-> FALSE, content |-> FALSE]

Whole(w) == [panes |-> snapshot.panes[w], laidOut |-> TRUE, content |-> TRUE]

TypeOK ==
    /\ snapshot \in Snapshots
    /\ DOMAIN server.links = AllSessions
    /\ \A s \in AllSessions : \A i \in DOMAIN server.links[s] :
          i \in Nat /\ server.links[s][i] \in DOMAIN server.made
    /\ DOMAIN filled = DOMAIN server.made
    /\ DOMAIN server.made \subseteq 1 .. nextId - 1
    /\ marked \subseteq {s \in SessionNames : Alive(s)}
    /\ \A r \in Restorers :
          /\ restore[r].stage \in {"idle", "creating", "opened", "applying"}
          /\ restore[r].client \in AllSessions
          /\ around[r] \subseteq {"opened", "closed", "restored"}

SavedWindows(snap) == DOMAIN snap.panes

\* What a session of another server links.
Fresh == [i \in {BaseIndex} |-> 1]

\* The saved server after some of its sessions and windows were closed, or
\* another server with no session or one of the user's.
Init ==
    /\ snapshot \in Snapshots
    /\ \E sameServer \in BOOLEAN,
          links \in [AllSessions -> {<< >>, Fresh}
                        \cup {snapshot.links[s] : s \in DOMAIN snapshot.links}] :
          /\ links[Scratch] = << >>
          /\ sameServer => \A s \in SessionNames : links[s] # << >> =>
                               s \in DOMAIN snapshot.links /\ links[s] = snapshot.links[s]
          /\ ~ sameServer => /\ Cardinality({s \in SessionNames : links[s] # << >>}) <= 1
                             /\ \A s \in SessionNames : links[s] \in {<< >>, Fresh}
          /\ LET held == UNION {Range(links[s]) : s \in SessionNames}
             IN  /\ server = [links |-> links, made |-> [w \in held |-> 0],
                              touched |-> FALSE, sameServer |-> sameServer]
                 /\ filled = [w \in held |-> IF sameServer THEN Whole(w) ELSE Bare]
    /\ marked = {}
    /\ nextId = Max({1} \cup SavedWindows(snapshot)) + 1
    /\ restore = [r \in Restorers |-> Idle]
    /\ around = [r \in Restorers |-> {}]
    /\ budget = [moves |-> MaxMoves, cuts |-> MaxCuts, runs |-> MaxRuns]

-----------------------------------------------------------------------------
\* The tmux server.

\* What is left of the windows when sessions come to link `links`: one that
\* no session links is gone, and so is the option on a session that is gone.
Relink(links, made, fill) ==
    LET held == UNION {Range(links[s]) : s \in AllSessions}
    IN  /\ server' = [server EXCEPT !.links = links, !.made = Restrict(made, held)]
        /\ filled' = Restrict(fill, held)
        /\ marked' = {s \in marked : links[s] # << >>}

\* A new window at index i of session s.
NewWindowAt(s, i) ==
    /\ Relink([server.links EXCEPT ![s] = Put(@, i, nextId)],
              Put(server.made, nextId, 0), Put(filled, nextId, Bare))
    /\ nextId' = nextId + 1

\* What r gets to know of what another did; one that is idle is not asked.
Told(r, what) == IF restore[r].stage = "idle" THEN {} ELSE around[r] \cup {what}

Witness(what) == [r \in Restorers |-> Told(r, what)]

MayMove ==
    /\ budget.moves > 0
    /\ budget' = [budget EXCEPT !.moves = @ - 1]
    /\ UNCHANGED <<snapshot, restore>>

UserOpens(s, i) ==
    /\ MayMove
    /\ i \notin DOMAIN server.links[s]
    /\ ~ Alive(s) => s # Scratch /\ i = BaseIndex
    /\ NewWindowAt(s, i)
    /\ around' = Witness("opened")

\* With renumber-windows on, the session's indices close up behind it.
UserCloses(s, i, renumber) ==
    /\ MayMove
    /\ i \in DOMAIN server.links[s]
    /\ \E t \in AllSessions : Alive(t) /\ (t = s => Cardinality(DOMAIN server.links[s]) > 1)
    /\ LET left == Restrict(server.links[s], DOMAIN server.links[s] \ {i})
           order == Sorted(DOMAIN left)
           closedUp == [k \in BaseIndex .. BaseIndex + Len(order) - 1 |->
                           left[order[k - BaseIndex + 1]]]
       IN  Relink([server.links EXCEPT ![s] = IF renumber THEN closedUp ELSE left],
                  server.made, filled)
    /\ around' = Witness("closed")
    /\ UNCHANGED nextId

-----------------------------------------------------------------------------
\* A restore.

Others(r) == [q \in Restorers |->
                 IF q = r THEN around[q] ELSE Told(q, "restored")]

\* Connection::open: attach to a session there is, else go on to make one.
Open(r) ==
    /\ restore[r].stage = "idle" /\ budget.runs > 0
    /\ budget' = [budget EXCEPT !.runs = @ - 1]
    /\ \/ \E s \in AllSessions :
             /\ Alive(s)
             /\ restore' = [restore EXCEPT ![r] =
                               [Idle EXCEPT !.stage = "opened", !.client = s]]
       \/ /\ \A s \in AllSessions : ~ Alive(s)
          /\ restore' = [restore EXCEPT ![r].stage = "creating"]
    /\ UNCHANGED <<snapshot, server, filled, marked, nextId, around>>

\* `new-session -s <scratch>`, by when there may be sessions after all.
OpenCreates(r) ==
    /\ restore[r].stage = "creating" /\ ~ Alive(Scratch)
    /\ NewWindowAt(Scratch, BaseIndex)
    /\ restore' = [restore EXCEPT ![r] =
                      [Idle EXCEPT !.stage = "opened", !.scratch = TRUE]]
    /\ around' = Others(r)
    /\ UNCHANGED <<snapshot, budget>>

\* Capture and plan.
Prepare(r) ==
    /\ restore[r].stage = "opened" /\ Alive(restore[r].client)
    /\ restore' = [restore EXCEPT ![r] =
            [restore[r] EXCEPT !.stage = "applying",
                               !.steps = Plan(snapshot, server, restore[r].scratch)]]
    /\ UNCHANGED <<snapshot, server, filled, marked, nextId, around, budget>>

\* The next step of r is `op`, and its connection is up.
Doing(r, op) ==
    /\ restore[r].stage = "applying" /\ restore[r].steps # <<>>
    /\ Alive(restore[r].client)
    /\ Head(restore[r].steps).op = op

Step(r) == Head(restore[r].steps)

Bound(r) == restore[r].bound[Step(r).window]

StepDone(r) ==
    /\ restore' = [restore EXCEPT ![r].steps = Tail(@)]
    /\ around' = Others(r)
    /\ UNCHANGED <<snapshot, budget>>

\* The window made is bound to the step's reference.
StepMakes(r) ==
    /\ restore' = [restore EXCEPT ![r] =
            [restore[r] EXCEPT !.steps = Tail(@),
                               !.bound = Put(@, Step(r).window, nextId)]]
    /\ around' = Others(r)
    /\ UNCHANGED <<snapshot, budget>>

Free(s, i) == Alive(s) /\ i \notin DOMAIN server.links[s]

Lives(w) == w \in DOMAIN server.made

CreateSession(r) ==
    /\ Doing(r, "create") /\ ~ Alive(Step(r).session)
    /\ NewWindowAt(Step(r).session, BaseIndex)
    /\ StepMakes(r)

\* tmux's "same index" refusal says the window is there already.
LandsOn(s, i, w) ==
    Free(s, i) \/ (i \in DOMAIN server.links[s] /\ server.links[s][i] = w)

MoveWindow(r) ==
    /\ Doing(r, "move") /\ Lives(Bound(r))
    /\ LandsOn(Step(r).session, Step(r).at, Bound(r))
    /\ LET s == Step(r).session
           from == CHOOSE i \in DOMAIN server.links[s] : server.links[s][i] = Bound(r)
           kept == Restrict(server.links[s], DOMAIN server.links[s] \ {from})
       IN  Relink([server.links EXCEPT ![s] = Put(kept, Step(r).at, Bound(r))],
                  server.made, filled)
    /\ StepDone(r)
    /\ UNCHANGED nextId

NewWindow(r) ==
    /\ Doing(r, "new") /\ Free(Step(r).session, Step(r).at)
    /\ NewWindowAt(Step(r).session, Step(r).at)
    /\ StepMakes(r)

SourceOf(r) ==
    LET source == Step(r).source
    IN  IF "built" \in DOMAIN source THEN restore[r].bound[source.built] ELSE source.live

\* Mutant: every link is made with -k.
AlwaysReplaces(step) == TRUE

Replaces(step) == step.replacing # 0

LinkWindow(r) ==
    /\ Doing(r, "link") /\ Lives(SourceOf(r)) /\ Alive(Step(r).session)
    /\ Replaces(Step(r)) \/ Free(Step(r).session, Step(r).at)
    /\ Relink([server.links EXCEPT ![Step(r).session] = Put(@, Step(r).at, SourceOf(r))],
              server.made, filled)
    /\ StepDone(r)
    /\ UNCHANGED nextId

\* What a step makes of the window it is for.
Furnishes(r, fill) ==
    /\ Lives(Bound(r))
    /\ filled' = [filled EXCEPT ![Bound(r)] = fill]
    /\ StepDone(r)
    /\ UNCHANGED <<server, marked, nextId>>

SplitPane(r) ==
    Doing(r, "split") /\ Furnishes(r, [filled[Bound(r)] EXCEPT !.panes = @ + 1])

SelectLayout(r) ==
    Doing(r, "layout") /\ Furnishes(r, [filled[Bound(r)] EXCEPT !.laidOut = TRUE])

\* The content of every pane, then its program.
Fill(r) ==
    Doing(r, "fill") /\ Furnishes(r, [filled[Bound(r)] EXCEPT !.content = TRUE])

Stamp(r) ==
    /\ Doing(r, "stamp") /\ Lives(Bound(r))
    /\ server' = [server EXCEPT !.made[Bound(r)] = Step(r).saved]
    /\ StepDone(r)
    /\ UNCHANGED <<filled, marked, nextId>>

\* Every client of the scratch is moved.
SwitchClients(r) ==
    /\ Doing(r, "switch") /\ Alive(Scratch) /\ Alive(Step(r).session)
    /\ restore' = [q \in Restorers |->
            LET to == IF restore[q].client = Scratch THEN Step(r).session
                                                     ELSE restore[q].client
            IN  [restore[q] EXCEPT !.client = to,
                                   !.steps = IF q = r THEN Tail(@) ELSE @]]
    /\ around' = Others(r)
    /\ UNCHANGED <<snapshot, server, filled, marked, nextId, budget>>

KillSession(r) ==
    /\ Doing(r, "kill") /\ Alive(Scratch)
    /\ Relink([server.links EXCEPT ![Scratch] = << >>], server.made, filled)
    /\ StepDone(r)
    /\ UNCHANGED nextId

SelectWindow(r) ==
    /\ Doing(r, "select")
    /\ Step(r).at \in DOMAIN server.links[Step(r).session]
    /\ StepDone(r)
    /\ UNCHANGED <<server, filled, marked, nextId>>

\* Mutant: the option goes to a session that is gone.
AnyTarget(s) == TRUE

IsTarget(s) == Alive(s)

MarkSession(r) ==
    /\ Doing(r, "mark") /\ IsTarget(Step(r).session)
    /\ marked' = marked \cup {Step(r).session}
    /\ StepDone(r)
    /\ UNCHANGED <<server, filled, nextId>>

MarkServer(r) ==
    /\ Doing(r, "touch")
    /\ server' = [server EXCEPT !.touched = TRUE]
    /\ StepDone(r)
    /\ UNCHANGED <<filled, marked, nextId>>

Applies(r) ==
    \/ CreateSession(r) \/ MoveWindow(r) \/ NewWindow(r) \/ LinkWindow(r)
    \/ SplitPane(r) \/ SelectLayout(r) \/ Fill(r) \/ Stamp(r)
    \/ SwitchClients(r) \/ KillSession(r)
    \/ SelectWindow(r) \/ MarkSession(r) \/ MarkServer(r)

Ends(r) ==
    /\ restore' = [restore EXCEPT ![r] = Idle]
    /\ around' = [around EXCEPT ![r] = {}]
    /\ UNCHANGED <<snapshot, server, filled, marked, nextId>>

\* tmux says no, or the session the connection was attached to is gone.
IsRefused(r) ==
    \/ restore[r].stage = "creating" /\ Alive(Scratch)
    \/ restore[r].stage \in {"opened", "applying"} /\ ~ Alive(restore[r].client)
    \/ restore[r].stage = "applying" /\ restore[r].steps # <<>> /\ ~ ENABLED Applies(r)

Refused(r) ==
    /\ restore[r].stage # "idle" /\ IsRefused(r)
    /\ Ends(r)
    /\ UNCHANGED budget

\* The restorer dies, a temp file cannot be written, the link is lost.
Cut(r) ==
    /\ restore[r].stage # "idle" /\ budget.cuts > 0
    /\ budget' = [budget EXCEPT !.cuts = @ - 1]
    /\ Ends(r)

Finish(r) ==
    /\ restore[r].stage = "applying" /\ restore[r].steps = <<>>
    /\ Ends(r)
    /\ UNCHANGED budget

RestoreStep(r) ==
    Open(r) \/ OpenCreates(r) \/ Prepare(r) \/ Applies(r) \/ Refused(r) \/ Cut(r) \/ Finish(r)

UserStep ==
    \E s \in AllSessions, i \in 0..MaxIndex :
        UserOpens(s, i) \/ \E renumber \in BOOLEAN : UserCloses(s, i, renumber)

Next == UserStep \/ \E r \in Restorers : RestoreStep(r)

Spec == Init /\ [][Next]_vars

-----------------------------------------------------------------------------
\* A stamped window is the whole of the saved one, panes, layout and content,
\* wherever the restores that made it and the others were cut.
StampMeansWhole ==
    \A x \in DOMAIN server.made :
        server.made[x] # 0 => filled[x] = Whole(server.made[x])

\* Nothing live is removed (plan.rs:11): the one step that takes windows out
\* of a session is the link that replaces a placeholder, and what it takes is
\* the placeholder this plan made - not a window the user opened where the
\* plan means to put one of its own. Where windows were closed or another
\* restore ran since this one began, `-k` (apply.rs:164) removes whatever has
\* come to the index, and plan.rs:11 is not kept.
LiveIsKept ==
    [][\A r \in Restorers : Applies(r) =>
          \A s \in SessionNames :
              LET lost == Range(server.links[s]) \ Range(server'.links[s])
              IN  lost # {} =>
                    /\ Step(r).op = "link" /\ Step(r).replacing # 0
                    /\ around[r] \subseteq {"opened"} =>
                          lost = {restore[r].bound[Step(r).replacing]}]_vars

\* Session s links every saved window as often as it was saved there.
Complete(s) ==
    \A w \in Range(snapshot.links[s]) :
        Cardinality({i \in DOMAIN snapshot.links[s] : snapshot.links[s][i] = w})
        <= Cardinality({i \in DOMAIN server.links[s] :
              LET x == server.links[s][i]
              IN  server.made[x] = w \/ (server.sameServer /\ x = w)})

\* What an integration takes @phoenix-restored for: when a session gets it,
\* everything saved in it is linked there, unless windows were closed or
\* another restore built its own since this one began.
RestoredIsComplete ==
    [][\A r \in Restorers : MarkSession(r) =>
          \/ ~ around[r] \subseteq {"opened"}
          \/ Complete(Step(r).session)]_vars

\* "Restoring twice does nothing the second time", whatever cut restores left
\* behind and whatever the user opened meanwhile.
FinishedPlansNothing ==
    [][\A r \in Restorers : Finish(r) =>
          \/ ~ around[r] \subseteq {"opened"}
          \/ Plan(snapshot, server, FALSE) = <<>>]_vars

\* tmux accepts a plan on the server it was made for, whatever cut restores
\* and the user left there: only what others do meanwhile can stop it.
RefusedOnlyIfDisturbed ==
    [][\A r \in Restorers : Refused(r) => around[r] # {}]_vars

\* A saved window is built once, however many sessions link it and however
\* many restores were cut, unless two restores overlap.
BuiltOnce ==
    [][\A r \in Restorers : Stamp(r) =>
          \/ "restored" \in around[r]
          \/ \A x \in DOMAIN server.made : server.made[x] # Step(r).saved]_vars
=============================================================================
