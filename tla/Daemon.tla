------------------------------- MODULE Daemon -------------------------------
(***************************************************************************)
(* phoenix-daemon: boot (boot.rs), the run loop and the reconnect loop     *)
(* (daemon.rs), and the debounce (debounce.rs), beside a tmux server that  *)
(* a user works in, ends and restarts at any moment.  The store is the one *)
(* value `latest` (Store.tla shows reads and saves are atomic); a restore  *)
(* is taken session by session.                                            *)
(*                                                                         *)
(* A session is absent, idle (a bootstrap session: one window, one pane,   *)
(* at its shell) or built.  Time is counted in polls of the run loop.      *)
(***************************************************************************)
EXTENDS Integers, FiniteSets

CONSTANTS
    Names,          \* names of the user's sessions
    Scratches,      \* names for the session a restore makes to attach with
    Nothing,        \* no snapshot, no decision, no session
    Debounce, MaxInterval,      \* DebouncePolicy, in polls
    MaxServers, MaxMoves,       \* bounds: server incarnations, user's moves
    MaxFaults,      \* bound: failed calls, lost links and misread prompts
    MaxTrouble,     \* bound: moves and faults together
    FlickersIn,     \* the captures that may misread an idle shell's prompt
    RestoreMayBeCut,    \* whether an error or the user may cut a restore short
    RestartInBoot   \* whether the server may end between survey and attach

AllNames == Names \cup Scratches
Snapshots == [AllNames -> {"absent", "idle", "built"}]
Holds(snapshot) == {n \in AllNames : snapshot[n] # "absent"}
Built(snapshot) == {n \in AllNames : snapshot[n] = "built"}

\* What a save may store: a bootstrap-only snapshot is refused.
Saved == {s \in Snapshots : Built(s) # {}}

\* Boot: settled, or declined because of these sessions.
Settled == [settled |-> TRUE, names |-> {}]
Declined(names) == [settled |-> FALSE, names |-> names]
Boots == {Settled} \cup {Declined(names) : names \in (SUBSET AllNames) \ {{}}}
Servers == 1..MaxServers
Decisions == [server : Servers, boot : Boots]

ASSUME DaemonAssumption ==
    /\ Scratches \cap Names = {}
    /\ Nothing \notin AllNames \cup Snapshots \cup Decisions
    /\ Debounce \in Nat /\ MaxInterval \in Nat \ {0}
    /\ MaxServers \in Nat /\ MaxMoves \in Nat /\ MaxFaults \in Nat
    /\ MaxTrouble \in Nat
    /\ FlickersIn \subseteq {"survey", "save"}
    /\ {RestoreMayBeCut, RestartInBoot} \subseteq BOOLEAN

VARIABLES
    server,     \* the incarnation now or last on the socket (its Origin)
    sessions,   \* what it holds
    byUser,     \* on each incarnation, the sessions the user worked in or closed
    moves, faults,  \* how often the user acted, how often something failed
    latest,     \* the snapshot of the newest generation
    stage,      \* how far the daemon has come
    held,       \* what its survey saw
    restoring,  \* the snapshot it restores
    lacking,    \* the sessions the plan found absent
    todo,       \* the sessions the plan has still to restore
    making,     \* the session being restored
    owed,       \* the scratch the plan has still to remove
    ours,       \* sessions whose windows are those of `latest`
    last,       \* the decision of the last run
    decided,    \* the decision of this one
    link,       \* the incarnation the client is attached to
    activity,   \* StructureActivity
    quiet,      \* polls since the last activity recorded, -1 if none
    age,        \* polls since the last save cycle
    captured,   \* the capture to be saved
    kept,       \* servers a run has been beside with its boot settled
    avoided,    \* servers a boot stayed out of, until a restore or a save there
    upset       \* what went wrong: a restore was cut, a survey or a save misread

tmux == <<server, sessions, byUser, ours>>
budget == <<moves, faults>>
booting == <<held, restoring, lacking, todo, making, owed>>
running == <<link, activity, quiet, age, captured, kept, avoided>>
vars == <<tmux, budget, latest, stage, booting, last, decided, running, upset>>

Alive == Holds(sessions) # {}

TypeOK ==
    /\ server \in 0..MaxServers
    /\ sessions \in Snapshots
    /\ byUser \in [Servers -> SUBSET Names] /\ ours \in SUBSET AllNames
    /\ moves \in 0..MaxMoves /\ faults \in 0..MaxFaults
    /\ latest \in Saved \cup {Nothing}
    /\ stage \in {"asleep", "surveyed", "restoring", "applying", "attaching",
                  "polling", "saving"}
    /\ held \in [server : 0..MaxServers, built : SUBSET AllNames]
    /\ restoring \in Snapshots \cup {Nothing}
    /\ lacking \in SUBSET AllNames /\ todo \in SUBSET AllNames
    /\ making \in AllNames \cup {Nothing} /\ owed \in Scratches \cup {Nothing}
    /\ last \in Decisions \cup {Nothing} /\ decided \in Decisions \cup {Nothing}
    /\ link \in 0..MaxServers /\ activity \in BOOLEAN
    /\ quiet \in -1..Debounce /\ age \in 0..MaxInterval
    /\ captured \in Snapshots \cup {Nothing}
    /\ kept \in SUBSET Servers /\ avoided \in SUBSET Servers
    /\ upset \subseteq {"cut", "survey", "save"}

NothingHeld == [server |-> 0, built |-> {}]
Empty == [n \in AllNames |-> "absent"]

Init ==
    /\ server = 0 /\ sessions = Empty /\ ours = {}
    /\ byUser = [srv \in Servers |-> {}]
    /\ moves = 0 /\ faults = 0
    /\ latest \in {Nothing} \cup {s \in Saved : Holds(s) \subseteq Names}
    /\ stage = "asleep"
    /\ held = NothingHeld /\ restoring = Nothing /\ lacking = {} /\ todo = {}
    /\ making = Nothing /\ owed = Nothing
    /\ last = Nothing /\ decided = Nothing
    /\ link = 0 /\ activity = FALSE /\ quiet = -1 /\ age = 0
    /\ captured = Nothing /\ kept = {} /\ avoided = {} /\ upset = {}

MayFail == faults < MaxFaults /\ moves + faults < MaxTrouble

-----------------------------------------------------------------------------
(***************************************************************************)
(* The user.  A change is noticed when it is in the attached session.      *)
(***************************************************************************)
Move ==
    /\ moves < MaxMoves /\ moves + faults < MaxTrouble
    /\ stage = "applying" => RestoreMayBeCut
    /\ moves' = moves + 1
    /\ activity' \in IF link = server /\ Alive THEN {TRUE, activity} ELSE {activity}
    /\ UNCHANGED <<faults, latest, upset, stage, booting, last, decided, link, quiet,
                   age, captured, kept, avoided>>

\* The first session starts the server.
OpenSession(n) ==
    /\ sessions[n] = "absent"
    /\ sessions' = [sessions EXCEPT ![n] = "idle"]
    /\ IF Alive THEN UNCHANGED server
                ELSE server < MaxServers /\ server' = server + 1
    /\ UNCHANGED <<byUser, ours>>
    /\ Move

\* Opens a window or starts a program, or leaves one idle shell behind.
Work(n) ==
    /\ sessions[n] # "absent"
    /\ sessions' = [sessions EXCEPT ![n] = IF @ = "idle" THEN "built" ELSE "idle"]
    /\ byUser' = [byUser EXCEPT ![server] = @ \cup {n}]
    /\ UNCHANGED <<server, ours>>
    /\ Move

\* The last session ends the server.
MayEnd == RestartInBoot \/ stage \notin {"surveyed", "attaching"}

CloseSession(n) ==
    /\ sessions[n] # "absent"
    /\ Holds(sessions) = {n} => MayEnd
    /\ sessions' = [sessions EXCEPT ![n] = "absent"]
    /\ byUser' = [byUser EXCEPT ![server] = @ \cup {n}] /\ ours' = ours \ {n}
    /\ UNCHANGED server
    /\ Move

EndServer ==
    /\ Alive /\ MayEnd
    /\ sessions' = Empty /\ ours' = {}
    /\ UNCHANGED <<server, byUser>>
    /\ Move

-----------------------------------------------------------------------------
(***************************************************************************)
(* connect_and_boot, once per turn of run_resilient.                       *)
(***************************************************************************)
\* What a capture may read: an idle shell redrawing its prompt looks like a
\* program the user runs.
Readings(capture) ==
    LET idle == Holds(sessions) \ Built(sessions)
        flickers == IF capture \in FlickersIn /\ MayFail
                    THEN SUBSET idle ELSE {{}}
    IN  {[n \in AllNames |-> IF n \in f THEN "built" ELSE sessions[n]] :
            f \in flickers}

Fault(happens) ==
    /\ happens => MayFail
    /\ faults' = IF happens THEN faults + 1 ELSE faults

Misreads(capture, reading) ==
    /\ Fault(reading # sessions)
    /\ upset' = IF reading = sessions THEN upset ELSE upset \cup {capture}

\* Mutant: a session is built as soon as it is there.
StopsOnAny(reading) == Holds(reading)

\* ServerState::of: what keeps boot from restoring.
Stops(reading) == Built(reading)

Survey ==
    /\ stage = "asleep"
    /\ \E reading \in Readings("survey") :
          /\ held' = IF Alive THEN [server |-> server, built |-> Stops(reading)]
                              ELSE NothingHeld
          /\ Misreads("survey", reading)
    /\ stage' = "surveyed"
    /\ UNCHANGED <<tmux, moves, latest, restoring, lacking, todo, making, owed,
                   last, decided, running>>

\* Mutant: whatever the socket holds now is taken for the server of `last`.
SameSocket == last # Nothing /\ held.server # 0

Returning == last # Nothing /\ last.server = held.server

Attaching(decision) ==
    /\ stage' = "attaching" /\ decided' = decision
    /\ UNCHANGED restoring

\* A restore is due when the survey found nothing built and one is saved.
Decide ==
    /\ stage = "surveyed"
    /\ IF Returning THEN Attaching(last)
       ELSE IF held.built # {}
            THEN Attaching([server |-> held.server, boot |-> Declined(held.built)])
       ELSE IF latest # Nothing
            THEN /\ stage' = "restoring" /\ restoring' = latest
                 /\ UNCHANGED decided
       ELSE IF held.server # 0
            THEN Attaching([server |-> held.server, boot |-> Settled])
       ELSE /\ stage' = "asleep"
            /\ UNCHANGED <<restoring, decided>>
    /\ held' = NothingHeld
    /\ UNCHANGED <<tmux, budget, latest, upset, lacking, todo, making, owed, last, running>>

\* Open a connection, making a scratch where no session exists, capture
\* once more and plan.  The flicker of a prompt does not matter to the plan.
OpenAndPlan ==
    /\ stage = "restoring"
    /\ IF Alive
       THEN /\ owed' = Nothing
            /\ UNCHANGED <<server, sessions>>
       ELSE /\ server < MaxServers /\ server' = server + 1
            /\ owed' \in Scratches \ Holds(restoring)
            /\ sessions' = [sessions EXCEPT ![owed'] = "idle"]
    /\ lacking' = Holds(restoring) \ Holds(sessions)
    /\ todo' = Holds(restoring) \ ours
    /\ decided' = [server |-> server', boot |-> Settled]
    /\ stage' = "applying"
    /\ UNCHANGED <<byUser, ours, budget, latest, upset, held, restoring, making, last,
                   running>>

\* The first step for a saved session.  A session of its name opened since
\* the plan was made is tmux's error.
CreateSession(n) ==
    /\ stage = "applying" /\ making = Nothing /\ n \in todo
    /\ decided.server = server /\ Alive
    /\ n \in lacking <=> sessions[n] = "absent"
    /\ sessions' = [sessions EXCEPT ![n] = IF n \in lacking THEN "idle" ELSE @]
    /\ making' = n
    /\ UNCHANGED <<server, byUser, ours, budget, latest, upset, stage, held, restoring,
                   lacking, todo, owed, last, decided, running>>

ScratchIsDue == owed # Nothing /\ making # Nothing

\* SwitchClients and KillSession follow the first session restored.
CloseScratch ==
    /\ stage = "applying" /\ ScratchIsDue
    /\ decided.server = server
    /\ sessions' = [sessions EXCEPT ![owed] = "absent"]
    /\ owed' = Nothing
    /\ UNCHANGED <<server, byUser, ours, budget, latest, upset, stage, held, restoring,
                   lacking, todo, making, last, decided, running>>

\* Its windows, panes, programs and stamps; in a session that was there
\* already they come beside what it holds.
Furnish ==
    /\ stage = "applying" /\ making # Nothing /\ ~ ScratchIsDue
    /\ decided.server = server /\ sessions[making] # "absent"
    /\ sessions' = [sessions EXCEPT ![making] =
                      IF making \in lacking /\ @ = "idle"
                      THEN restoring[making] ELSE "built"]
    /\ ours' = ours \cup {making}
    /\ todo' = todo \ {making} /\ making' = Nothing
    /\ UNCHANGED <<server, byUser, budget, latest, upset, stage, held, restoring,
                   lacking, owed, last, decided, running>>

\* The server's mark is the plan's last step, or the plan had none.
FinishRestore ==
    /\ stage = "applying" /\ making = Nothing /\ todo = {} /\ ~ ScratchIsDue
    /\ decided.server = server /\ Alive
    /\ stage' = "attaching"
    /\ restoring' = Nothing /\ lacking' = {} /\ owed' = Nothing
    /\ avoided' = avoided \ {server}
    /\ UNCHANGED <<tmux, budget, latest, upset, held, todo, making, last, decided,
                   link, activity, quiet, age, captured, kept>>

\* A step fails: what was done stays, and `last` is what it was.
RestoreIsCut ==
    /\ stage = "applying"
    /\ \/ RestoreMayBeCut /\ Fault(TRUE)
       \/ /\ \/ decided.server # server \/ ~ Alive
             \/ making # Nothing /\ sessions[making] = "absent"
             \/ making = Nothing /\ \E n \in todo :
                                       (n \in lacking) # (sessions[n] = "absent")
          /\ UNCHANGED faults
    /\ stage' = "asleep" /\ decided' = Nothing
    /\ restoring' = Nothing /\ lacking' = {} /\ todo' = {} /\ making' = Nothing
    /\ owed' = Nothing /\ upset' = upset \cup {"cut"}
    /\ UNCHANGED <<tmux, moves, latest, held, last, running>>

\* Keep in mind the servers a settled run has been beside, and the others.
Keeping(srv, boot) == kept' = IF boot = Settled THEN kept \cup {srv} ELSE kept
Avoiding(srv, boot) ==
    avoided' = IF boot = Settled THEN avoided ELSE avoided \cup {srv}

\* `attach-session` and Client::connect, then `run` begins.  A greeting that
\* is an error counts as connected: with no session left, `run` finds out.
Attach ==
    /\ stage = "attaching"
    /\ stage' = "polling" /\ link' = IF Alive THEN server ELSE 0
    /\ activity' = FALSE /\ quiet' = -1 /\ age' = 0
    /\ IF Alive
       THEN Keeping(server, decided.boot) /\ Avoiding(server, decided.boot)
       ELSE UNCHANGED <<kept, avoided>>
    /\ UNCHANGED <<tmux, budget, latest, upset, booting, last, decided, captured>>

\* A survey, a read of `latest` or an attach that fails.
BootFails ==
    /\ stage \in {"surveyed", "restoring", "attaching"}
    /\ \/ Fault(TRUE)
       \/ stage = "restoring" /\ ~ Alive /\ server = MaxServers /\ UNCHANGED faults
    /\ stage' = "asleep" /\ decided' = Nothing
    /\ held' = NothingHeld /\ restoring' = Nothing
    /\ UNCHANGED <<tmux, moves, latest, upset, lacking, todo, making, owed, last, running>>

-----------------------------------------------------------------------------
(***************************************************************************)
(* run.                                                                    *)
(***************************************************************************)
Capped(n, cap) == IF n < cap THEN n + 1 ELSE cap

\* What `quiet` is once a poll has looked at the activity flag.
QuietNow == IF activity THEN 0
            ELSE IF quiet = -1 THEN -1 ELSE Capped(quiet, Debounce)

\* Mutant: no backstop.
DueOnActivity(elapsed) == QuietNow >= Debounce /\ QuietNow # -1

\* should_save: quiet for long enough, or too long since the last save.
SaveIsDue(elapsed) ==
    \/ QuietNow # -1 /\ QuietNow >= Debounce
    \/ elapsed >= MaxInterval

Poll ==
    /\ stage = "polling" /\ link = server /\ Alive
    /\ activity' = FALSE /\ quiet' = QuietNow /\ age' = Capped(age, MaxInterval)
    /\ IF SaveIsDue(age')
       THEN \E reading \in Readings("save") :
               /\ captured' = reading /\ Misreads("save", reading)
               /\ stage' = "saving"
       ELSE UNCHANGED <<captured, faults, upset, stage>>
    /\ UNCHANGED <<tmux, moves, latest, booting, last, decided, link, kept,
                   avoided>>

\* Mutant: the decision is forgotten with the link.
LoseLinkAndDecision ==
    /\ stage = "polling"
    /\ \/ (link # server \/ ~ Alive) /\ UNCHANGED faults
       \/ Fault(TRUE)
    /\ stage' = "asleep" /\ last' = Nothing /\ decided' = Nothing
    /\ link' = 0 /\ activity' = FALSE /\ quiet' = -1 /\ age' = 0
    /\ UNCHANGED <<tmux, moves, latest, upset, booting, captured, kept, avoided>>

\* The heartbeat finds the link dead; the decision is kept for a reconnect.
LoseLink ==
    /\ stage = "polling"
    /\ \/ (link # server \/ ~ Alive) /\ UNCHANGED faults
       \/ Fault(TRUE)
    /\ stage' = "asleep" /\ last' = decided /\ decided' = Nothing
    /\ link' = 0 /\ activity' = FALSE /\ quiet' = -1 /\ age' = 0
    /\ UNCHANGED <<tmux, moves, latest, upset, booting, captured, kept, avoided>>

\* Mutant: no snapshot is refused.
NeverRefused == FALSE

\* A capture in which the user has built nothing, refused before the store.
BootstrapOnly == Built(captured) = {}

RecordSave == quiet' = -1 /\ age' = 0

SaveSucceeds ==
    /\ stage = "saving" /\ ~ BootstrapOnly
    /\ latest' = captured
    /\ ours' = IF link = server THEN Holds(captured) \cap Holds(sessions)
                                ELSE {}
    /\ RecordSave
    /\ decided' = [decided EXCEPT !.boot = Settled]
    /\ Keeping(link, Settled) /\ avoided' = avoided \ {link}
    /\ stage' = "polling" /\ captured' = Nothing
    /\ UNCHANGED <<server, sessions, byUser, budget, booting, last, link, activity,
                   upset>>

\* A capture that fails, or another save holding the lock.
SaveFails ==
    /\ stage = "saving"
    /\ Fault(TRUE)
    /\ stage' = "polling" /\ captured' = Nothing
    /\ UNCHANGED <<tmux, moves, latest, upset, booting, last, decided, link, activity,
                   quiet, age, kept, avoided>>

\* Mutant: a declined boot is never doubted.
MisreadNever(boot, refused) == FALSE

\* Boot::misread: every session taken for built is there and none is built.
Misread(boot, refused) ==
    boot # Settled /\ boot.names \subseteq Holds(refused)

Refuse ==
    /\ stage = "saving" /\ BootstrapOnly
    /\ ~ Misread(decided.boot, captured)
    /\ RecordSave
    /\ decided' = [decided EXCEPT !.boot = Settled]
    /\ Keeping(link, Settled)
    /\ stage' = "polling" /\ captured' = Nothing
    /\ UNCHANGED <<tmux, budget, latest, upset, booting, last, link, activity,
                   avoided>>

\* `run` returns and run_resilient forgets the decision.
BootAgain ==
    /\ stage = "saving" /\ BootstrapOnly
    /\ Misread(decided.boot, captured)
    /\ stage' = "asleep" /\ last' = Nothing /\ decided' = Nothing
    /\ link' = 0 /\ activity' = FALSE /\ quiet' = -1 /\ age' = 0
    /\ captured' = Nothing
    /\ UNCHANGED <<tmux, budget, latest, upset, booting, kept, avoided>>

-----------------------------------------------------------------------------
DaemonStep ==
    \/ Survey \/ Decide \/ OpenAndPlan \/ CloseScratch \/ Furnish \/ FinishRestore
    \/ \E n \in AllNames : CreateSession(n)
    \/ RestoreIsCut \/ Attach \/ BootFails
    \/ Poll \/ LoseLink \/ SaveSucceeds \/ SaveFails \/ Refuse \/ BootAgain

UserStep ==
    \/ \E n \in Names : OpenSession(n) \/ Work(n) \/ CloseSession(n)
    \/ EndServer

Next == DaemonStep \/ UserStep

Spec == Init /\ [][Next]_vars

\* The daemon's loop goes on; nobody obliges the user to do anything.
FairSpec == Spec /\ WF_vars(DaemonStep)

-----------------------------------------------------------------------------
(***************************************************************************)
(* Properties.                                                             *)
(***************************************************************************)

\* A server a settled run has been beside is never restored into again: not
\* after the link is lost, not after the user closes what was restored, not
\* when what is left on it looks like a login terminal.
KeptServersLeftAlone == stage = "applying" => decided.server \notin kept

IsCalm == upset \cap {"cut", "survey"} = {}

\* A save never loses a session of the newest generation that is not there
\* because a server ended: it has been put back before, unless boot stayed
\* out of this server for the user's work (and may since have been settled by
\* a refused save), or the user closed it here.  A restore cut short or a
\* misread survey may lose one.
NothingForgotten ==
    [][IsCalm /\ latest' # latest /\ latest # Nothing =>
          \/ Holds(latest) \ Holds(latest') \subseteq byUser[link]
          \/ link \in avoided /\ byUser[link] # {}]_vars

\* boot.rs: `latest` is restored into a server that holds nothing the user
\* built, so boot leaves part of it unrestored only for the user's work.
OnlyTheUserStopsBoot ==
    stage = "attaching" /\ decided.boot # Settled /\ latest # Nothing =>
        \/ decided.boot.names \cap byUser[decided.server] # {}
        \/ Holds(latest) \ Holds(sessions) \subseteq byUser[decided.server]

\* That is so as long as no restore is cut short and no survey misread.
OnlyTheUserStopsCalmBoot == IsCalm => OnlyTheUserStopsBoot

\* What is built is saved in the end, though no notification comes and
\* calls fail now and then.
BuiltIsSaved ==
    <>[](Built(sessions) # {}) => []<>(latest = sessions)

\* A server in which the user has done nothing is restored into in the end,
\* this one and not only some server before it, even if a prompt was first
\* misread for the user's program; one misread as it is saved takes the place
\* of what there was to restore.
RestoredInTheEnd ==
    <>[](Alive /\ byUser[server] = {} /\ latest # Nothing /\ "save" \notin upset)
        => []<>(Built(sessions) # {})
=============================================================================
