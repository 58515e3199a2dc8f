------------------------------ MODULE Capture ------------------------------
(***************************************************************************)
(* phoenix-capture/src/capture.rs: a fixed sequence of commands over one   *)
(* connection, and of reads of the processes (process.rs) and the text     *)
(* (content.rs) of each pane, while the user goes on working in the server *)
(* between any two of them.                                                *)
(*                                                                         *)
(* The server is a record as in Listing.tla.  A pane's process is          *)
(* [holder, led, turns]: who holds its terminal (its own process, a job,   *)
(* nobody, or the process is dead), the argument list of the leader, 0 if  *)
(* that is gone, and how often this changed.  A pane's text is what it has *)
(* printed: lines `first` to `last` of its `clears`-th history, `drawn`    *)
(* times redrawn in place, in pane `pane` of server `server`.              *)
(***************************************************************************)
EXTENDS Listing

\* What to begin with, and bounds: [server, file, blobs, tree, does, moves,
\* saves], where `does` names the kinds of moves there are.
CONSTANT Scenarios

ASSUME ScenarioAssumption ==
    \A scenario \in Scenarios :
        /\ IsServer(scenario.server) /\ IsFilled(scenario.server)
        /\ ArePrinted(scenario.server)
        /\ scenario.moves \in Nat /\ scenario.saves \in Nat
        /\ \A text \in DOMAIN scenario.blobs :
              scenario.blobs[text] \in {"whole", "cut"}

VARIABLES
    given,          \* the scenario
    server,         \* what is on the socket
    moves,          \* how often the user acted
    stage,          \* how far the capture has come
    link,           \* the id of the server it is connected to
    previous,       \* the Previous it was passed
    looked,         \* the server when it listed the panes
    rows, clients,  \* the parsed listings
    touched, id,    \* the server's mark and id, as read
    todo,           \* the rows of panes still to read
    pane,           \* what was read of the first of them
    reads,          \* what was read of each pane before
    snapshot,       \* Some(snapshot) once the capture has succeeded
    failure         \* the CaptureError, or "none"

listed == <<looked, rows, clients, touched, id>>
reading == <<todo, pane, reads>>
capturing == <<stage, link, previous, listed, reading, snapshot, failure>>

NoProcess == [holder |-> "unread", led |-> 0, turns |-> 0]
Nobody == [origin |-> None, panes |-> <<>>]
Unread == [group |-> NoProcess, foreground |-> Shell,
           scrollback |-> None, failed |-> FALSE]

Stages == {"idle", "panes", "clients", "mark", "id", "group", "leader",
           "scrollback", "visible", "version", "over"}

NoCapture ==
    /\ link = None /\ previous = Nobody
    /\ looked = None /\ rows = <<>> /\ clients = <<>>
    /\ touched = None /\ id = None
    /\ todo = <<>> /\ pane = Unread /\ reads = <<>>
    /\ snapshot = None /\ failure = "none"

InitCapture ==
    /\ given \in Scenarios
    /\ server = given.server
    /\ moves = 0
    /\ stage = "idle" /\ NoCapture

-----------------------------------------------------------------------------
(***************************************************************************)
(* The user and tmux, outside the source: what may change between two      *)
(* commands, each a kind of move that a scenario allows or not.            *)
(***************************************************************************)
May(kind) ==
    /\ kind \in given.does /\ moves < given.moves
    /\ moves' = moves + 1
    /\ UNCHANGED <<given, capturing>>

NewPane ==
    [cwd |-> Some(1), process |-> [holder |-> "own", led |-> 1, turns |-> 0],
     text |-> [server |-> server.id.pid, pane |-> server.fresh, first |-> 0,
               last |-> 0, clears |-> 0, drawn |-> 0]]

\* f with x mapped to v.
Put(f, x, v) == [y \in DOMAIN f \cup {x} |-> IF y = x THEN v ELSE f[y]]

\* A window's next pane is active; ids are not used again.
SplitWindow(w) ==
    LET window == server.windows[w]
    IN  /\ May("split")
        /\ server' = [server EXCEPT
              !.windows = Put(@, w, [window EXCEPT
                              !.panes = Append(window.panes, server.fresh),
                              !.active = server.fresh]),
              !.panes = Put(@, server.fresh, NewPane),
              !.fresh = @ + 1]

WithoutPanes(gone) ==
    [p \in DOMAIN server.panes \ gone |-> server.panes[p]]

KillPane(w, p) ==
    LET window == server.windows[w]
        left == At(window.panes, {i \in DOMAIN window.panes : window.panes[i] # p})
    IN  /\ May("kill")
        /\ left # <<>>
        /\ server' = [server EXCEPT
              !.panes = WithoutPanes({p}),
              !.windows = Put(@, w, [window EXCEPT
                              !.panes = left,
                              !.active = IF @ = p THEN left[1] ELSE @])]

\* The windows no other session links go with it, and its clients.
KillSession(name) ==
    LET others == DOMAIN server.sessions \ {name}
        LinkedBy(n) == {server.sessions[n].links[i] :
                           i \in DOMAIN server.sessions[n].links}
        left == UNION {LinkedBy(n) : n \in others}
        gone == UNION {ToSet(server.windows[w].panes) :
                          w \in DOMAIN server.windows \ left}
    IN  /\ May("kill")
        /\ others # {}
        /\ server' = [server EXCEPT
              !.sessions = [n \in others |-> server.sessions[n]],
              !.windows = [w \in left |-> server.windows[w]],
              !.panes = WithoutPanes(gone),
              !.clients = [c \in {d \in DOMAIN server.clients :
                                    server.clients[d] # name} |->
                              server.clients[c]]]

\* A session of one new window; a client may come with it.
OpenSession(name, attached) ==
    /\ May("open")
    /\ name \notin DOMAIN server.sessions
    /\ server' = [server EXCEPT
          !.sessions = Put(@, name, [group |-> None,
                                     links |-> [i \in {0} |-> server.fresh],
                                     active |-> 0, last |-> None]),
          !.windows = Put(@, server.fresh,
                          [made |-> None, name |-> 1, layout |-> 1,
                           zoomed |-> FALSE, panes |-> <<server.fresh>>,
                           active |-> server.fresh]),
          !.panes = Put(@, server.fresh, NewPane),
          !.clients = IF attached THEN [c \in DOMAIN server.clients |-> name]
                                  ELSE @,
          !.fresh = @ + 1]

LinkWindow(name, w) ==
    LET session == server.sessions[name]
        next == Max(DOMAIN session.links) + 1
    IN  /\ May("link")
        /\ server' = [server EXCEPT !.sessions = Put(@, name,
                          [session EXCEPT !.links = Put(@, next, w)])]

SelectWindow(name, index) ==
    LET session == server.sessions[name]
    IN  /\ May("select")
        /\ index # session.active
        /\ server' = [server EXCEPT !.sessions = Put(@, name,
                          [session EXCEPT !.active = index,
                                          !.last = Some(session.active)])]

\* Output scrolls a line off, at history-limit beside one that is dropped; a
\* redraw does not; a clear drops the history.
WriteText(p, text) ==
    LET old == server.panes[p]
    IN  /\ May("print")
        /\ server' = [server EXCEPT
                        !.panes = Put(@, p, [old EXCEPT !.text = text])]

TextsAfter(text) ==
    {[text EXCEPT !.last = @ + 1], [text EXCEPT !.first = @ + 1, !.last = @ + 1],
     [text EXCEPT !.drawn = @ + 1],
     [text EXCEPT !.first = text.last, !.clears = @ + 1]}

\* A job starts, ends, loses its leader; the terminal is let go; the shell dies.
RunIn(p, holder, led) ==
    LET old == server.panes[p]
        process == [holder |-> holder, led |-> led, turns |-> old.process.turns + 1]
    IN  /\ May("run")
        /\ old.process.holder # "dead"
        /\ server' = [server EXCEPT
                        !.panes = Put(@, p, [old EXCEPT !.process = process])]

MarkServer(mark) ==
    /\ May("mark")
    /\ server' = [server EXCEPT !.mark = mark]

MarkWindow(w, made) ==
    /\ May("mark")
    /\ server' = [server EXCEPT !.windows =
                    Put(@, w, [server.windows[w] EXCEPT !.made = made])]

\* The server ends and another takes its socket, whose ids begin again.
Restart ==
    /\ May("restart")
    /\ server' = [given.server EXCEPT
          !.id = [pid |-> server.id.pid + 1, start |-> server.id.start + 1],
          !.panes = [p \in DOMAIN given.server.panes |->
                        [given.server.panes[p] EXCEPT
                            !.text.server = server.id.pid + 1]]]

Processes == {"own", "job"} \X {1, 2} \cup {<<"job", 0>>, <<"nobody", 1>>, <<"dead", 0>>}

UserMoves ==
    \/ \E w \in DOMAIN server.windows :
          \/ SplitWindow(w)
          \/ \E p \in ToSet(server.windows[w].panes) : KillPane(w, p)
          \/ \E name \in DOMAIN server.sessions : LinkWindow(name, w)
          \/ \E made \in {<<1, w>>, <<0>>} : MarkWindow(w, made)
    \/ \E attached \in BOOLEAN : OpenSession(9, attached)
    \/ \E name \in DOMAIN server.sessions :
          \/ KillSession(name)
          \/ \E index \in DOMAIN server.sessions[name].links :
                SelectWindow(name, index)
    \/ \E p \in DOMAIN server.panes :
          \/ \E text \in TextsAfter(server.panes[p].text) : WriteText(p, text)
          \/ \E process \in Processes : RunIn(p, process[1], process[2])
    \/ \E mark \in {Some(1), <<0, 0>>} : MarkServer(mark)
    \/ Restart

-----------------------------------------------------------------------------
(***************************************************************************)
(* capture: structure, clients, marks, identity.                           *)
(***************************************************************************)
IsConnected == link = Some(server.id)

Goto(next) == stage' = next /\ UNCHANGED <<link, previous>>

Over(result, error) ==
    /\ stage' = "over" /\ snapshot' = result /\ failure' = error
    /\ UNCHANGED <<link, previous>>

Fail(error) ==
    /\ Over(None, error)
    /\ UNCHANGED <<listed, reading>>

Begin(from) ==
    /\ stage = "idle"
    /\ stage' = "panes" /\ link' = Some(server.id) /\ previous' = from
    /\ UNCHANGED <<given, server, moves, listed, reading, snapshot, failure>>

\* Whatever comes next, tmux does not answer.
ConnectionLost ==
    /\ stage \notin {"idle", "over"} /\ ~ IsConnected
    /\ Fail("Connection")
    /\ UNCHANGED <<given, server, moves>>

\* list-panes -a: every row parses, or the capture fails.
ReadPanes ==
    /\ stage = "panes" /\ IsConnected
    /\ IF \A row \in ToSet(ListPanes(server)) : Parses(row)
       THEN /\ rows' = ListPanes(server) /\ looked' = Some(server)
            /\ Goto("clients")
            /\ UNCHANGED <<clients, touched, id, reading, snapshot, failure>>
       ELSE Fail("MalformedRow")
    /\ UNCHANGED <<given, server, moves>>

ReadClients ==
    /\ stage = "clients" /\ IsConnected
    /\ clients' = ListClients(server)
    /\ Goto("mark")
    /\ UNCHANGED <<given, server, moves, looked, rows, touched, id, reading,
                   snapshot, failure>>

\* server_mark: no line is `Never`, one is an id, and nothing else will do.
ReadMark ==
    /\ stage = "mark" /\ IsConnected
    /\ IF Len(server.mark) <= 1
       THEN /\ touched' = server.mark /\ Goto("id")
            /\ UNCHANGED <<looked, rows, clients, id, reading, snapshot, failure>>
       ELSE Fail("MalformedServerMark")
    /\ UNCHANGED <<given, server, moves>>

\* server_id; then `fold` begins to read panes.
ReadId ==
    /\ stage = "id" /\ IsConnected
    /\ id' = Some(server.id) /\ todo' = ReadingOrder(rows)
    /\ Goto("group")
    /\ UNCHANGED <<given, server, moves, looked, rows, clients, touched, pane,
                   reads, snapshot, failure>>

-----------------------------------------------------------------------------
(***************************************************************************)
(* Each pane: who holds its terminal, the leader's argument list, the      *)
(* scrollback unless it can be reused, the visible screen.                 *)
(***************************************************************************)
Here == todo[1].pane_id
IsThere == Here \in DOMAIN server.panes
Process == server.panes[Here].process

Reading(next, read) ==
    /\ pane' = read
    /\ Goto(next)
    /\ UNCHANGED <<given, server, moves, listed, todo, reads, snapshot, failure>>

Unrecoverable(reason) ==
    Reading("scrollback", [pane EXCEPT !.foreground = Unrecovered(reason)])

\* A read of the kernel that is refused, which counts as a move.
Refused ==
    /\ "run" \in given.does /\ moves < given.moves /\ moves' = moves + 1
    /\ pane' = [pane EXCEPT !.foreground = Unrecovered("Os")]
    /\ Goto("scrollback")
    /\ UNCHANGED <<given, server, listed, todo, reads, snapshot, failure>>

\* os::terminal_group of the pane's process.
ReadGroup ==
    /\ stage = "group" /\ todo # <<>> /\ IsConnected
    /\ \/ IF ~ IsThere \/ Process.holder = "dead" THEN Unrecoverable("ShellGone")
          ELSE IF Process.holder = "nobody" THEN Unrecoverable("NoTerminal")
          ELSE Reading("leader", [pane EXCEPT !.group = Process])
       \/ Refused

\* Mutant: the argument list of the pane's own process is read.
ArgvOfPane == IF IsThere THEN {IF Process.holder = "own" THEN Process.led ELSE 1}
                         ELSE {0}

\* What the process that led the group then reads as now, 0 if it is gone:
\* the pane's own goes on behind its jobs, a job may be over or suspended.
ArgvOfLeader ==
    IF ~ IsThere \/ Process.holder = "dead" THEN {0}
    ELSE IF pane.group = Process THEN {Process.led}
    ELSE IF pane.group.holder = "job" THEN {0, pane.group.led}
    ELSE IF Process.holder = "own" THEN {Process.led}
    ELSE {pane.group.led}

ReadLeader ==
    /\ stage = "leader" /\ IsConnected
    /\ \/ \E argv \in ArgvOfLeader :
             IF argv = 0 THEN Unrecoverable("LeaderGone")
             ELSE Reading("scrollback",
                     [pane EXCEPT !.foreground =
                         ForegroundOf(pane.group.holder = "own", argv)])
       \/ Refused

\* Mutant: the pane's id is enough.
ReusableAnywhere(p, indicator) ==
    p \in DOMAIN previous.panes /\ previous.panes[p].indicator = indicator

\* Previous::reusable: captured on this server at this indicator.
Reusable(p, indicator) ==
    /\ p \in DOMAIN previous.panes /\ previous.origin = id
    /\ previous.panes[p].indicator = indicator

\* capture-pane of a pane that is gone is its %error.
ReadScrollback ==
    /\ stage = "scrollback" /\ IsConnected
    /\ Reading("visible",
         IF Reusable(Here, todo[1].indicator)
         THEN [pane EXCEPT !.scrollback = Some(previous.panes[Here].scrollback)]
         ELSE IF IsThere
         THEN [pane EXCEPT !.scrollback = Some(server.panes[Here].text)]
         ELSE [pane EXCEPT !.failed = TRUE])

\* Mutant: the indicator is that of the text, read after it.
IndicatorNow == IndicatorOf(server.panes[Here].text)

IndicatorListed == todo[1].indicator

ContentRead ==
    IF pane.failed \/ ~ IsThere THEN NotCaptured("CapturePane")
    ELSE Captured(IndicatorListed, pane.scrollback[1], server.panes[Here].text)

ReadVisible ==
    /\ stage = "visible" /\ IsConnected
    /\ reads' = Put(reads, Here, [foreground |-> pane.foreground,
                                  content |-> ContentRead])
    /\ todo' = Tail(todo) /\ pane' = Unread
    /\ Goto("group")
    /\ UNCHANGED <<given, server, moves, listed, snapshot, failure>>

-----------------------------------------------------------------------------
(***************************************************************************)
(* The version, the clock, and the graph: all of it or none.               *)
(***************************************************************************)
\* Mutant: a client may sit anywhere.
NeverRefused(folded) == FALSE

\* Snapshot::new refuses what does not resolve.
IsRefused(folded) == ~ IsSnapshot(folded.windows, folded.sessions, clients)

Finish(clock) ==
    LET folded == Fold(rows, reads)
    IN  /\ stage = "group" /\ todo = <<>> /\ IsConnected
        /\ IF folded = None THEN Over(None, "Fold")
           ELSE IF IsRefused(folded[1]) THEN Over(None, "Snapshot")
           ELSE Over(Some([origin |-> id, touched |-> touched,
                           captured_at |-> clock,
                           tmux_version |-> server.version,
                           windows |-> folded[1].windows,
                           sessions |-> folded[1].sessions,
                           clients |-> clients]), "none")
        /\ UNCHANGED <<given, server, moves, listed, reading>>

CaptureStep(clock) ==
    \/ ReadPanes \/ ReadClients \/ ReadMark \/ ReadId
    \/ ReadGroup \/ ReadLeader \/ ReadScrollback \/ ReadVisible
    \/ Finish(clock) \/ ConnectionLost

-----------------------------------------------------------------------------
(***************************************************************************)
(* Properties.                                                             *)
(***************************************************************************)
Kept == ToSet(snapshot)

\* What the server held when the panes were listed, as sets.
SessionsHeld(held) ==
    {[name |-> n, group |-> held.sessions[n].group,
      links |-> {<<i, held.sessions[n].links[i]>> :
                    i \in DOMAIN held.sessions[n].links},
      active |-> held.sessions[n].active, last |-> held.sessions[n].last] :
        n \in DOMAIN held.sessions}

WindowsHeld(held) ==
    {[id |-> w, made |-> held.windows[w].made, name |-> held.windows[w].name,
      layout |-> held.windows[w].layout, zoomed |-> held.windows[w].zoomed,
      panes |-> {<<i - 1, held.windows[w].panes[i],
                   held.panes[held.windows[w].panes[i]].cwd>> :
                      i \in DOMAIN held.windows[w].panes},
      active |-> held.windows[w].active] : w \in DOMAIN held.windows}

SessionsKept(s) ==
    {[name |-> session.name, group |-> session.group,
      links |-> {<<l.index, l.window>> : l \in ToSet(session.links)},
      active |-> session.active, last |-> session.last] :
        session \in ToSet(s.sessions)}

WindowsKept(s) ==
    {[id |-> w.id, made |-> w.made, name |-> w.name, layout |-> w.layout,
      zoomed |-> w.zoomed,
      panes |-> {<<p.index, p.id, p.cwd>> : p \in ToSet(w.panes)},
      active |-> (CHOOSE p \in ToSet(w.panes) : p.index = w.active).id] :
        w \in ToSet(s.windows)}

\* A snapshot's graph is the server as it stood at one moment, whatever the
\* user did between the commands: nothing is torn, doubled or left out.
RecordsOneLook ==
    \A s \in Kept :
        /\ SessionsKept(s) = SessionsHeld(looked[1])
        /\ WindowsKept(s) = WindowsHeld(looked[1])
        /\ Len(s.windows) = Cardinality(DOMAIN looked[1].windows)

\* The text kept for a pane was printed in that pane of that server.  Where
\* its history still had all the pane's lines at the listing, neither trimmed
\* at history-limit nor cleared of any, it holds every line of it: one that is
\* as long has the same lines.  A history that has lost lines may come to an
\* earlier indicator again, and what was captured then is kept in its place;
\* that much the code gets wrong (content.rs:97-100), and nothing is claimed
\* of it here.  The screen is no older than the listing in any case.
ScrollbackIsOfItsPane ==
    \A s \in Kept : \A p \in PanesOf(s) : p.content.is = "captured" =>
        LET then == looked[1].panes[p.id].text
            old == p.content.scrollback
            new == p.content.visible
        IN  /\ <<old.server, old.pane>> = <<then.server, then.pane>>
            /\ then.first = 0 => old.last >= then.last
            /\ new.clears >= then.clears /\ new.last >= then.last
            /\ new.drawn >= then.drawn

\* A capture fails for what the user did to it and for nothing else: its
\* server ended, a mark is no mark, or a client sits on a session opened
\* since the panes were listed.  Rows always fold.
FailsOnlyIfDisturbed ==
    [][failure' # failure =>
          \/ failure' = "none"
          \/ failure' = "Connection" /\ link # Some(server.id)
          \/ failure' = "Snapshot"
             /\ \E c \in ToSet(clients) :
                   c.session \notin DOMAIN looked[1].sessions
          \/ failure' = "MalformedServerMark" /\ server.mark = <<0, 0>>
          \/ failure' = "MalformedRow"
             /\ \E w \in DOMAIN server.windows : server.windows[w].made = <<0>>
      ]_<<given, server, moves, capturing>>

\* What the foreground of a pane is, seen at once.
ForegroundSeen(process) ==
    IF process.holder = "dead" THEN Unrecovered("ShellGone")
    ELSE IF process.holder = "nobody" THEN Unrecovered("NoTerminal")
    ELSE IF process.led = 0 THEN Unrecovered("LeaderGone")
    ELSE IF process.holder = "own" /\ process.led \in Shells THEN Shell
    ELSE Program(process.led)

\* A pane in which nothing has changed since the listing is recorded as it
\* is, and its text is there; only the kernel's refusal hides its program.
DegradedOnlyIfGone ==
    IsConnected =>
        \A s \in Kept : \A p \in PanesOf(s) : p.id \in DOMAIN server.panes =>
            LET process == server.panes[p.id].process
            IN  /\ <<"content", p.id>> \notin Degradations(s)
                /\ process = looked[1].panes[p.id].process =>
                      p.foreground \in {ForegroundSeen(process), Unrecovered("Os")}
=============================================================================
