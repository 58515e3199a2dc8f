------------------------------- MODULE Client -------------------------------
(***************************************************************************)
(* The Client of tmux-control/src/client/mod.rs: the driver that reads     *)
(* from inside each call, over the codec and demux of ControlMode.tla.     *)
(* tmux writes lines, which arrive in chunks cut anywhere; it answers      *)
(* commands one block each, in order, and may exit, its last lines lost.   *)
(* A Client may be given another transport when one has died.              *)
(***************************************************************************)
EXTENDS ControlMode

CONSTANTS
    MaxCommands,    \* bound: commands executed
    MaxEvents,      \* bound: notifications written
    MaxTransports,  \* bound: transports attached in turn
    MaxOutput,      \* bound: lines of output of one command
    OutputLooks,    \* how a line of output may look
    Terminators     \* how tmux may end a block

ASSUME ClientAssumption ==
    /\ MaxCommands \in Nat /\ MaxEvents \in Nat /\ MaxTransports \in Nat
    /\ MaxOutput \in Nat /\ OutputLooks \subseteq Looks
    /\ Terminators \subseteq {"end", "error", "broken"}

VARIABLES
    tmux,       \* the control-mode child: alive, greeted, commands unanswered
    written,    \* every line tmux wrote, on every transport
    read,       \* how many of them the client has read in full
    codec,      \* the codec's and the demux's state
    more,       \* whether the chunk being dispatched holds another whole line
    replies,    \* settled blocks nobody has taken
    state,      \* ConnectionState
    call,       \* what a call waits for, the greeting or `command`'s reply;
                \* "dropped" is a Client that `connect` never returned
    since,      \* how many lines had been read when that call began
    command,    \* commands executed
    link,       \* transports attached
    heard,      \* what the sinks were given
    results     \* what each command's call returned

vars == <<tmux, written, read, codec, more, replies, state, call, since, command,
          link, heard, results>>

Commands == 1..MaxCommands

Pending == [is |-> "pending"]
Failed == [is |-> "failed"]

Attached == [alive |-> TRUE, greeted |-> FALSE, unanswered |-> <<>>]

Reasons == {"exit", "transport error", "protocol", "disposed"}

Lines == Range(written)

TypeOK ==
    /\ read \in 0 .. Len(written)
    /\ codec.open \in BOOLEAN
    /\ Range(codec.lines) \cup Range(codec.half) \subseteq Lines
    /\ \A reply \in Range(replies) : reply.at \in 1..read
    /\ state \in {"connecting", "reconnecting", "ready"} \cup Reasons
    /\ call \in {"none", "greeting", "executing", "dropped"}
    /\ call = "greeting" <=> state \in {"connecting", "reconnecting"}
    /\ call = "executing" => state = "ready"
    /\ since \in 0..read

Init ==
    /\ tmux = Attached /\ written = <<>> /\ read = 0
    /\ codec = Fresh /\ more = FALSE /\ replies = <<>>
    /\ state = "connecting" /\ call = "greeting" /\ since = 0
    /\ command = 0 /\ link = 1
    /\ heard = <<>> /\ results = [n \in Commands |-> Pending]

-----------------------------------------------------------------------------
\* tmux.

Write(lines) ==
    /\ written' = written \o [k \in DOMAIN lines |->
          [looks |-> lines[k], at |-> Len(written) + k, link |-> link,
           is |-> IF Len(lines) = 1 THEN "event"
                  ELSE IF k \in {1, Len(lines)} THEN "frame" ELSE "output",
           of |-> IF tmux.greeted /\ Len(lines) > 1 THEN Head(tmux.unanswered) ELSE 0]]
    /\ UNCHANGED <<read, codec, more, replies, state, call, since, command, link,
                   heard, results>>

\* The block nobody asked for, an error where there is no session.
Greets ==
    /\ tmux.alive /\ ~ tmux.greeted
    /\ \E how \in Terminators : Write(<<"begin", how>>)
    /\ tmux' = [tmux EXCEPT !.greeted = TRUE]

Answers ==
    /\ tmux.alive /\ tmux.greeted /\ tmux.unanswered # <<>>
    /\ \E length \in 0..MaxOutput : \E output \in [1..length -> OutputLooks],
          how \in Terminators :
          Write(<<"begin">> \o output \o <<how>>)
    /\ tmux' = [tmux EXCEPT !.unanswered = Tail(@)]

Events == SelectSeq(written, LAMBDA line : line.is = "event")

Notifies ==
    /\ tmux.alive /\ Len(Events) < MaxEvents
    /\ Write(<<"event">>)
    /\ UNCHANGED tmux

\* How many lines have been read, the one begun included.
Arrived == IF more THEN read + 1 ELSE read + Len(codec.half)

\* What it had not got out is lost.
Exits ==
    /\ tmux.alive
    /\ tmux' = [tmux EXCEPT !.alive = FALSE]
    /\ \E k \in Arrived .. Len(written) : written' = SubSeq(written, 1, k)
    /\ UNCHANGED <<read, codec, more, replies, state, call, since, command, link,
                   heard, results>>

-----------------------------------------------------------------------------
\* The client.

\* ConnectionState::closed: the first close wins.
ClosedBy(reason) == IF state \in Reasons THEN state ELSE reason

\* The beginnings of the line after these that a chunk may end with.
Halves(last) == {<<>>} \cup {<<written[k]>> : k \in {last + 1} \cap DOMAIN written}

Calling == call \in {"greeting", "executing"}

\* A chunk is read while nothing is settled, and all of it dispatched.
Reading == Calling /\ (more \/ replies = <<>>)

\* `feed` and `route`, a line at a time: where the line goes.
Dispatch(line) ==
    /\ replies' = IF Settles(codec, line) /\ ~ IsOutput(codec, line)
                  THEN Append(replies, ReplyOf(codec, line)) ELSE replies
    /\ heard' = IF IsEvent(codec, line) THEN Append(heard, line) ELSE heard

\* The next line of a chunk, which may end anywhere behind it.
ReadLine ==
    /\ Reading /\ read < Len(written)
    /\ LET line == Completed(codec.half, written[read + 1])
       IN  /\ Dispatch(line)
           /\ \/ /\ more' = TRUE /\ read + 1 < Len(written)
                 /\ codec' = [AfterLine(codec, line) EXCEPT !.half = <<>>]
              \/ /\ more' = FALSE
                 /\ \E half \in Halves(read + 1) :
                       codec' = [AfterLine(codec, line) EXCEPT !.half = half]
    /\ read' = read + 1
    /\ UNCHANGED <<tmux, written, state, call, since, command, link, results>>

\* A chunk that completes no line.
ReadPart ==
    /\ Reading /\ ~ more /\ codec.half = <<>> /\ read < Len(written)
    /\ codec' = [codec EXCEPT !.half = <<written[read + 1]>>]
    /\ UNCHANGED <<tmux, written, read, more, replies, state, call, since, command,
                   link, heard, results>>

\* A read that ends ends the call and the connection; `connect` that fails
\* returns no Client.
ReadEnds(reason) ==
    /\ Reading /\ ~ more
    /\ state' = ClosedBy(reason)
    /\ results' = IF call = "executing"
                  THEN [results EXCEPT ![command] = Failed] ELSE results
    /\ call' = IF state = "connecting" THEN "dropped" ELSE "none"
    /\ UNCHANGED <<tmux, written, read, codec, more, replies, since, command, link, heard>>

ReadFails == ReadEnds("transport error")

ReadEof ==
    /\ ~ tmux.alive /\ Len(written) = read + Len(codec.half)
    /\ ReadEnds("exit")

\* The oldest settled block is the greeting, or the reply to the one command.
TakeReply ==
    /\ Calling /\ ~ more /\ replies # <<>>
    /\ IF call = "greeting"
       THEN state' = "ready" /\ UNCHANGED results
       ELSE /\ results' = [results EXCEPT ![command] = Head(replies)]
            /\ UNCHANGED state
    /\ replies' = Tail(replies)
    /\ call' = "none"
    /\ UNCHANGED <<tmux, written, read, codec, more, since, command, link, heard>>

\* Mutant: no check of the state.
AnyState == TRUE

IsReady == state = "ready"

\* `execute`, past its check of the state.
Executing ==
    /\ call = "none" /\ IsReady /\ command < MaxCommands
    /\ command' = command + 1

\* Mutant: a block left over is left where it is.
NoneLeft == TRUE

NothingLeft == replies = <<>>

Sends ==
    /\ Executing /\ NothingLeft /\ tmux.alive
    /\ tmux' = [tmux EXCEPT !.unanswered = Append(@, command + 1)]
    /\ call' = "executing" /\ since' = read
    /\ UNCHANGED <<written, read, codec, more, replies, state, link, heard, results>>

SendFails ==
    /\ Executing /\ NothingLeft /\ ~ tmux.alive
    /\ state' = ClosedBy("transport error")
    /\ results' = [results EXCEPT ![command + 1] = Failed]
    /\ UNCHANGED <<tmux, written, read, codec, more, replies, call, since, link, heard>>

FindsStray ==
    /\ Executing /\ ~ NothingLeft
    /\ state' = ClosedBy("protocol")
    /\ replies' = Tail(replies)
    /\ results' = [results EXCEPT ![command + 1] = Failed]
    /\ UNCHANGED <<tmux, written, read, codec, more, call, since, link, heard>>

\* `detach` of a child that is gone; of one that is not, it only writes.
DetachFails ==
    /\ call = "none" /\ ~ tmux.alive
    /\ state' = ClosedBy("transport error")
    /\ UNCHANGED <<tmux, written, read, codec, more, replies, call, since, command,
                   link, heard, results>>

Close ==
    /\ call = "none"
    /\ state' = ClosedBy("disposed")
    /\ tmux' = [tmux EXCEPT !.alive = FALSE]
    /\ UNCHANGED <<written, read, codec, more, replies, call, since, command, link,
                   heard, results>>

\* Mutant: the codec is kept across transports.
CodecKept == codec

NewCodec == Fresh

Reconnect ==
    /\ call = "none" /\ link < MaxTransports
    /\ tmux' = Attached /\ read' = Len(written)
    /\ codec' = NewCodec /\ more' = FALSE /\ replies' = <<>>
    /\ state' = "reconnecting" /\ call' = "greeting" /\ since' = Len(written)
    /\ link' = link + 1
    /\ UNCHANGED <<written, command, heard, results>>

TmuxStep == Greets \/ Answers \/ Notifies \/ Exits

ReadStep == ReadLine \/ ReadPart \/ ReadEof \/ ReadFails \/ TakeReply

ClientStep ==
    \/ ReadStep \/ Sends \/ SendFails \/ FindsStray \/ DetachFails \/ Close
    \/ Reconnect

Next == TmuxStep \/ ClientStep

Spec == Init /\ [][Next]_vars

\* A call in progress reads, and tmux greets and answers.
FairSpec ==
    /\ Spec
    /\ WF_vars(ReadLine \/ ReadPart \/ ReadEof \/ TakeReply)
    /\ WF_vars(Greets) /\ WF_vars(Answers)

-----------------------------------------------------------------------------
\* No line of output on this transport looked like the end of its block.
\* Control mode cannot tell such a line from the end: `lookalikes` shows what
\* comes of one.
Plain(l) == \A line \in Lines : line.link = l /\ line.is = "output" => ~ Closes(line)

InOrder(lines) == \A i, j \in DOMAIN lines : i < j => lines[i].at < lines[j].at

\* These are the lines of command n's output, all of them, in order.
AreOutputOf(lines, n) ==
    /\ InOrder(lines)
    /\ Range(lines) = {line \in Lines : line.is = "output" /\ line.of = n}

\* The block a command was answered with is its own, outcome and lines.
IsOwn(n) ==
    LET terminator == written[results[n].at]
    IN  Plain(terminator.link) =>
            /\ terminator.is = "frame" /\ terminator.of = n
            /\ results[n].how = terminator.looks
            /\ IF terminator.looks = "broken" THEN results[n].lines = <<>>
               ELSE AreOutputOf(results[n].lines, n)

\* A command is answered by its own block, whatever the chunks, the events
\* around it, the blocks that broke and the transports that died before it;
\* and look-alikes or not, what had been read when the call began is never
\* its reply: a block that answers nothing is found by the call after it.
OwnReply ==
    [][\A n \in Commands :
          results[n] # results'[n] /\ results'[n].is = "reply" =>
              results'[n].at > since /\ IsOwn(n)']_vars

\* The sinks have been given what tmux notified on this transport, all of
\* what was read, in order, once, and nothing else: output that looks like a
\* notification is output, and what followed a reply in its chunk is heard.
HeardRightly ==
    /\ InOrder(heard)
    /\ Plain(link) =>
          {line \in Range(heard) : line.link = link}
          = {line \in Lines : line.is = "event" /\ line.link = link /\ line.at <= read}

\* A call comes back: a terminator that does not parse, or a transport that
\* dies within a line, does not leave it waiting.
CallsReturn == Calling ~> ~ Calling

\* demux.rs: "the block that settles is always the reply to the oldest
\* unanswered command".
SettledIsOldest ==
    \A n \in 1..command : results[n].is = "reply" => written[results[n].at].of = n
=============================================================================
