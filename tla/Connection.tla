----------------------------- MODULE Connection -----------------------------
(***************************************************************************)
(* tmux-control/src/client/connection.rs: one control-mode connection.     *)
(* Four parties take interleaved steps: the tmux child, which emits        *)
(* messages on its output pipe and may exit; the reader thread, which      *)
(* routes them to the reply channel and the event sink; the caller's       *)
(* thread in open, execute or close; and another thread that may abort.    *)
(*                                                                         *)
(* A message is whole (the codec has decoded it, the demux has assembled   *)
(* its block) and is named by its position in `emitted`.  The sink is the  *)
(* caller's function and returns.  A reader that panics is left out.       *)
(***************************************************************************)
EXTENDS Integers, Sequences, FiniteSets

CONSTANTS
    MaxCommands,    \* bound: commands the caller executes
    MaxEvents,      \* bound: notifications tmux sends
    MaxStrays,      \* blocks tmux sends that answer no command
    ReadMayFail     \* whether read() on the pipe may return an error

ASSUME ConnectionAssumption ==
    /\ MaxCommands \in Nat /\ MaxEvents \in Nat /\ MaxStrays \in Nat
    /\ ReadMayFail \in BOOLEAN

VARIABLES
    child,      \* the tmux process, and how it ended
    unanswered, \* commands on its input pipe
    emitted,    \* everything it wrote, in order
    taken,      \* how much of that the reader has routed
    reader,     \* how far the reader thread has come
    end,        \* how it saw the read side end
    replies,    \* the reply channel
    seen,       \* the events the sink was given, by position in `emitted`
    told,       \* the reason in the Event::Closed the sink was given
    disposed,   \* the flag a local teardown sets
    abort,      \* how far another thread's abort has come
    caller,     \* how far the caller's call has come
    command,    \* the last command it was asked to execute
    since,      \* how much had been routed when that call began
    replyTo,    \* the block each command's call returned, 0 if none
    state       \* Connection::state

tmux == <<unanswered, emitted>>
routing == <<taken, reader, end, seen, told>>
calling == <<caller, command, since, replyTo>>
vars == <<child, tmux, routing, replies, disposed, abort, calling, state>>

Commands == 1..MaxCommands
Reasons == {"exit", "transport error", "protocol", "disposed"}
Messages == [is : {"greeting", "block"}, of : Commands \cup {0}]
                \cup [is : {"event"}, of : {0}]

\* What the channel carries: a settled block, or the reader's ending.
Replies == [at : Nat \ {0}, end : {"none"}] \cup [at : {0}, end : Reasons]
Settled(at) == [at |-> at, end |-> "none"]
Ended(reason) == [at |-> 0, end |-> reason]

TypeOK ==
    /\ child \in {"running", "exited", "killed"}
    /\ unanswered \in Seq(Commands) /\ emitted \in Seq(Messages)
    /\ taken \in 0..Len(emitted)
    /\ reader \in {"none", "reading", "ended", "classified", "reported", "done"}
    /\ end \in Reasons \cup {"none"}
    /\ replies \in Seq(Replies)
    /\ seen \in Seq(1..Len(emitted))
    /\ told \in Reasons \cup {"none"}
    /\ disposed \in BOOLEAN
    /\ abort \in {"none", "flagged", "done"}
    /\ caller \in {"greeting", "failed", "idle", "checking", "sending",
                   "awaiting", "refused", "draining", "drained", "dropping",
                   "joining", "closed"}
    /\ command \in 0..MaxCommands
    /\ since \in Nat
    /\ replyTo \in [Commands -> 0..Len(emitted)]
    /\ state \in {"ready"} \cup Reasons

Init ==
    /\ child = "running" /\ unanswered = <<>> /\ emitted = <<>>
    /\ taken = 0 /\ reader = "none" /\ end = "none"
    /\ replies = <<>> /\ seen = <<>> /\ told = "none"
    /\ disposed = FALSE /\ abort = "none"
    /\ caller = "greeting" /\ command = 0 /\ since = 0
    /\ replyTo = [n \in Commands |-> 0]
    /\ state = "ready"

-----------------------------------------------------------------------------
(***************************************************************************)
(* The tmux child.  Its first block is the greeting; then one block per    *)
(* command, in order, with notifications between blocks.                   *)
(***************************************************************************)
Emitted(is) == {p \in 1..Len(emitted) : emitted[p].is = is}
Strays == {p \in Emitted("block") : emitted[p].of = 0}
Greeted == Emitted("greeting") # {}

Emit(message) ==
    /\ child = "running"
    /\ emitted' = Append(emitted, message)
    /\ UNCHANGED <<child, routing, replies, disposed, abort, calling, state>>

SendGreeting ==
    /\ ~ Greeted
    /\ Emit([is |-> "greeting", of |-> 0])
    /\ UNCHANGED unanswered

Notify ==
    /\ Cardinality(Emitted("event")) < MaxEvents
    /\ Emit([is |-> "event", of |-> 0])
    /\ UNCHANGED unanswered

Answer ==
    /\ Greeted /\ unanswered # <<>>
    /\ Emit([is |-> "block", of |-> Head(unanswered)])
    /\ unanswered' = Tail(unanswered)

EmitStray ==
    /\ Greeted /\ Cardinality(Strays) < MaxStrays
    /\ Emit([is |-> "block", of |-> 0])
    /\ UNCHANGED unanswered

\* The server ends the client, or tmux exits or dies.
Exit ==
    /\ child = "running"
    /\ child' = "exited"
    /\ UNCHANGED <<tmux, routing, replies, disposed, abort, calling, state>>

-----------------------------------------------------------------------------
(***************************************************************************)
(* The reader thread: pump, read_routed and deliver.                       *)
(***************************************************************************)

\* Mutant: the greeting is routed like any other block.
SkipNothing(message) == FALSE

\* `greet` has already taken the greeting out of the stream.
IsGreeting(message) == message.is = "greeting"

Deliver ==
    /\ reader = "reading" /\ taken < Len(emitted)
    /\ LET message == emitted[taken + 1]
       IN  /\ replies' = IF message.is # "event" /\ ~ IsGreeting(message)
                         THEN Append(replies, Settled(taken + 1)) ELSE replies
           /\ seen' = IF message.is = "event"
                      THEN Append(seen, taken + 1) ELSE seen
    /\ taken' = taken + 1
    /\ UNCHANGED <<child, tmux, reader, end, told, disposed, abort, calling, state>>

\* read() returns nothing: the child is gone and its output is drained.
ReadEof ==
    /\ reader = "reading" /\ child # "running" /\ taken = Len(emitted)
    /\ reader' = "ended" /\ end' = "exit"
    /\ UNCHANGED <<child, tmux, taken, seen, told, replies, disposed, abort,
                   calling, state>>

ReadFails ==
    /\ reader = "reading" /\ ReadMayFail
    /\ reader' = "ended" /\ end' = "transport error"
    /\ UNCHANGED <<child, tmux, taken, seen, told, replies, disposed, abort,
                   calling, state>>

\* Mutant: what the pipe said is not carried over.
OnlyDisposed == IF disposed THEN "disposed" ELSE "none"

\* An ending this side asked for is `disposed`, whatever the pipe said.
Classified == IF disposed THEN "disposed" ELSE end

Classify ==
    /\ reader = "ended"
    /\ reader' = "classified"
    /\ end' = Classified
    /\ UNCHANGED <<child, tmux, taken, seen, told, replies, disposed, abort,
                   calling, state>>

\* Mutant: an ending this side asked for is not worth reporting.
ReportUnasked == end # "disposed"

IsReported == TRUE

Report ==
    /\ reader = "classified"
    /\ reader' = "reported"
    /\ replies' = IF IsReported THEN Append(replies, Ended(end)) ELSE replies
    /\ UNCHANGED <<child, tmux, taken, end, seen, told, disposed, abort,
                   calling, state>>

\* Mutant: the flag is looked at once more for the sink.
TellSinkAfresh ==
    /\ reader = "reported"
    /\ reader' = "done" /\ told' = IF disposed THEN "disposed" ELSE end
    /\ UNCHANGED <<child, tmux, taken, end, seen, replies, disposed, abort,
                   calling, state>>

\* The sink hears last, and the thread stops.
TellSink ==
    /\ reader = "reported"
    /\ reader' = "done" /\ told' = end
    /\ UNCHANGED <<child, tmux, taken, end, seen, replies, disposed, abort,
                   calling, state>>

-----------------------------------------------------------------------------
(***************************************************************************)
(* Abort::abort, on a thread of its own: the flag, then the kill.          *)
(***************************************************************************)
\* Mutant: the writer is dropped and the child lives on.
KillNothing == child' = child

Kill == child' = IF child = "running" THEN "killed" ELSE child

\* Mutant: the flag is forgotten.
LeaveFlag == disposed' = disposed

RaiseFlag == disposed' = TRUE

AbortFlags ==
    /\ abort = "none" /\ caller \notin {"greeting", "failed"}
    /\ abort' = "flagged" /\ RaiseFlag
    /\ UNCHANGED <<child, tmux, routing, replies, calling, state>>

AbortKills ==
    /\ abort = "flagged"
    /\ abort' = "done" /\ Kill
    /\ UNCHANGED <<tmux, routing, replies, disposed, calling, state>>

-----------------------------------------------------------------------------
(***************************************************************************)
(* The caller's thread.                                                    *)
(***************************************************************************)
\* ConnectionState::closed: the first close wins.
ClosedBy(reason) == IF state = "ready" THEN reason ELSE state

\* Mutant: what arrived ahead of the greeting is dropped.
FromGreeting == CHOOSE p \in Emitted("greeting") : TRUE

\* The reader starts with what was read ahead of and behind the greeting.
FromTheFirst == 0

\* `greet` finds the first block; only then do the thread and the sink exist.
\* A greeting may itself be an error, `no sessions` being one.
Greet ==
    /\ caller = "greeting" /\ Greeted
    /\ \/ /\ caller' = "idle" /\ reader' = "reading" /\ taken' = FromTheFirst
          /\ UNCHANGED child
       \/ /\ caller' = "failed" /\ Kill
          /\ UNCHANGED <<reader, taken>>
    /\ UNCHANGED <<tmux, end, seen, told, replies, disposed, abort, command,
                   since, replyTo, state>>

\* The link ends before its greeting.
GreetEnds ==
    /\ caller = "greeting"
    /\ child # "running" \/ ReadMayFail
    /\ caller' = "failed" /\ Kill
    /\ UNCHANGED <<tmux, routing, replies, disposed, abort, command, since,
                   replyTo, state>>

\* `execute` of a closed connection refuses and changes nothing.
Execute ==
    /\ caller = "idle" /\ state = "ready" /\ command < MaxCommands
    /\ caller' = "checking" /\ command' = command + 1 /\ since' = taken
    /\ UNCHANGED <<child, tmux, routing, replies, disposed, abort, replyTo, state>>

\* The oldest item on the channel, taken as an ending of the connection.
TakeEnding ==
    /\ replies # <<>>
    /\ state' = ClosedBy(IF Head(replies).at # 0 THEN "protocol"
                                                 ELSE Head(replies).end)
    /\ replies' = Tail(replies)
    /\ UNCHANGED <<child, tmux, routing, disposed, abort, command, since, replyTo>>

\* Mutant: a block nobody asked for is left for whoever asks next.
NoEndingYet == \A k \in DOMAIN replies : replies[k].at # 0

NothingWaits == replies = <<>>

\* `idle`.
CheckPasses ==
    /\ caller = "checking" /\ NothingWaits
    /\ caller' = "sending"
    /\ UNCHANGED <<child, tmux, routing, replies, disposed, abort, command,
                   since, replyTo, state>>

CheckFails ==
    /\ caller = "checking" /\ ~ NothingWaits
    /\ TakeEnding
    /\ caller' = "idle"

\* `send`.
Send ==
    /\ caller = "sending" /\ child = "running"
    /\ unanswered' = Append(unanswered, command)
    /\ caller' = "awaiting"
    /\ UNCHANGED <<child, emitted, routing, replies, disposed, abort, command,
                   since, replyTo, state>>

SendFails ==
    /\ caller = "sending" /\ child # "running"
    /\ caller' = "refused"
    /\ UNCHANGED <<child, tmux, routing, replies, disposed, abort, command,
                   since, replyTo, state>>

\* A failed write waits for the reader to say how the link ended.
LearnEnding ==
    /\ caller = "refused"
    /\ TakeEnding
    /\ caller' = "idle"

\* `next_reply`.
TakeReply ==
    /\ caller = "awaiting" /\ replies # <<>> /\ Head(replies).at # 0
    /\ replyTo' = [replyTo EXCEPT ![command] = Head(replies).at]
    /\ replies' = Tail(replies)
    /\ caller' = "idle"
    /\ UNCHANGED <<child, tmux, routing, disposed, abort, command, since, state>>

ReplyNeverComes ==
    /\ caller = "awaiting" /\ replies # <<>> /\ Head(replies).at = 0
    /\ TakeEnding
    /\ caller' = "idle"

\* `close`, which dropping the connection runs too.
Close ==
    /\ caller = "idle"
    /\ caller' = "draining"
    /\ UNCHANGED <<child, tmux, routing, replies, disposed, abort, command,
                   since, replyTo, state>>

Drain ==
    /\ caller = "draining"
    /\ TakeEnding
    /\ UNCHANGED caller

\* What is put on the channel after this nobody takes.
DrainEnds ==
    /\ caller = "draining" /\ replies = <<>>
    /\ caller' = "drained"
    /\ UNCHANGED <<child, tmux, routing, replies, disposed, abort, command,
                   since, replyTo, state>>

Dispose ==
    /\ caller = "drained"
    /\ RaiseFlag
    /\ caller' = "dropping"
    /\ UNCHANGED <<child, tmux, routing, replies, abort, command, since,
                   replyTo, state>>

\* Dropping the ChildWriter kills and reaps the child.
DropCommands ==
    /\ caller = "dropping" /\ Kill
    /\ caller' = "joining"
    /\ UNCHANGED <<tmux, routing, replies, disposed, abort, command, since,
                   replyTo, state>>

Join ==
    /\ caller = "joining" /\ reader = "done"
    /\ caller' = "closed"
    /\ state' = ClosedBy("disposed")
    /\ UNCHANGED <<child, tmux, routing, replies, disposed, abort, command,
                   since, replyTo>>

-----------------------------------------------------------------------------
TmuxStep == SendGreeting \/ Notify \/ Answer \/ EmitStray \/ Exit

ReaderStep ==
    Deliver \/ ReadEof \/ ReadFails \/ Classify \/ Report \/ TellSink

CallStep ==
    \/ Greet \/ GreetEnds \/ CheckPasses \/ CheckFails \/ Send \/ SendFails
    \/ LearnEnding \/ TakeReply \/ ReplyNeverComes
    \/ Drain \/ DrainEnds \/ Dispose \/ DropCommands \/ Join

Next ==
    TmuxStep \/ ReaderStep \/ CallStep \/ Execute \/ Close \/ AbortFlags \/ AbortKills

Spec == Init /\ [][Next]_vars

\* Threads run; tmux owes nothing, and nobody has to call, close or abort.
FairSpec ==
    /\ Spec
    /\ WF_vars(Deliver \/ ReadEof \/ Classify \/ Report \/ TellSink)
    /\ WF_vars(CallStep)
    /\ WF_vars(AbortKills)

-----------------------------------------------------------------------------
(***************************************************************************)
(* Properties.                                                             *)
(***************************************************************************)

\* With tmux keeping to one block per command, `execute` returns the block
\* that answers its own command, whatever arrived around it and however the
\* calls before it ended: correlation by position never slips.  And even
\* when tmux breaks that rule, a block routed before a call began is never
\* taken for that call's reply: `idle` finds it first.
OwnReply ==
    /\ Strays = {} => \A n \in Commands :
          replyTo[n] # 0 => emitted[replyTo[n]] = [is |-> "block", of |-> n]
    /\ caller = "idle" /\ command # 0 => replyTo[command] \notin 1..since

\* By the time a caller holds a reply, its sink has been given every event
\* tmux sent ahead of it, those around the greeting included, in order.
EventsComeAhead ==
    \A n \in Commands : \A p \in Emitted("event") :
        p < replyTo[n] => \E i \in DOMAIN seen :
            /\ seen[i] = p
            /\ \A j \in 1..(i - 1) : seen[j] < p

\* An ending this side caused is never passed off as tmux leaving: whoever
\* kills the child has raised the flag first.
KilledIsDisposed ==
    told = "exit" \/ state = "exit" => child = "exited"

\* What the connection says of its ending is what its sink was told.  The
\* exceptions: the caller itself found a stray block, or called `close`.
EndingsAgree ==
    told # "none" /\ state \notin {"ready", "protocol"}
        => state = told \/ (state = "disposed" /\ caller = "closed")

\* A call under way when the link ends, or whose link an abort ends, returns.
CallsReturn ==
    caller \in {"checking", "sending", "awaiting", "refused"}
            /\ (child # "running" \/ abort # "none")
        ~> caller = "idle"

\* `close` joins the reader and is never left waiting for it.
ClosesReturn == caller = "draining" ~> caller = "closed"
=============================================================================
