-------------------------- MODULE ConnectionProofs --------------------------
(***************************************************************************)
(* Proofs about Connection for every number of commands, notifications and *)
(* stray blocks: its inductive invariants, and the four safety properties  *)
(* they give.                                                              *)
(***************************************************************************)
EXTENDS Connection, SequenceTheorems, TLAPS

InCall == {"checking", "sending", "awaiting", "refused"}
Teardown == {"dropping", "joining", "closed"}

\* What keeps the types.  A reader that has stopped reading has an ending to
\* put on the channel, a call that sends has a command to send, and every
\* block on the channel, which may become a reply, has been emitted.
TypeInv ==
    /\ TypeOK
    /\ reader \notin {"none", "reading"} => end # "none"
    /\ caller \in InCall => command # 0
    /\ \A k \in DOMAIN replies : replies[k].at \in 0..Len(emitted)

\* Who may be where: the reader runs from the greeting on, the flag is raised
\* by an abort or by close, and a call is only ever under way while ready.
Stages ==
    /\ reader = "none" <=> caller \in {"greeting", "failed"}
    /\ disposed <=> abort # "none" \/ caller \in Teardown
    /\ reader = "none" => abort = "none" /\ taken = 0 /\ replies = <<>>
    /\ caller \in InCall \cup {"greeting", "failed"} => state = "ready"

\* How the ending travels from the pipe to the sink, the channel and the state.
EndingInv ==
    /\ Stages
    /\ child = "killed" => disposed \/ caller = "failed"
    /\ reader \in {"none", "reading"} => end = "none"
    /\ reader = "ended" => end \in {"exit", "transport error"}
    /\ reader = "ended" /\ end = "exit" => child # "running"
    /\ reader \in {"classified", "reported", "done"} /\ end = "exit"
         => child = "exited"
    /\ told = IF reader = "done" THEN end ELSE "none"
    /\ \A k \in DOMAIN replies : replies[k].at = 0
         => reader \in {"reported", "done"} /\ replies[k].end = end
    /\ state \notin {"ready", "protocol"}
         => \/ reader \in {"reported", "done"} /\ state = end
            \/ state = "disposed" /\ caller = "closed"

\* What has been routed: every event to the sink, in order; every block to the
\* channel, in order; and no call holds a block that has not been.
RoutedInv ==
    /\ \A i \in DOMAIN seen : seen[i] <= taken
    /\ \A i, j \in DOMAIN seen : j < i => seen[j] < seen[i]
    /\ \A k \in DOMAIN replies : replies[k].at <= taken
    /\ \A p \in Emitted("event") : p <= taken => \E i \in DOMAIN seen : seen[i] = p
    /\ \A j, k \in DOMAIN replies :
         j < k /\ replies[j].at # 0 /\ replies[k].at # 0
           => replies[j].at < replies[k].at
    /\ \A k \in DOMAIN replies :
         replies[k].at # 0 => emitted[replies[k].at].is = "block"
    /\ \A n \in Commands : replyTo[n] <= taken

\* What a call may take was routed after it began.
SinceInv ==
    /\ since <= taken
    /\ \A n \in Commands : n > command \/ (n = command /\ caller \in InCall)
         => replyTo[n] = 0
    /\ caller \in {"sending", "awaiting"} =>
         \A k \in DOMAIN replies : replies[k].at # 0 => replies[k].at > since
    /\ caller \in {"greeting", "failed"} => command = 0
    /\ caller = "idle" /\ command # 0 => replyTo[command] \notin 1..since

\* The blocks that a call may still take.
Pending ==
    {p \in Emitted("block") :
        p > taken \/ \E k \in DOMAIN replies : replies[k].at = p}

\* At most one command is outstanding, and it is the current one.
Calling ==
    IF caller # "awaiting" THEN unanswered = <<>> /\ Pending = {}
    ELSE \/ unanswered = <<command>> /\ Pending = {}
         \/ unanswered = <<>> /\ \E p \in Pending :
               /\ Pending = {p}
               /\ emitted[p] = [is |-> "block", of |-> command]

OutstandingInv ==
    Strays = {} =>
        /\ state = "ready" /\ caller \in InCall \cup {"greeting", "failed", "idle"}
             => Calling
        /\ \A n \in Commands :
             replyTo[n] # 0 => emitted[replyTo[n]] = [is |-> "block", of |-> n]

-----------------------------------------------------------------------------
\* A message emitted leaves every earlier position as it was.
LEMMA EmitFacts ==
    ASSUME TypeOK, NEW message \in Messages, Emit(message)
    PROVE  /\ emitted' \in Seq(Messages)
           /\ Len(emitted') = Len(emitted) + 1
           /\ \A p \in 1..Len(emitted) : emitted'[p] = emitted[p]
           /\ emitted'[Len(emitted) + 1] = message
  <1>1. emitted \in Seq(Messages)
    BY DEF TypeOK
  <1>2. emitted' = Append(emitted, message)
    BY DEF Emit
  <1> QED
    BY <1>1, <1>2, AppendProperties

\* So it preserves every type.
LEMMA EmitType ==
    ASSUME TypeOK, NEW message \in Messages, Emit(message),
           unanswered' \in Seq(Commands)
    PROVE  TypeOK'
  <1>1. seen' \in Seq(1..Len(emitted'))
    BY EmitFacts DEF TypeOK, Emit, routing
  <1>2. replyTo' \in [Commands -> 0..Len(emitted')]
    BY EmitFacts DEF TypeOK, Emit, calling
  <1>3. taken' \in 0..Len(emitted')
    BY EmitFacts DEF TypeOK, Emit, routing
  <1> QED
    BY <1>1, <1>2, <1>3, EmitFacts DEF TypeOK, Emit, routing, calling

\* What the first item of the channel is, and what is left behind it.
LEMMA FirstReply ==
    ASSUME TypeOK, replies # <<>>
    PROVE  /\ Head(replies) \in Replies
           /\ Head(replies) = replies[1] /\ 1 \in DOMAIN replies
           /\ Tail(replies) \in Seq(Replies)
           /\ DOMAIN Tail(replies) = 1..(Len(replies) - 1)
           /\ \A k \in DOMAIN Tail(replies) :
                 k + 1 \in DOMAIN replies /\ Tail(replies)[k] = replies[k + 1]
  <1>1. replies \in Seq(Replies)
    BY DEF TypeOK
  <1>2. Len(replies) \in Nat \ {0} /\ DOMAIN replies = 1..Len(replies)
    BY <1>1, EmptySeq, LenProperties
  <1>3. replies[1] \in Replies
    BY <1>1, <1>2, ElementOfSeq
  <1> QED
    BY <1>1, <1>2, <1>3, HeadTailProperties

\* What the channel holds once one more item is put on it.
LEMMA LastReply ==
    ASSUME TypeOK, NEW reply \in Replies, replies' = Append(replies, reply)
    PROVE  /\ replies' \in Seq(Replies)
           /\ Len(replies) \in Nat /\ DOMAIN replies = 1..Len(replies)
           /\ DOMAIN replies' = 1..(Len(replies) + 1)
           /\ \A k \in DOMAIN replies : replies'[k] = replies[k]
           /\ replies'[Len(replies) + 1] = reply
  <1>1. replies \in Seq(Replies)
    BY DEF TypeOK
  <1>2. Len(replies) \in Nat /\ DOMAIN replies = 1..Len(replies)
    BY <1>1, LenProperties
  <1>3. /\ replies' \in Seq(Replies)
        /\ Len(replies') = Len(replies) + 1
    BY <1>1, AppendProperties
  <1>4. DOMAIN replies' = 1..Len(replies')
    BY <1>3, LenProperties
  <1> QED
    BY <1>1, <1>2, <1>3, <1>4, AppendProperties

\* What the reader puts on the channel is an item it may carry.
LEMMA NextDelivered ==
    ASSUME TypeInv
    PROVE  /\ Len(emitted) \in Nat /\ taken \in Nat /\ taken <= Len(emitted)
           /\ Settled(taken + 1) \in Replies
           /\ Settled(taken + 1).at = taken + 1 /\ Settled(taken + 1).at # 0
  <1>1. Len(emitted) \in Nat /\ taken \in 0..Len(emitted)
    BY LenProperties DEF TypeInv, TypeOK
  <1> QED
    BY <1>1 DEF Settled, Replies

\* Taking the oldest item as an ending preserves the types.
LEMMA TakeEndingType ==
    ASSUME TypeInv, TakeEnding, caller' \in {"idle", "draining"}
    PROVE  TypeInv'
  <1>1. Head(replies) \in Replies
    BY FirstReply DEF TakeEnding, TypeInv
  <1>2. Head(replies).at # 0 \/ Head(replies).end \in Reasons
    BY <1>1 DEF Replies
  <1>3. state' \in {"ready"} \cup Reasons
    BY <1>2 DEF TakeEnding, ClosedBy, TypeInv, TypeOK, Reasons
  <1>4. /\ replies' \in Seq(Replies)
        /\ \A k \in DOMAIN replies' : replies'[k].at \in 0..Len(emitted)
    BY FirstReply DEF TakeEnding, TypeInv
  <1>5. UNCHANGED <<child, tmux, routing, disposed, abort, command, since,
                    replyTo>>
    BY DEF TakeEnding
  <1> QED
    BY <1>3, <1>4, <1>5 DEF TypeInv, TypeOK, tmux, routing, InCall

\* The steps of tmux preserve the types.
LEMMA TmuxTypes ==
    ASSUME TypeInv, TmuxStep
    PROVE  TypeInv'
  <1>0. ASSUME NEW message \in Messages, Emit(message),
               unanswered' \in Seq(Commands)
        PROVE  TypeInv'
    <2>1. TypeOK' /\ Len(emitted') = Len(emitted) + 1 /\ Len(emitted) \in Nat
      BY <1>0, EmitType, EmitFacts, LenProperties DEF TypeInv, TypeOK
    <2>2. \A k \in DOMAIN replies : replies[k].at \in 0..Len(emitted')
      BY <2>1 DEF TypeInv
    <2> QED
      BY <1>0, <2>1, <2>2 DEF TypeInv, Emit, routing, calling
  <1>1. CASE SendGreeting \/ Notify \/ EmitStray
    <2>1. PICK message \in Messages : Emit(message) /\ UNCHANGED unanswered
      BY <1>1 DEF SendGreeting, Notify, EmitStray, Messages
    <2> QED
      BY <1>0, <2>1 DEF TypeInv, TypeOK
  <1>2. CASE Answer
    <2> DEFINE message == [is |-> "block", of |-> Head(unanswered)]
    <2>1. /\ Head(unanswered) \in Commands
          /\ unanswered' \in Seq(Commands)
      BY <1>2, HeadTailProperties DEF Answer, TypeInv, TypeOK
    <2>2. message \in Messages /\ Emit(message)
      BY <1>2, <2>1 DEF Answer, Messages
    <2> QED
      BY <1>0, <2>1, <2>2
  <1>3. CASE Exit
    BY <1>3 DEF Exit, TypeInv, TypeOK, tmux, routing, calling
  <1> QED
    BY <1>1, <1>2, <1>3 DEF TmuxStep

\* The steps of the reader preserve the types.
LEMMA ReaderTypes ==
    ASSUME TypeInv, ReaderStep
    PROVE  TypeInv'
  <1> USE DEF TypeInv, TypeOK, tmux, calling
  <1>1. CASE Deliver
    <2>1. taken + 1 \in 1..Len(emitted) /\ Len(emitted) \in Nat
      BY <1>1, LenProperties DEF Deliver
    <2>2. Settled(taken + 1) \in Replies
      BY <2>1 DEF Settled, Replies
    <2>3. replies' \in Seq(Replies)
      BY <1>1, <2>2, AppendProperties DEF Deliver
    <2>4. seen' \in Seq(1..Len(emitted))
      BY <1>1, <2>1, AppendProperties DEF Deliver
    <2>5. \A k \in DOMAIN replies' : replies'[k].at \in 0..Len(emitted)
      BY <1>1, <2>1, <2>2, LastReply DEF Deliver, Settled
    <2> QED
      BY <1>1, <2>1, <2>3, <2>4, <2>5 DEF Deliver
  <1>2. CASE ReadEof \/ ReadFails \/ Classify
    <2>1. end' \in Reasons
      BY <1>2 DEF ReadEof, ReadFails, Classify, Classified, Reasons
    <2>2. "none" \notin Reasons
      BY DEF Reasons
    <2>3. /\ reader' \in {"ended", "classified"}
          /\ UNCHANGED <<child, tmux, taken, seen, told, replies, disposed, abort,
                         calling, state>>
      <3> HIDE DEF TypeInv
      <3> QED
        BY <1>2 DEF ReadEof, ReadFails, Classify
    <2> QED
      BY <2>1, <2>2, <2>3
  <1>3. CASE Report
    <2>1. Ended(end) \in Replies
      BY <1>3 DEF Report, Ended, Replies
    <2>2. /\ replies' \in Seq(Replies)
          /\ \A k \in DOMAIN replies' : replies'[k].at \in 0..Len(emitted)
      BY <1>3, <2>1, LastReply, LenProperties DEF Report, IsReported, Ended
    <2> QED
      BY <1>3, <2>2 DEF Report
  <1>4. CASE TellSink
    BY <1>4 DEF TellSink
  <1> QED
    BY <1>1, <1>2, <1>3, <1>4 DEF ReaderStep

\* The steps of a call that is under way preserve the types.
LEMMA CallTypes ==
    ASSUME TypeInv, CallStep
    PROVE  TypeInv'
  <1> USE DEF TypeInv, TypeOK, InCall, tmux, routing
  <1>1. CASE Greet \/ GreetEnds
    <2>1. taken' \in 0..Len(emitted)
      BY <1>1, LenProperties DEF Greet, GreetEnds, FromTheFirst
    <2> QED
      BY <1>1, <2>1 DEF Greet, GreetEnds, Kill
  <1>2. CASE CheckPasses \/ SendFails \/ DrainEnds \/ Dispose
    BY <1>2 DEF CheckPasses, SendFails, DrainEnds, Dispose, RaiseFlag
  <1>3. CASE CheckFails \/ LearnEnding \/ ReplyNeverComes \/ Drain
    <2>1. TakeEnding /\ caller' \in {"idle", "draining"}
      BY <1>3 DEF CheckFails, LearnEnding, ReplyNeverComes, Drain
    <2> QED
      BY <2>1, TakeEndingType
  <1>4. CASE Send
    <2>1. command \in Commands
      BY <1>4, ConnectionAssumption DEF Send, Commands
    <2>2. unanswered' \in Seq(Commands)
      BY <1>4, <2>1, AppendProperties DEF Send
    <2> QED
      BY <1>4, <2>2 DEF Send
  <1>5. CASE TakeReply
    <2>1. Head(replies).at \in 0..Len(emitted)
      BY <1>5, FirstReply DEF TakeReply
    <2>2. /\ replies' \in Seq(Replies)
          /\ \A k \in DOMAIN replies' : replies'[k].at \in 0..Len(emitted)
      <3>1. replies # <<>> /\ replies' = Tail(replies)
        BY <1>5 DEF TakeReply
      <3>2. /\ Tail(replies) \in Seq(Replies)
            /\ \A k \in DOMAIN Tail(replies) :
                  k + 1 \in DOMAIN replies /\ Tail(replies)[k] = replies[k + 1]
        BY <3>1, FirstReply
      <3>3. ASSUME NEW k \in DOMAIN Tail(replies)
            PROVE  Tail(replies)[k].at \in 0..Len(emitted)
        <4>1. k + 1 \in DOMAIN replies /\ Tail(replies)[k] = replies[k + 1]
          BY <3>2
        <4>2. replies[k + 1].at \in 0..Len(emitted)
          BY <4>1
        <4> QED
          BY <4>1, <4>2
      <3> QED
        BY <3>1, <3>2, <3>3
    <2>3. replyTo' \in [Commands -> 0..Len(emitted)]
      BY <1>5, <2>1 DEF TakeReply
    <2> HIDE DEF TypeInv, TypeOK
    <2>4. /\ caller' = "idle"
          /\ UNCHANGED <<child, tmux, routing, disposed, abort, command, since, state>>
      BY <1>5 DEF TakeReply
    <2> QED
      BY <2>2, <2>3, <2>4 DEF TypeInv, TypeOK
  <1>6. CASE DropCommands
    BY <1>6 DEF DropCommands, Kill
  <1>7. CASE Join
    <2>1. state' \in {"ready"} \cup Reasons
      BY <1>7 DEF Join, ClosedBy, Reasons
    <2> QED
      BY <1>7, <2>1 DEF Join
  <1> QED
    BY <1>1, <1>2, <1>3, <1>4, <1>5, <1>6, <1>7 DEF CallStep
\* So do the steps that begin a call, a close or an abort.
LEMMA OtherTypes ==
    ASSUME TypeInv, Execute \/ Close \/ AbortFlags \/ AbortKills
    PROVE  TypeInv'
  <1> USE DEF TypeInv, TypeOK, InCall, tmux, routing, calling
  <1>1. CASE Execute
    <2>1. command' \in 1..MaxCommands /\ since' \in Nat
      BY <1>1, LenProperties, ConnectionAssumption DEF Execute
    <2> QED
      BY <1>1, <2>1 DEF Execute
  <1>2. CASE Close
    BY <1>2 DEF Close
  <1>3. CASE AbortFlags
    BY <1>3 DEF AbortFlags, RaiseFlag
  <1>4. CASE AbortKills
    BY <1>4 DEF AbortKills, Kill
  <1> QED
    BY <1>1, <1>2, <1>3, <1>4

\* Every variable of a connection keeps its type: what is on the channel, given
\* to the sink or returned to a caller is a message tmux has emitted.
THEOREM TypesAreKept == Spec => []TypeInv
  <1>1. Init => TypeInv
    <2> SUFFICES ASSUME Init
                 PROVE  TypeInv
      OBVIOUS
    <2> USE DEF Init
    <2>1. /\ unanswered \in Seq(Commands) /\ emitted \in Seq(Messages)
          /\ replies \in Seq(Replies) /\ seen \in Seq(1..Len(emitted))
          /\ Len(emitted) = 0 /\ DOMAIN replies = {}
      BY EmptySeq
    <2>2. command \in 0..MaxCommands /\ since \in Nat /\ taken \in 0..Len(emitted)
      BY <2>1, ConnectionAssumption
    <2>3. replyTo \in [Commands -> 0..Len(emitted)]
      BY <2>1
    <2> QED
      BY <2>1, <2>2, <2>3 DEF TypeInv, TypeOK, InCall
  <1>2. TypeInv /\ [Next]_vars => TypeInv'
    <2> SUFFICES ASSUME TypeInv, [Next]_vars
                 PROVE  TypeInv'
      OBVIOUS
    <2>1. CASE UNCHANGED vars
      BY <2>1 DEF vars, TypeInv, TypeOK, tmux, routing, calling
    <2> QED
      BY <2>1, TmuxTypes, ReaderTypes, CallTypes, OtherTypes DEF Next
  <1> QED
    BY <1>1, <1>2, PTL DEF Spec

\* So the type invariant the runs check holds of every instance.
THEOREM TypeCorrect == Spec => []TypeOK
  <1>1. TypeInv => TypeOK
    BY DEF TypeInv
  <1> QED
    BY <1>1, TypesAreKept, PTL

-----------------------------------------------------------------------------
\* Taking the oldest item as an ending leaves the ending's course intact.
LEMMA TakeEndingKeepsEnding ==
    ASSUME TypeInv, EndingInv, TakeEnding,
           \/ caller \in InCall /\ caller' = "idle"
           \/ caller = "draining" /\ UNCHANGED caller
    PROVE  EndingInv'
  <1>1. /\ Head(replies) = replies[1] /\ 1 \in DOMAIN replies
        /\ \A k \in DOMAIN replies' :
              k + 1 \in DOMAIN replies /\ replies'[k] = replies[k + 1]
    BY FirstReply DEF TakeEnding, TypeInv
  <1>2. Head(replies).at = 0
          => reader \in {"reported", "done"} /\ Head(replies).end = end
    BY <1>1 DEF EndingInv
  <1>3. state' \notin {"ready", "protocol"}
          => \/ reader \in {"reported", "done"} /\ state' = end
             \/ state' = "disposed" /\ caller = "closed"
    BY <1>2 DEF TakeEnding, ClosedBy, EndingInv
  <1>4. \A k \in DOMAIN replies' : replies'[k].at = 0
          => reader \in {"reported", "done"} /\ replies'[k].end = end
    BY <1>1 DEF EndingInv
  <1>5. reader = "none" <=> caller' \in {"greeting", "failed"}
    BY DEF EndingInv, Stages, InCall
  <1>6. UNCHANGED <<child, reader, taken, end, told, disposed, abort>>
    BY DEF TakeEnding, routing
  <1>7. caller' \in {"idle", "draining"} /\ caller # "closed" /\ caller \notin Teardown
    BY DEF InCall, Teardown
  <1> QED
    BY <1>1, <1>3, <1>4, <1>5, <1>6, <1>7 DEF EndingInv, Stages, InCall, Teardown

\* No step disturbs the course of the ending.
LEMMA EndingStep ==
    ASSUME TypeInv, EndingInv, Next
    PROVE  EndingInv'
  <1> USE DEF EndingInv, Stages, InCall, Teardown, tmux, routing, calling
  <1>1. CASE TmuxStep
    <2>1. child' \in {child, "exited"} /\ (child # "running" => child' = child)
      BY <1>1 DEF TmuxStep, SendGreeting, Notify, Answer, EmitStray, Exit, Emit
    <2>2. UNCHANGED <<routing, replies, disposed, abort, calling, state>>
      BY <1>1 DEF TmuxStep, SendGreeting, Notify, Answer, EmitStray, Exit, Emit
    <2> QED
      BY <2>1, <2>2
  <1>2. CASE Deliver
    <2>1. \A k \in DOMAIN replies' : replies'[k].at = 0
            => k \in DOMAIN replies /\ replies'[k] = replies[k]
      <3> HIDE DEF EndingInv, Stages
      <3>1. Settled(taken + 1) \in Replies /\ Settled(taken + 1).at # 0
        BY NextDelivered
      <3>2. CASE replies' = Append(replies, Settled(taken + 1))
        BY <3>1, <3>2, LastReply DEF TypeInv
      <3> QED
        BY <1>2, <3>2 DEF Deliver
    <2> QED
      BY <1>2, <2>1 DEF Deliver
  <1>3. CASE ReadEof
    BY <1>3 DEF ReadEof
  <1>4. CASE ReadFails
    BY <1>4 DEF ReadFails
  <1>5. CASE Classify
    <2>1. child \in {"running", "exited", "killed"}
      BY DEF TypeInv, TypeOK
    <2> QED
      BY <1>5, <2>1 DEF Classify, Classified
  <1>6. CASE Report
    <2>1. Ended(end) \in Replies
      BY <1>6 DEF Report, Ended, Replies, TypeInv, TypeOK
    <2>2. \A k \in DOMAIN replies' : replies'[k].at = 0 => replies'[k].end = end
      BY <1>6, <2>1, LastReply DEF Report, IsReported, Ended, TypeInv
    <2> QED
      BY <1>6, <2>2 DEF Report
  <1>7. CASE TellSink
    BY <1>7 DEF TellSink
  <1>8. CASE Greet
    BY <1>8 DEF Greet, Kill, FromTheFirst
  <1>9. CASE GreetEnds
    BY <1>9 DEF GreetEnds, Kill
  <1>10. CASE CheckPasses
    BY <1>10 DEF CheckPasses
  <1>11. CASE Send
    BY <1>11 DEF Send
  <1>12. CASE SendFails
    BY <1>12 DEF SendFails
  <1>13. CASE CheckFails \/ LearnEnding \/ ReplyNeverComes \/ Drain
    BY <1>13, TakeEndingKeepsEnding
    DEF CheckFails, LearnEnding, ReplyNeverComes, Drain
  <1>14. CASE TakeReply
    <2>1. \A k \in DOMAIN replies' :
             k + 1 \in DOMAIN replies /\ replies'[k] = replies[k + 1]
      BY <1>14, FirstReply DEF TakeReply, TypeInv
    <2> QED
      BY <1>14, <2>1 DEF TakeReply
  <1>15. CASE DrainEnds
    BY <1>15 DEF DrainEnds
  <1>16. CASE Dispose
    BY <1>16 DEF Dispose, RaiseFlag
  <1>17. CASE DropCommands
    BY <1>17 DEF DropCommands, Kill
  <1>18. CASE Join
    BY <1>18 DEF Join, ClosedBy
  <1>19. CASE Execute
    BY <1>19 DEF Execute
  <1>20. CASE Close
    BY <1>20 DEF Close
  <1>21. CASE AbortFlags
    BY <1>21 DEF AbortFlags, RaiseFlag
  <1>22. CASE AbortKills
    BY <1>22 DEF AbortKills, Kill
  <1> QED
    BY <1>1, <1>2, <1>3, <1>4, <1>5, <1>6, <1>7, <1>8, <1>9, <1>10, <1>11,
       <1>12, <1>13, <1>14, <1>15, <1>16, <1>17, <1>18, <1>19, <1>20, <1>21,
       <1>22 DEF Next, ReaderStep, CallStep

\* The ending reaches the sink, the channel and the state as the reader
\* classified it.
THEOREM EndingIsKept == Spec => []EndingInv
  <1>1. Init => EndingInv
    BY DEF Init, EndingInv, Stages, InCall, Teardown
  <1>2. TypeInv /\ EndingInv /\ [Next]_vars => EndingInv'
    <2>1. ASSUME EndingInv, UNCHANGED vars
          PROVE  EndingInv'
      BY <2>1 DEF vars, tmux, routing, calling, EndingInv, Stages
    <2> QED
      BY <2>1, EndingStep
  <1> QED
    BY <1>1, <1>2, TypesAreKept, PTL DEF Spec

\* Whoever kills the child has raised the flag first, so an ending that sink or
\* caller takes for tmux leaving is tmux leaving.
THEOREM KilledIsAlwaysDisposed == Spec => []KilledIsDisposed
  <1>1. EndingInv => KilledIsDisposed
    BY DEF EndingInv, KilledIsDisposed
  <1> QED
    BY <1>1, EndingIsKept, PTL

\* The connection ends as its sink was told it did, but for a stray block the
\* caller itself found, and for a `close` that had drained the channel before
\* the reader reported: then the state is Disposed whatever the sink heard.
THEOREM EndingsAlwaysAgree == Spec => []EndingsAgree
  <1>1. EndingInv => EndingsAgree
    BY DEF EndingInv, EndingsAgree
  <1> QED
    BY <1>1, EndingIsKept, PTL

-----------------------------------------------------------------------------
\* What the sink has been given once one more event is handed to it.
LEMMA LastSeen ==
    ASSUME TypeInv, NEW at \in 1..Len(emitted), seen' = Append(seen, at)
    PROVE  /\ Len(seen) \in Nat /\ DOMAIN seen = 1..Len(seen)
           /\ DOMAIN seen' = 1..(Len(seen) + 1)
           /\ \A i \in DOMAIN seen : seen'[i] = seen[i]
           /\ seen'[Len(seen) + 1] = at
           /\ \A i \in DOMAIN seen : seen[i] \in Nat
  <1>1. seen \in Seq(1..Len(emitted))
    BY DEF TypeInv, TypeOK
  <1>2. /\ Len(seen) \in Nat /\ DOMAIN seen = 1..Len(seen)
        /\ seen \in [1..Len(seen) -> 1..Len(emitted)]
    BY <1>1, LenProperties
  <1>3. /\ seen' \in Seq(1..Len(emitted))
        /\ Len(seen') = Len(seen) + 1
    BY <1>1, AppendProperties
  <1>4. DOMAIN seen' = 1..Len(seen')
    BY <1>3, LenProperties
  <1> QED
    BY <1>1, <1>2, <1>3, <1>4, AppendProperties

\* Every item on the channel names a position, and every reply does.
LEMMA Positions ==
    ASSUME TypeInv
    PROVE  /\ DOMAIN replies = 1..Len(replies) /\ Len(replies) \in Nat
           /\ \A k \in DOMAIN replies : replies[k] \in Replies
           /\ \A k \in DOMAIN replies : replies[k].at \in Nat
           /\ \A n \in Commands : replyTo[n] \in Nat
           /\ since \in Nat
  <1>1. replies \in Seq(Replies)
    BY DEF TypeInv, TypeOK
  <1>2. \A k \in DOMAIN replies : replies[k] \in Replies
    BY <1>1, LenProperties, ElementOfSeq
  <1>3. \A k \in DOMAIN replies : replies[k].at \in Nat
    BY <1>2 DEF Replies
  <1>4. \A n \in Commands : replyTo[n] \in Nat
    BY NextDelivered DEF TypeInv, TypeOK
  <1> QED
    BY <1>1, <1>2, <1>3, <1>4, LenProperties DEF TypeInv, TypeOK

\* A message emitted is routed later.
LEMMA EmitKeepsRouted ==
    ASSUME TypeInv, RoutedInv, NEW message \in Messages, Emit(message)
    PROVE  RoutedInv'
  <1>1. /\ UNCHANGED <<taken, seen, replies, replyTo>>
        /\ \A p \in 1..Len(emitted) : emitted'[p] = emitted[p]
        /\ Len(emitted') = Len(emitted) + 1
    BY EmitFacts DEF Emit, routing, calling, TypeInv
  <1>2. \A p \in Emitted("event")' : p <= taken => p \in Emitted("event")
    BY <1>1, NextDelivered DEF Emitted
  <1>3. \A k \in DOMAIN replies :
           replies[k].at # 0 => emitted'[replies[k].at] = emitted[replies[k].at]
    BY <1>1, NextDelivered DEF TypeInv
  <1> QED
    BY <1>1, <1>2, <1>3 DEF RoutedInv

\* A message routed goes to the end of the channel or of what the sink has seen.
LEMMA DeliverKeepsRouted ==
    ASSUME TypeInv, RoutedInv, Deliver
    PROVE  RoutedInv'
  <1>1. /\ taken' = taken + 1 /\ taken + 1 \in 1..Len(emitted)
        /\ UNCHANGED <<emitted, replyTo>>
    BY NextDelivered DEF Deliver, tmux, calling
  <1>2. /\ \A i \in DOMAIN seen' : seen'[i] <= taken'
        /\ \A i, j \in DOMAIN seen' : j < i => seen'[j] < seen'[i]
        /\ \A p \in Emitted("event")' : p <= taken'
              => \E i \in DOMAIN seen' : seen'[i] = p
    <2>1. CASE emitted[taken + 1].is = "event"
      <3>1. seen' = Append(seen, taken + 1)
        BY <2>1 DEF Deliver
      <3>2. /\ Len(seen) \in Nat /\ DOMAIN seen = 1..Len(seen)
            /\ DOMAIN seen' = 1..(Len(seen) + 1)
            /\ \A i \in DOMAIN seen : seen'[i] = seen[i]
            /\ seen'[Len(seen) + 1] = taken + 1
            /\ \A i \in DOMAIN seen : seen[i] \in Nat
        BY <1>1, <3>1, LastSeen
      <3>3. \A i \in DOMAIN seen : seen[i] <= taken
        BY DEF RoutedInv
      <3>4. \A i, j \in DOMAIN seen : j < i => seen[j] < seen[i]
        BY DEF RoutedInv
      <3>5. ASSUME NEW p \in Emitted("event")', p <= taken'
            PROVE  \E i \in DOMAIN seen' : seen'[i] = p
        <4>1. p \in Emitted("event") /\ p \in Nat
          BY <1>1, <3>5 DEF Emitted
        <4>2. CASE p = taken + 1
          BY <3>2, <4>2
        <4>3. CASE p # taken + 1
          <5>1. p <= taken
            BY <1>1, <3>5, <4>1, <4>3, NextDelivered
          <5>2. PICK i \in DOMAIN seen : seen[i] = p
            BY <4>1, <5>1 DEF RoutedInv
          <5> QED
            BY <3>2, <5>2
        <4> QED
          BY <4>2, <4>3
      <3>6. \A i \in DOMAIN seen' : seen'[i] <= taken'
        BY <1>1, <3>2, <3>3, NextDelivered
      <3>7. \A i, j \in DOMAIN seen' : j < i => seen'[j] < seen'[i]
        <4> SUFFICES ASSUME NEW i \in DOMAIN seen', NEW j \in DOMAIN seen', j < i
                     PROVE  seen'[j] < seen'[i]
          OBVIOUS
        <4>1. j \in DOMAIN seen /\ seen'[j] = seen[j] /\ seen[j] \in Nat
          BY <3>2
        <4>2. CASE i \in DOMAIN seen
          BY <3>2, <3>4, <4>1, <4>2
        <4>3. CASE i = Len(seen) + 1
          BY <1>1, <3>2, <3>3, <4>1, <4>3, NextDelivered
        <4> QED
          BY <3>2, <4>2, <4>3
      <3> QED
        BY <3>5, <3>6, <3>7
    <2>2. CASE emitted[taken + 1].is # "event"
      <3>1. UNCHANGED seen
        BY <2>2 DEF Deliver
      <3>2. \A p \in Emitted("event")' : p <= taken' => p <= taken
        BY <1>1, <2>2, NextDelivered DEF Emitted
      <3>3. \A i \in DOMAIN seen : seen[i] \in Nat
        BY LenProperties, ElementOfSeq DEF TypeInv, TypeOK
      <3> QED
        BY <1>1, <3>1, <3>2, <3>3, NextDelivered DEF RoutedInv, Emitted
    <2> QED
      BY <2>1, <2>2
  <1>3. /\ \A k \in DOMAIN replies' : replies'[k].at <= taken'
        /\ \A j, k \in DOMAIN replies' :
              j < k /\ replies'[j].at # 0 /\ replies'[k].at # 0
                => replies'[j].at < replies'[k].at
        /\ \A k \in DOMAIN replies' :
              replies'[k].at # 0 => emitted'[replies'[k].at].is = "block"
    <2>1. /\ \A k \in DOMAIN replies : replies[k].at <= taken
          /\ \A j, k \in DOMAIN replies :
                j < k /\ replies[j].at # 0 /\ replies[k].at # 0
                  => replies[j].at < replies[k].at
          /\ \A k \in DOMAIN replies :
                replies[k].at # 0 => emitted[replies[k].at].is = "block"
      BY DEF RoutedInv
    <2>2. \A k \in DOMAIN replies : replies[k].at <= taken /\ replies[k].at < taken'
      BY <1>1, <2>1, Positions, NextDelivered
    <2>3. CASE UNCHANGED replies
      BY <1>1, <2>1, <2>2, <2>3, Positions, NextDelivered
    <2>4. CASE /\ emitted[taken + 1].is = "block"
               /\ replies' = Append(replies, Settled(taken + 1))
      <3>1. /\ DOMAIN replies' = 1..(Len(replies) + 1)
            /\ \A k \in DOMAIN replies : replies'[k] = replies[k]
            /\ replies'[Len(replies) + 1].at = taken + 1
        BY <2>4, LastReply, NextDelivered DEF TypeInv
      <3> QED
        BY <1>1, <2>1, <2>2, <2>4, <3>1, Positions, NextDelivered
    <2>5. emitted[taken + 1] \in Messages
      BY <1>1, ElementOfSeq DEF TypeInv, TypeOK
    <2>6. emitted[taken + 1].is \in {"greeting", "block", "event"}
      BY <2>5 DEF Messages
    <2> QED
      BY <2>3, <2>4, <2>6 DEF Deliver, IsGreeting
  <1>4. \A n \in Commands : replyTo'[n] <= taken'
    BY <1>1, Positions, NextDelivered DEF RoutedInv
  <1> QED
    BY <1>2, <1>3, <1>4 DEF RoutedInv

\* Taking the oldest item off the channel leaves the rest in order.
LEMMA TakingKeepsRouted ==
    ASSUME TypeInv, RoutedInv, replies # <<>>, replies' = Tail(replies),
           UNCHANGED <<emitted, taken, seen>>,
           \A n \in Commands : replyTo'[n] <= taken
    PROVE  RoutedInv'
  <1>1. /\ DOMAIN replies' = 1..(Len(replies) - 1)
        /\ \A k \in DOMAIN replies' :
              k + 1 \in DOMAIN replies /\ replies'[k] = replies[k + 1]
    BY FirstReply DEF TypeInv
  <1>2. \A j, k \in DOMAIN replies' : j < k => j + 1 < k + 1
    BY <1>1, Positions
  <1>3. UNCHANGED Emitted("event")
    BY DEF Emitted
  <1> QED
    BY <1>1, <1>2, <1>3 DEF RoutedInv

\* No step disturbs what has been routed.
LEMMA RoutedStep ==
    ASSUME TypeInv, Stages, RoutedInv, Next
    PROVE  RoutedInv'
  <1>1. CASE TmuxStep
    <2>1. CASE SendGreeting \/ Notify \/ EmitStray
      <3>1. PICK message \in Messages : Emit(message)
        BY <2>1 DEF SendGreeting, Notify, EmitStray, Messages
      <3> QED
        BY <3>1, EmitKeepsRouted
    <2>2. CASE Answer
      <3>1. Head(unanswered) \in Commands
        BY <2>2, HeadTailProperties DEF Answer, TypeInv, TypeOK
      <3> QED
        BY <2>2, <3>1, EmitKeepsRouted DEF Answer, Messages
    <2>3. CASE Exit
      BY <2>3 DEF Exit, RoutedInv, Emitted, tmux, routing, calling
    <2> QED
      BY <1>1, <2>1, <2>2, <2>3 DEF TmuxStep
  <1>2. CASE Deliver
    BY <1>2, DeliverKeepsRouted
  <1>3. CASE Report
    <2>1. Ended(end) \in Replies /\ Ended(end).at = 0
      BY <1>3 DEF Report, Ended, Replies, TypeInv, TypeOK
    <2>2. /\ DOMAIN replies' = 1..(Len(replies) + 1)
          /\ \A k \in DOMAIN replies : replies'[k] = replies[k]
          /\ replies'[Len(replies) + 1].at = 0
      BY <1>3, <2>1, LastReply DEF Report, IsReported, TypeInv
    <2>3. UNCHANGED <<emitted, taken, seen, replyTo>>
      BY <1>3 DEF Report, tmux, calling
    <2>4. /\ \A k \in DOMAIN replies' : replies'[k].at <= taken
          /\ \A k \in DOMAIN replies' : replies'[k].at # 0
               => k \in DOMAIN replies /\ replies'[k] = replies[k]
      BY <2>2, Positions, NextDelivered DEF RoutedInv
    <2> QED
      BY <2>3, <2>4 DEF RoutedInv, Emitted
  <1>4. CASE CheckFails \/ LearnEnding \/ ReplyNeverComes \/ Drain
    <2>1. TakeEnding
      BY <1>4 DEF CheckFails, LearnEnding, ReplyNeverComes, Drain
    <2> QED
      BY <2>1, TakingKeepsRouted DEF TakeEnding, RoutedInv, tmux, routing
  <1>5. CASE TakeReply
    <2>1. Head(replies).at <= taken
      BY <1>5, FirstReply DEF TakeReply, RoutedInv, TypeInv
    <2>2. \A n \in Commands : replyTo'[n] <= taken
      BY <1>5, <2>1 DEF TakeReply, RoutedInv, TypeInv, TypeOK
    <2> QED
      BY <1>5, <2>2, TakingKeepsRouted DEF TakeReply, tmux, routing
  <1>6. CASE \/ ReadEof \/ ReadFails \/ Classify \/ TellSink
             \/ Greet \/ GreetEnds \/ CheckPasses \/ Send \/ SendFails
             \/ DrainEnds \/ Dispose \/ DropCommands \/ Join
             \/ Execute \/ Close \/ AbortFlags \/ AbortKills
    <2> USE DEF tmux, routing, calling
    <2>1. CASE ReadEof \/ ReadFails \/ Classify \/ TellSink
      BY <2>1 DEF ReadEof, ReadFails, Classify, TellSink, RoutedInv, Emitted
    <2>2. CASE Greet
      <3>1. UNCHANGED <<emitted, taken, seen, replies, replyTo>>
        BY <2>2 DEF Greet, Stages, FromTheFirst
      <3> QED
        BY <3>1 DEF RoutedInv, Emitted
    <2>3. CASE GreetEnds \/ CheckPasses \/ Send \/ SendFails
      BY <2>3 DEF GreetEnds, CheckPasses, Send, SendFails, RoutedInv, Emitted
    <2>4. CASE DrainEnds \/ Dispose \/ DropCommands \/ Join
      BY <2>4 DEF DrainEnds, Dispose, DropCommands, Join, RoutedInv, Emitted
    <2>5. CASE Execute \/ Close \/ AbortFlags \/ AbortKills
      BY <2>5 DEF Execute, Close, AbortFlags, AbortKills, RoutedInv, Emitted
    <2> QED
      BY <1>6, <2>1, <2>2, <2>3, <2>4, <2>5
  <1> QED
    BY <1>1, <1>2, <1>3, <1>4, <1>5, <1>6 DEF Next, ReaderStep, CallStep

\* What the reader routes it routes in order, and leaves nothing out.
THEOREM RoutedIsKept == Spec => []RoutedInv
  <1>1. Init => RoutedInv
    <2> SUFFICES ASSUME Init
                 PROVE  RoutedInv
      OBVIOUS
    <2>1. DOMAIN replies = {} /\ DOMAIN seen = {} /\ Emitted("event") = {}
      BY EmptySeq DEF Init, Emitted
    <2> QED
      BY <2>1 DEF Init, RoutedInv
  <1>2. TypeInv /\ EndingInv /\ RoutedInv /\ [Next]_vars => RoutedInv'
    <2>1. ASSUME RoutedInv, UNCHANGED vars
          PROVE  RoutedInv'
      BY <2>1 DEF vars, tmux, routing, calling, RoutedInv, Emitted
    <2> QED
      BY <2>1, RoutedStep DEF EndingInv
  <1> QED
    BY <1>1, <1>2, TypesAreKept, EndingIsKept, PTL DEF Spec

\* A caller that holds a reply has a sink that was given every event sent ahead
\* of that reply, in the order tmux sent them.
THEOREM EventsAlwaysComeAhead == Spec => []EventsComeAhead
  <1>1. TypeInv /\ RoutedInv => EventsComeAhead
    <2> SUFFICES ASSUME TypeInv, RoutedInv,
                        NEW n \in Commands, NEW p \in Emitted("event"),
                        p < replyTo[n]
                 PROVE  \E i \in DOMAIN seen :
                           /\ seen[i] = p
                           /\ \A j \in 1..(i - 1) : seen[j] < p
      BY DEF EventsComeAhead
    <2>1. p <= taken
      BY Positions, NextDelivered DEF RoutedInv, Emitted
    <2>2. PICK i \in DOMAIN seen : seen[i] = p
      BY <2>1 DEF RoutedInv
    <2>3. DOMAIN seen = 1..Len(seen) /\ Len(seen) \in Nat
      BY LenProperties DEF TypeInv, TypeOK
    <2>4. \A j \in 1..(i - 1) : j \in DOMAIN seen /\ j < i
      BY <2>2, <2>3
    <2> QED
      BY <2>2, <2>4 DEF RoutedInv
  <1> QED
    BY <1>1, TypesAreKept, RoutedIsKept, PTL

-----------------------------------------------------------------------------
\* No step lets a call take what was routed before it began.
LEMMA SinceStep ==
    ASSUME TypeInv, Stages, RoutedInv, SinceInv, Next
    PROVE  SinceInv'
  <1> USE DEF InCall, tmux, routing, calling
  <1>1. CASE TmuxStep
    <2>1. UNCHANGED <<taken, replies, calling>>
      BY <1>1 DEF TmuxStep, SendGreeting, Notify, Answer, EmitStray, Exit, Emit
    <2> QED
      BY <2>1 DEF SinceInv
  <1>2. CASE Deliver
    <2>1. taken' = taken + 1 /\ since <= taken /\ UNCHANGED calling
      BY <1>2 DEF Deliver, SinceInv
    <2>2. CASE UNCHANGED replies
      BY <2>1, <2>2, Positions, NextDelivered DEF SinceInv
    <2>3. CASE replies' = Append(replies, Settled(taken + 1))
      <3>1. /\ DOMAIN replies' = 1..(Len(replies) + 1)
            /\ \A k \in DOMAIN replies : replies'[k] = replies[k]
            /\ replies'[Len(replies) + 1].at = taken + 1
        BY <2>3, LastReply, NextDelivered DEF TypeInv
      <3> QED
        BY <2>1, <3>1, Positions, NextDelivered DEF SinceInv
    <2> QED
      BY <1>2, <2>2, <2>3 DEF Deliver
  <1>3. CASE Report
    <2>1. Ended(end) \in Replies /\ Ended(end).at = 0
      BY <1>3 DEF Report, Ended, Replies, TypeInv, TypeOK
    <2>2. /\ DOMAIN replies' = 1..(Len(replies) + 1)
          /\ \A k \in DOMAIN replies : replies'[k] = replies[k]
          /\ replies'[Len(replies) + 1].at = 0
      BY <1>3, <2>1, LastReply DEF Report, IsReported, TypeInv
    <2>3. UNCHANGED <<taken, calling>>
      BY <1>3 DEF Report
    <2> QED
      BY <2>2, <2>3, Positions DEF SinceInv
  <1>4. CASE CheckFails \/ LearnEnding \/ ReplyNeverComes \/ Drain
    <2>1. TakeEnding /\ caller' \in {"idle", "draining"}
          /\ (caller' = "idle" => caller \in InCall)
      BY <1>4 DEF CheckFails, LearnEnding, ReplyNeverComes, Drain
    <2>2. UNCHANGED <<taken, command, since, replyTo>>
      BY <2>1 DEF TakeEnding
    <2>3. caller' = "idle" => command \in Commands /\ replyTo[command] = 0
      BY <2>1, ConnectionAssumption DEF SinceInv, TypeInv, TypeOK, Commands
    <2> QED
      BY <2>1, <2>2, <2>3 DEF SinceInv
  <1>5. CASE TakeReply
    <2>1. command \in Commands
      BY <1>5, ConnectionAssumption DEF TakeReply, TypeInv, TypeOK, Commands
    <2>2. replyTo'[command] = Head(replies).at /\ Head(replies).at > since
      BY <1>5, <2>1, FirstReply DEF TakeReply, SinceInv, TypeInv, TypeOK
    <2>3. \A n \in Commands : n # command => replyTo'[n] = replyTo[n]
      BY <1>5 DEF TakeReply, TypeInv, TypeOK
    <2>4. command' = command /\ since' = since /\ taken' = taken /\ caller' = "idle"
      BY <1>5 DEF TakeReply
    <2>5. Head(replies).at \in Nat
      BY <1>5, FirstReply, Positions DEF TakeReply, TypeInv
    <2> QED
      BY <2>1, <2>2, <2>3, <2>4, <2>5, Positions DEF SinceInv, Commands
  <1>6. CASE Execute
    <2>1. \A n \in Commands : n >= command' => replyTo'[n] = 0
      BY <1>6, ConnectionAssumption DEF Execute, SinceInv, TypeInv, TypeOK, Commands
    <2> QED
      BY <1>6, <2>1, NextDelivered DEF Execute, SinceInv, TypeInv, TypeOK, Commands
  <1>7. CASE CheckPasses
    <2>1. DOMAIN replies' = {}
      BY <1>7 DEF CheckPasses, NothingWaits
    <2>2. /\ UNCHANGED <<taken, command, since, replyTo>>
          /\ caller = "checking" /\ caller' = "sending"
      BY <1>7 DEF CheckPasses
    <2> QED
      BY <2>1, <2>2 DEF SinceInv
  <1>8. CASE Greet
    BY <1>8 DEF Greet, Stages, FromTheFirst, SinceInv
  <1>9. CASE ReadEof \/ ReadFails \/ Classify \/ TellSink
    BY <1>9 DEF ReadEof, ReadFails, Classify, TellSink, SinceInv
  <1>10. CASE GreetEnds \/ Send \/ SendFails \/ DrainEnds \/ Dispose
    BY <1>10 DEF GreetEnds, Send, SendFails, DrainEnds, Dispose, SinceInv
  <1>11. CASE DropCommands \/ Join \/ Close \/ AbortFlags \/ AbortKills
    BY <1>11 DEF DropCommands, Join, Close, AbortFlags, AbortKills, SinceInv
  <1> QED
    BY <1>1, <1>2, <1>3, <1>4, <1>5, <1>6, <1>7, <1>8, <1>9, <1>10, <1>11
    DEF Next, ReaderStep, CallStep

\* Past the check that the channel is empty, all a call can find there was
\* routed after the call began.
THEOREM SinceIsKept == Spec => []SinceInv
  <1>1. Init => SinceInv
    BY DEF Init, SinceInv, InCall
  <1>2. TypeInv /\ EndingInv /\ RoutedInv /\ SinceInv /\ [Next]_vars => SinceInv'
    <2>1. ASSUME SinceInv, UNCHANGED vars
          PROVE  SinceInv'
      BY <2>1 DEF vars, routing, calling, SinceInv
    <2> QED
      BY <2>1, SinceStep DEF EndingInv
  <1> QED
    BY <1>1, <1>2, TypesAreKept, EndingIsKept, RoutedIsKept, PTL DEF Spec

-----------------------------------------------------------------------------
\* What a message emitted does to the blocks a call may take.
LEMMA EmitPending ==
    ASSUME TypeInv, RoutedInv, NEW message \in Messages, Emit(message)
    PROVE  /\ Strays' = {} => Strays = {} /\ ~ (message.is = "block" /\ message.of = 0)
           /\ message.is # "block" => Pending' = Pending
           /\ message.is = "block" => Pending' = Pending \cup {Len(emitted) + 1}
           /\ \A p \in Pending : emitted'[p] = emitted[p]
           /\ emitted'[Len(emitted) + 1] = message
  <1>1. /\ UNCHANGED <<taken, replies>>
        /\ \A p \in 1..Len(emitted) : emitted'[p] = emitted[p]
        /\ Len(emitted') = Len(emitted) + 1
        /\ emitted'[Len(emitted) + 1] = message
    BY EmitFacts DEF Emit, routing, TypeInv
  <1>2. Len(emitted) \in Nat /\ taken \in Nat /\ taken <= Len(emitted)
    BY NextDelivered
  <1>3. Strays' = {} => Strays = {} /\ ~ (message.is = "block" /\ message.of = 0)
    <2>1. \A p \in Strays : p \in Strays'
      BY <1>1, <1>2 DEF Strays, Emitted
    <2>2. message.is = "block" /\ message.of = 0 => Len(emitted) + 1 \in Strays'
      BY <1>1, <1>2 DEF Strays, Emitted
    <2> QED
      BY <2>1, <2>2
  <1>4. Emitted("block")' = Emitted("block")
            \cup (IF message.is = "block" THEN {Len(emitted) + 1} ELSE {})
    BY <1>1, <1>2 DEF Emitted
  <1>5. message.is # "block" => Pending' = Pending
    BY <1>1, <1>4 DEF Pending
  <1>6. message.is = "block" => Pending' = Pending \cup {Len(emitted) + 1}
    BY <1>1, <1>2, <1>4 DEF Pending
  <1>7. \A p \in Pending : emitted'[p] = emitted[p]
    BY <1>1 DEF Pending, Emitted
  <1> QED
    BY <1>1, <1>3, <1>5, <1>6, <1>7

\* A block routed is still one that a call may take.
LEMMA DeliverPending ==
    ASSUME TypeInv, RoutedInv, Deliver
    PROVE  Pending' = Pending
  <1>1. /\ taken' = taken + 1 /\ taken + 1 \in 1..Len(emitted)
        /\ UNCHANGED emitted
        /\ Len(emitted) \in Nat /\ taken \in Nat
    BY NextDelivered DEF Deliver, tmux
  <1>2. CASE emitted[taken + 1].is # "block"
    <2>1. emitted[taken + 1] \in Messages
      BY <1>1, ElementOfSeq DEF TypeInv, TypeOK
    <2>2. emitted[taken + 1].is \in {"greeting", "event"}
      BY <1>2, <2>1 DEF Messages
    <2>3. UNCHANGED replies
      BY <2>2 DEF Deliver, IsGreeting
    <2> QED
      BY <1>1, <1>2, <2>3 DEF Pending, Emitted
  <1>3. CASE emitted[taken + 1].is = "block"
    <2>1. replies' = Append(replies, Settled(taken + 1))
      BY <1>3 DEF Deliver, IsGreeting
    <2>2. /\ DOMAIN replies = 1..Len(replies) /\ Len(replies) \in Nat
          /\ DOMAIN replies' = 1..(Len(replies) + 1)
          /\ \A k \in DOMAIN replies : replies'[k] = replies[k]
          /\ replies'[Len(replies) + 1].at = taken + 1
      BY <2>1, LastReply, NextDelivered DEF TypeInv
    <2>3. ASSUME NEW p \in Emitted("block")
          PROVE  (\E k \in DOMAIN replies' : replies'[k].at = p)
                    <=> p = taken + 1 \/ \E k \in DOMAIN replies : replies[k].at = p
      BY <2>2
    <2>4. \A p \in Emitted("block") : p > taken <=> p = taken + 1 \/ p > taken'
      BY <1>1 DEF Emitted
    <2> QED
      BY <1>1, <2>3, <2>4 DEF Pending, Emitted
  <1> QED
    BY <1>2, <1>3

\* Taking the oldest item leaves the others for later, and no new ones.
LEMMA TakingPending ==
    ASSUME TypeInv, RoutedInv, replies # <<>>, replies' = Tail(replies),
           UNCHANGED <<emitted, taken>>
    PROVE  Pending' = Pending \ {Head(replies).at}
  <1>1. /\ Head(replies) = replies[1] /\ 1 \in DOMAIN replies
        /\ DOMAIN replies = 1..Len(replies) /\ Len(replies) \in Nat
        /\ DOMAIN replies' = 1..(Len(replies) - 1)
        /\ \A k \in DOMAIN replies' :
              k + 1 \in DOMAIN replies /\ replies'[k] = replies[k + 1]
    BY FirstReply, Positions DEF TypeInv
  <1>2. \A k \in DOMAIN replies : k # 1
           => k - 1 \in DOMAIN replies' /\ replies'[k - 1] = replies[k]
    BY <1>1
  <1>3. Head(replies).at <= taken
    BY <1>1 DEF RoutedInv
  <1>4. ASSUME NEW p \in Emitted("block")
        PROVE  (\E k \in DOMAIN replies' : replies'[k].at = p)
                  <=> /\ p # Head(replies).at
                      /\ \E k \in DOMAIN replies : replies[k].at = p
    <2>1. p # 0
      BY DEF Emitted
    <2>2. ASSUME NEW k \in DOMAIN replies', replies'[k].at = p
          PROVE  p # Head(replies).at
      <3>1. k + 1 \in DOMAIN replies /\ 1 < k + 1 /\ replies[k + 1].at = p
        BY <1>1, <2>2
      <3>2. replies[1].at # p
        BY <1>1, <2>1, <3>1, Positions DEF RoutedInv
      <3> QED
        BY <1>1, <3>2
    <2>3. ASSUME NEW k \in DOMAIN replies', replies'[k].at = p
          PROVE  \E j \in DOMAIN replies : replies[j].at = p
      BY <1>1, <2>3
    <2>4. ASSUME NEW k \in DOMAIN replies, replies[k].at = p, p # Head(replies).at
          PROVE  \E j \in DOMAIN replies' : replies'[j].at = p
      <3>1. k # 1
        BY <1>1, <2>4
      <3> QED
        BY <1>2, <2>4, <3>1
    <2> QED
      BY <2>2, <2>3, <2>4
  <1>5. UNCHANGED Emitted("block")
    BY DEF Emitted
  <1>6. \A p \in Emitted("block") : p > taken => p # Head(replies).at
    BY <1>1, <1>3, Positions, NextDelivered DEF Emitted
  <1> QED
    BY <1>4, <1>5, <1>6 DEF Pending

\* The first block on the channel is one that a call may still take.
LEMMA FirstPending ==
    ASSUME TypeInv, RoutedInv, replies # <<>>, Head(replies).at # 0
    PROVE  Head(replies).at \in Pending
  <1>1. Head(replies) = replies[1] /\ 1 \in DOMAIN replies
    BY FirstReply DEF TypeInv
  <1>2. Head(replies).at \in Emitted("block")
    <2>1. Head(replies).at \in 1..Len(emitted)
      BY <1>1, NextDelivered DEF TypeInv
    <2> QED
      BY <1>1, <2>1 DEF RoutedInv, Emitted
  <1> QED
    BY <1>1, <1>2 DEF Pending

\* No step lets a second command, or a second block, become outstanding.
LEMMA OutstandingStep ==
    ASSUME TypeInv, EndingInv, RoutedInv, OutstandingInv, Next
    PROVE  OutstandingInv'
  <1> USE DEF InCall, tmux, routing, calling
  <1> DEFINE open == state = "ready" /\ caller \in InCall \cup {"greeting", "failed", "idle"}
             answered == \A n \in Commands : replyTo[n] # 0
                            => emitted[replyTo[n]] = [is |-> "block", of |-> n]
  <1>1. ASSUME NEW message \in Messages, Emit(message), unanswered' = unanswered,
               message.is # "block" \/ message.of = 0
        PROVE  OutstandingInv'
    <2> SUFFICES ASSUME Strays' = {}
                 PROVE  (open => Calling)' /\ answered'
      BY DEF OutstandingInv
    <2>1. /\ Strays = {} /\ message.is # "block" /\ Pending' = Pending
          /\ \A p \in Pending : emitted'[p] = emitted[p]
      BY <1>1, EmitPending
    <2>2. UNCHANGED <<taken, replies, calling, state>>
      BY <1>1 DEF Emit
    <2>3. answered'
      <3>1. \A n \in Commands : replyTo[n] # 0 => replyTo[n] \in 1..Len(emitted)
        BY NextDelivered, Positions DEF TypeInv, TypeOK
      <3>2. \A n \in Commands :
               replyTo[n] # 0 => emitted'[replyTo[n]] = emitted[replyTo[n]]
        BY <1>1, <3>1, EmitFacts DEF TypeInv
      <3> QED
        BY <2>1, <2>2, <3>2 DEF OutstandingInv
    <2> QED
      BY <1>1, <2>1, <2>2, <2>3 DEF OutstandingInv, Calling
  <1>2. CASE Answer
    <2> SUFFICES ASSUME Strays' = {}
                 PROVE  (open => Calling)' /\ answered'
      BY DEF OutstandingInv
    <2> DEFINE message == [is |-> "block", of |-> Head(unanswered)]
    <2>1. /\ Head(unanswered) \in Commands /\ message \in Messages
          /\ unanswered # <<>> /\ unanswered' = Tail(unanswered)
          /\ Emit(message)
      BY <1>2, HeadTailProperties DEF Answer, TypeInv, TypeOK, Messages
    <2>2. /\ Strays = {}
          /\ Pending' = Pending \cup {Len(emitted) + 1}
          /\ emitted'[Len(emitted) + 1] = message
      BY <2>1, EmitPending
    <2>3. UNCHANGED <<taken, replies, calling, state>>
      BY <2>1 DEF Emit
    <2>4. answered'
      <3>1. \A n \in Commands : replyTo[n] # 0 => replyTo[n] \in 1..Len(emitted)
        BY NextDelivered, Positions DEF TypeInv, TypeOK
      <3>2. \A n \in Commands :
               replyTo[n] # 0 => emitted'[replyTo[n]] = emitted[replyTo[n]]
        BY <2>1, <3>1, EmitFacts DEF TypeInv
      <3> QED
        BY <2>2, <2>3, <3>2 DEF OutstandingInv
    <2>5. ASSUME open'
          PROVE  Calling'
      <3>1. open /\ Calling
        BY <2>2, <2>3, <2>5 DEF OutstandingInv
      <3>2. caller = "awaiting" /\ unanswered = <<command>> /\ Pending = {}
        BY <2>1, <3>1 DEF Calling
      <3>3. Head(unanswered) = command /\ Tail(unanswered) = <<>>
        BY <3>2
      <3>4. Pending' = {Len(emitted) + 1} /\ unanswered' = <<>>
        BY <2>1, <2>2, <3>2, <3>3
      <3> QED
        BY <2>2, <2>3, <3>2, <3>3, <3>4 DEF Calling
    <2> QED
      BY <2>4, <2>5
  <1>3. CASE Deliver
    <2>1. Pending' = Pending /\ UNCHANGED <<unanswered, emitted, calling, state>>
      BY <1>3, DeliverPending DEF Deliver
    <2> QED
      BY <2>1 DEF OutstandingInv, Calling, Strays, Emitted
  <1>4. CASE Report
    <2>1. Ended(end) \in Replies /\ Ended(end).at = 0
      BY <1>4 DEF Report, Ended, Replies, TypeInv, TypeOK
    <2>2. /\ DOMAIN replies' = 1..(Len(replies) + 1)
          /\ \A k \in DOMAIN replies : replies'[k] = replies[k]
          /\ replies'[Len(replies) + 1].at = 0
      BY <1>4, <2>1, LastReply DEF Report, IsReported, TypeInv
    <2>3. UNCHANGED <<emitted, unanswered, taken, calling, state>>
      BY <1>4 DEF Report
    <2>4. \A p \in Emitted("block") :
             (\E k \in DOMAIN replies' : replies'[k].at = p)
                <=> \E k \in DOMAIN replies : replies[k].at = p
      BY <2>2, Positions DEF Emitted
    <2>5. Pending' = Pending
      BY <2>3, <2>4 DEF Pending, Emitted
    <2> QED
      BY <2>3, <2>5 DEF OutstandingInv, Calling, Strays, Emitted
  <1>5. CASE CheckFails \/ LearnEnding \/ ReplyNeverComes \/ Drain
    <2>1. /\ TakeEnding
          /\ \/ caller \in InCall /\ caller' = "idle"
             \/ caller = "draining" /\ UNCHANGED caller
      BY <1>5 DEF CheckFails, LearnEnding, ReplyNeverComes, Drain
    <2>2. \A k \in DOMAIN replies : replies[k].at = 0 => replies[k].end # "ready"
      BY Positions DEF Replies, Reasons
    <2>3. state' # "ready" \/ caller' = "draining"
      BY <2>1, <2>2, FirstReply DEF TakeEnding, ClosedBy, TypeInv, EndingInv, Stages
    <2>4. UNCHANGED <<emitted, replyTo>>
      BY <2>1 DEF TakeEnding
    <2> QED
      BY <2>3, <2>4 DEF OutstandingInv, Strays, Emitted
  <1>6. CASE TakeReply
    <2> SUFFICES ASSUME Strays' = {}
                 PROVE  (open => Calling)' /\ answered'
      BY DEF OutstandingInv
    <2>1. /\ UNCHANGED <<emitted, unanswered, taken, command, state>>
          /\ caller = "awaiting" /\ caller' = "idle" /\ state = "ready"
      BY <1>6 DEF TakeReply, EndingInv, Stages
    <2>2. Strays = {}
      BY <2>1 DEF Strays, Emitted
    <2>3. Head(replies).at \in Pending
      BY <1>6, FirstPending DEF TakeReply
    <2>4. PICK p \in Pending :
             /\ Pending = {p} /\ unanswered = <<>>
             /\ emitted[p] = [is |-> "block", of |-> command]
      BY <2>1, <2>2, <2>3 DEF OutstandingInv, Calling
    <2>5. Head(replies).at = p
      BY <2>3, <2>4
    <2>6. Pending' = {}
      <3>1. Pending' = Pending \ {Head(replies).at}
        BY <1>6, <2>1, TakingPending DEF TakeReply
      <3> QED
        BY <2>4, <2>5, <3>1
    <2>7. answered'
      BY <1>6, <2>1, <2>2, <2>4, <2>5 DEF TakeReply, OutstandingInv, TypeInv, TypeOK
    <2> QED
      BY <2>1, <2>4, <2>6, <2>7 DEF Calling
  <1>7. CASE Send
    <2>1. unanswered' = Append(unanswered, command)
          /\ UNCHANGED <<emitted, taken, replies, command, replyTo, state>>
          /\ caller = "sending" /\ caller' = "awaiting" /\ state = "ready"
      BY <1>7 DEF Send, EndingInv, Stages
    <2>2. unanswered = <<>> => unanswered' = <<command>>
      BY <2>1
    <2>3. Pending' = Pending /\ Strays' = Strays
      BY <2>1 DEF Pending, Strays, Emitted
    <2> QED
      BY <2>1, <2>2, <2>3 DEF OutstandingInv, Calling
  <1>8. ASSUME UNCHANGED <<emitted, unanswered, taken, replies, replyTo>>,
               caller # "awaiting",
               caller' # "awaiting",
               open' => open
        PROVE  OutstandingInv'
    <2>1. Pending' = Pending /\ Strays' = Strays
      BY <1>8 DEF Pending, Strays, Emitted
    <2> QED
      BY <1>8, <2>1 DEF OutstandingInv, Calling
  <1>9. ASSUME UNCHANGED <<emitted, unanswered, taken, replies, calling, state>>
        PROVE  OutstandingInv'
    <2>1. Pending' = Pending /\ Strays' = Strays
      BY <1>9 DEF Pending, Strays, Emitted
    <2> QED
      BY <1>9, <2>1 DEF OutstandingInv, Calling
  <1>10. CASE TmuxStep
    <2>1. CASE SendGreeting
      BY <1>1, <2>1 DEF SendGreeting, Messages
    <2>2. CASE Notify
      BY <1>1, <2>2 DEF Notify, Messages
    <2>3. CASE EmitStray
      BY <1>1, <2>3 DEF EmitStray, Messages
    <2>4. CASE Exit
      BY <1>9, <2>4 DEF Exit
    <2> QED
      BY <1>2, <1>10, <2>1, <2>2, <2>3, <2>4 DEF TmuxStep
  <1>11. CASE ReadEof \/ ReadFails \/ Classify \/ TellSink
    BY <1>9, <1>11 DEF ReadEof, ReadFails, Classify, TellSink
  <1>12. CASE AbortFlags \/ AbortKills
    BY <1>9, <1>12 DEF AbortFlags, AbortKills
  <1>13. CASE Greet
    BY <1>8, <1>13 DEF Greet, FromTheFirst, EndingInv, Stages
  <1>14. CASE GreetEnds \/ CheckPasses \/ SendFails \/ Execute \/ Close
    BY <1>8, <1>14 DEF GreetEnds, CheckPasses, SendFails, Execute, Close
  <1>15. CASE DrainEnds \/ Dispose \/ DropCommands \/ Join
    BY <1>8, <1>15 DEF DrainEnds, Dispose, DropCommands, Join
  <1> QED
    BY <1>2, <1>3, <1>4, <1>5, <1>6, <1>7, <1>10, <1>11, <1>12, <1>13, <1>14,
       <1>15 DEF Next, ReaderStep, CallStep

\* While calls are made, at most one command has its block still to come.
THEOREM OutstandingIsKept == Spec => []OutstandingInv
  <1>1. Init => OutstandingInv
    <2> SUFFICES ASSUME Init
                 PROVE  OutstandingInv
      OBVIOUS
    <2>1. Emitted("block") = {}
      BY EmptySeq DEF Init, Emitted
    <2>2. Pending = {}
      BY <2>1 DEF Pending
    <2> QED
      BY <2>2 DEF Init, OutstandingInv, Calling
  <1>2. /\ TypeInv /\ EndingInv /\ RoutedInv /\ OutstandingInv
        /\ [Next]_vars
        => OutstandingInv'
    <2>1. ASSUME OutstandingInv, UNCHANGED vars
          PROVE  OutstandingInv'
      BY <2>1 DEF vars, tmux, routing, calling, OutstandingInv, Calling,
                  Pending, Strays, Emitted
    <2> QED
      BY <2>1, OutstandingStep
  <1> QED
    BY <1>1, <1>2, TypesAreKept, EndingIsKept, RoutedIsKept, PTL DEF Spec

\* A call returns the block that answers its own command, however the calls
\* before it ended; with strays in the stream, never one routed before it began.
THEOREM RepliesAreOwn == Spec => []OwnReply
  <1>1. SinceInv /\ OutstandingInv => OwnReply
    BY DEF SinceInv, OutstandingInv, OwnReply
  <1> QED
    BY <1>1, SinceIsKept, OutstandingIsKept, PTL
=============================================================================
