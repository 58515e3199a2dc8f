---------------------------- MODULE DaemonProofs ----------------------------
(***************************************************************************)
(* Proofs about Daemon for every set of sessions, every debounce and every *)
(* number of servers, moves and faults: its inductive invariants, and the  *)
(* safety and action properties they give.                                 *)
(***************************************************************************)
EXTENDS Daemon, TLAPS

\* What keeps the types: what a stage is about is there from the stage's
\* first step to its last.
TypeInv ==
    /\ TypeOK
    /\ Alive => server # 0
    /\ held.built # {} => held.server # 0
    /\ stage \in {"restoring", "applying"} => restoring # Nothing
    /\ stage \in {"applying", "attaching", "polling", "saving"}
         => decided # Nothing
    /\ stage = "saving" => captured # Nothing /\ link # 0

InRun == {"polling", "saving"}

\* Where the daemon's knowledge of a kept server is: in the decision of the
\* run beside it, and then in that of the last run, which the survey's view
\* of the server is compared with.  In a restore there is no such server.
KeptInv ==
    /\ \A s \in kept : s <= server
    /\ stage \notin InRun \cup {"restoring", "applying"} /\ Alive /\ server \in kept
         => last # Nothing /\ last.server = server
    /\ stage \in {"restoring", "applying"} /\ Alive => server \notin kept
    /\ stage = "applying" => decided.server \notin kept
    /\ stage \in InRun => link = decided.server
    /\ stage \in InRun /\ Alive /\ server \in kept => decided.server = server
    /\ stage = "attaching" => Alive /\ decided.server = server
    /\ stage = "surveyed" /\ held.server # 0 => Alive /\ held.server = server
    /\ stage = "surveyed" /\ held.server = 0 /\ Alive => server \notin kept
    /\ decided # Nothing => decided.server <= server
    /\ last # Nothing => last.server <= server
    /\ decided # Nothing /\ decided.boot # Settled => decided.server \notin kept
    /\ stage \notin InRun /\ last # Nothing /\ last.boot # Settled
         => last.server \notin kept

\* How a restore comes to put everything back.
RestoreInv ==
    /\ ours \subseteq Holds(sessions)
    /\ stage \in {"restoring", "applying"} =>
         /\ restoring = latest
         /\ Alive /\ last # Nothing => last.server # server
    /\ stage = "surveyed" /\ held.server = 0 /\ Alive /\ last # Nothing
         => last.server # server
    /\ stage # "applying" => making = Nothing
    /\ stage = "applying" =>
         /\ decided.boot = Settled
         /\ making # Nothing => making \in Holds(restoring)
         /\ owed # Nothing => owed \notin Holds(restoring) \cup ours
         /\ todo \subseteq Holds(restoring)
         /\ Alive /\ decided.server = server =>
              \A n \in Holds(restoring) :
                 n \in todo \/ n \in Holds(sessions) \/ n \in byUser[server]

\* Whatever the newest generation holds and the server lacks, the user closed.
PutBack ==
    latest # Nothing =>
        \A n \in Holds(latest) : n \in Holds(sessions) \/ n \in byUser[server]

\* Boot stayed out of this server, where the user has worked.
Excused(srv) == srv \in avoided /\ byUser[srv] # {}

StaysOutFor(boot) ==
    boot # Settled => PutBack \/ \E n \in boot.names : n \in byUser[server]

\* With no restore cut short and no survey misread, what is built on a server
\* the user built there, or the restore put everything back; and a decision
\* to stay out, held by the survey, this run or the last, was for that.
CalmInv ==
    IsCalm =>
        /\ stage # "applying" =>
              (\A n \in Built(sessions) : n \in byUser[server]) \/ PutBack
        /\ stage \in InRun /\ Alive /\ server # link =>
              \A n \in Built(sessions) : n \in byUser[server]
        /\ stage = "surveyed" /\ held.built # {} =>
              PutBack \/ \E n \in held.built : n \in byUser[server]
        /\ decided # Nothing /\ Alive /\ decided.server = server
              => StaysOutFor(decided.boot)
        /\ stage \notin InRun /\ last # Nothing /\ Alive /\ last.server = server
              => StaysOutFor(last.boot)

\* And a run never saves without what a server took with it, save where a
\* boot stayed out.
SaveInv ==
    IsCalm =>
        /\ stage = "attaching" /\ decided.boot = Settled
              => PutBack \/ Excused(server)
        /\ stage \notin InRun /\ last # Nothing /\ Alive /\ last.server = server
              => PutBack \/ Excused(server)
        /\ stage \in InRun /\ Alive /\ server = link => PutBack \/ Excused(server)
        /\ stage = "saving" /\ Alive /\ server = link =>
              \A n \in Holds(captured) : n \in Holds(sessions) \/ n \in byUser[server]
        /\ stage = "saving" /\ latest # Nothing =>
              \/ \A n \in Holds(latest) : n \in Holds(captured) \/ n \in byUser[link]
              \/ Excused(link)

-----------------------------------------------------------------------------
\* A capture reads the sessions that are there, and as built any that is.
LEMMA ReadingFacts ==
    ASSUME TypeOK, NEW capture, NEW reading \in Readings(capture)
    PROVE  /\ reading \in Snapshots
           /\ Holds(reading) = Holds(sessions)
           /\ Built(sessions) \subseteq Built(reading)
  <1>1. PICK f \in SUBSET Holds(sessions) :
           reading = [n \in AllNames |-> IF n \in f THEN "built" ELSE sessions[n]]
    BY DEF Readings
  <1> QED
    BY <1>1 DEF Snapshots, Holds, Built, TypeOK

\* A boot that is settled, or that declined some sessions, is a decision.
LEMMA DecisionFacts ==
    ASSUME NEW srv \in Servers
    PROVE  /\ [server |-> srv, boot |-> Settled] \in Decisions
           /\ \A names \in SUBSET AllNames :
                names # {} => [server |-> srv, boot |-> Declined(names)] \in Decisions
           /\ \A names : Declined(names) # Settled
  <1>1. Settled \in Boots
    BY DEF Boots
  <1>2. \A names \in SUBSET AllNames : names # {} => Declined(names) \in Boots
    BY DEF Boots
  <1>3. \A names : Declined(names) # Settled
    BY DEF Declined, Settled
  <1> QED
    BY <1>1, <1>2, <1>3 DEF Decisions

\* Faults are counted up to their bound.
LEMMA FaultType ==
    ASSUME TypeOK, NEW happens \in BOOLEAN, Fault(happens)
    PROVE  faults' \in 0..MaxFaults
  BY DaemonAssumption DEF Fault, MayFail, TypeOK

\* The user's steps change the sessions, and the server only when there was
\* none: a session is opened, or worked in or closed, or the server ends.
LEMMA UserStepFacts ==
    ASSUME TypeInv, UserStep
    PROVE  /\ sessions' \in Snapshots /\ server' \in 0..MaxServers
           /\ byUser' \in [Servers -> SUBSET Names]
           /\ ours' \in SUBSET AllNames
           /\ moves' \in 0..MaxMoves /\ activity' \in BOOLEAN
           /\ UNCHANGED <<faults, latest, upset, stage, booting, last, decided,
                          link, quiet, age, captured, kept, avoided>>
           /\ Alive' => server' # 0
  <1> USE DEF TypeInv, TypeOK
  <1>1. /\ moves' \in 0..MaxMoves /\ activity' \in BOOLEAN
        /\ UNCHANGED <<faults, latest, upset, stage, booting, last, decided,
                       link, quiet, age, captured, kept, avoided>>
    <2>1. Move
      BY DEF UserStep, OpenSession, Work, CloseSession, EndServer
    <2>2. moves' \in 0..MaxMoves
      BY <2>1, DaemonAssumption DEF Move
    <2>3. activity' \in BOOLEAN
      BY <2>1, Zenon DEF Move
    <2> QED
      BY <2>1, <2>2, <2>3 DEF Move
  <1>2. ASSUME NEW n \in Names, OpenSession(n)
        PROVE  /\ sessions' \in Snapshots /\ server' \in 1..MaxServers
               /\ UNCHANGED <<byUser, ours>>
    BY <1>2, DaemonAssumption DEF OpenSession, Snapshots, AllNames
  <1>3. ASSUME NEW n \in Names, Work(n) \/ CloseSession(n)
        PROVE  /\ sessions' \in Snapshots /\ UNCHANGED server
               /\ byUser' \in [Servers -> SUBSET Names]
               /\ ours' \in SUBSET AllNames
               /\ Alive' => Alive
    <2>1. n \in AllNames /\ sessions[n] # "absent" /\ UNCHANGED server
      BY <1>3 DEF AllNames, Work, CloseSession
    <2>2. Alive
      BY <2>1 DEF Alive, Holds
    <2> QED
      BY <1>3, <2>1, <2>2 DEF Work, CloseSession, Snapshots
  <1>4. CASE EndServer
    <2>1. sessions' \in Snapshots /\ Holds(sessions') = {}
      BY <1>4 DEF EndServer, Empty, Snapshots, Holds
    <2> QED
      BY <1>1, <1>4, <2>1 DEF EndServer, Alive
  <1> QED
    BY <1>1, <1>2, <1>3, <1>4 DEF UserStep

\* So they preserve the types.
LEMMA UserTypes ==
    ASSUME TypeInv, UserStep
    PROVE  TypeInv'
  BY UserStepFacts DEF TypeInv, TypeOK, booting

\* The steps of a boot, up to the attach, preserve the types.
LEMMA BootTypes ==
    ASSUME TypeInv,
           \/ Survey \/ Decide \/ OpenAndPlan \/ CloseScratch \/ Furnish
           \/ FinishRestore \/ \E n \in AllNames : CreateSession(n)
           \/ RestoreIsCut \/ Attach \/ BootFails
    PROVE  TypeInv'
  <1> USE DEF TypeInv, TypeOK, tmux, budget, booting, running
  <1>1. CASE Survey
    <2>1. PICK reading \in Readings("survey") :
             /\ held' = IF Alive THEN [server |-> server, built |-> Stops(reading)]
                                 ELSE NothingHeld
             /\ Misreads("survey", reading)
      BY <1>1 DEF Survey
    <2>2. Stops(reading) \in SUBSET AllNames
      BY DEF Stops, Built
    <2>3. held' \in [server : 0..MaxServers, built : SUBSET AllNames]
      BY <2>1, <2>2, DaemonAssumption DEF NothingHeld
    <2>4. held'.built # {} => held'.server # 0
      BY <2>1 DEF NothingHeld
    <2>5. faults' \in 0..MaxFaults /\ upset' \subseteq {"cut", "survey", "save"}
      BY <2>1, FaultType DEF Misreads
    <2> HIDE DEF TypeOK
    <2>6. UNCHANGED <<tmux, moves, latest, restoring, lacking, todo, making, owed,
                   last, decided, running>> /\ stage' = "surveyed"
      BY <1>1 DEF Survey
    <2> QED
      BY <2>3, <2>4, <2>5, <2>6 DEF TypeOK, Alive, Holds
  <1>2. CASE Decide
    <2>1. held' \in [server : 0..MaxServers, built : SUBSET AllNames]
          /\ held'.built = {}
      BY <1>2, DaemonAssumption DEF Decide, NothingHeld
    <2>2. held.server # 0 => [server |-> held.server, boot |-> Settled] \in Decisions
      BY DecisionFacts DEF Servers
    <2>3. held.built # {} =>
             [server |-> held.server, boot |-> Declined(held.built)] \in Decisions
      <3>1. held.built # {} => held.server \in Servers
        BY DEF Servers
      <3>2. held.built \in SUBSET AllNames
        OBVIOUS
      <3> HIDE DEF TypeInv, TypeOK
      <3> QED
        BY <3>1, <3>2, DecisionFacts
    <2>4. Nothing \notin Decisions /\ Nothing \notin Snapshots /\ Saved \subseteq Snapshots
      BY DaemonAssumption DEF Saved
    <2>5. /\ stage' \in {"attaching", "restoring", "asleep"}
          /\ restoring' \in Snapshots \cup {Nothing}
          /\ decided' \in Decisions \cup {Nothing}
          /\ stage' = "restoring" => restoring' # Nothing
          /\ stage' = "attaching" => decided' # Nothing
      BY <1>2, <2>2, <2>3, <2>4 DEF Decide, Attaching, Returning
    <2>6. UNCHANGED <<tmux, budget, latest, upset, lacking, todo, making, owed,
                      last, running>>
      BY <1>2 DEF Decide
    <2> HIDE DEF TypeInv
    <2> QED
      BY <2>1, <2>5, <2>6 DEF TypeInv, Alive, Holds
  <1>3. CASE OpenAndPlan
    <2>1. restoring \in Snapshots
      BY <1>3 DEF OpenAndPlan
    <2>2. /\ server' \in Servers
          /\ sessions' \in Snapshots
          /\ owed' \in Scratches \cup {Nothing}
      <3>1. CASE Alive
        BY <1>3, <3>1 DEF OpenAndPlan, Servers
      <3>2. CASE ~ Alive
        <4>1. /\ owed' \in Scratches /\ server' \in Servers
              /\ sessions' = [sessions EXCEPT ![owed'] = "idle"]
          BY <1>3, <3>2, DaemonAssumption DEF OpenAndPlan, Servers
        <4>2. sessions' \in Snapshots
          BY <4>1 DEF Snapshots, AllNames
        <4> QED
          BY <4>1, <4>2
      <3> QED
        BY <3>1, <3>2
    <2>3. lacking' \in SUBSET AllNames /\ todo' \in SUBSET AllNames
      BY <1>3 DEF OpenAndPlan, Holds
    <2>4. decided' \in Decisions /\ decided' # Nothing
      BY <1>3, <2>2, DecisionFacts, DaemonAssumption DEF OpenAndPlan
    <2>5. stage' = "applying" /\ server' # 0 /\ server' \in 0..MaxServers
      BY <1>3, <2>2 DEF OpenAndPlan, Servers
    <2>6. UNCHANGED <<byUser, ours, budget, latest, upset, held, restoring, making,
                      last, running>>
      BY <1>3 DEF OpenAndPlan
    <2>7. restoring # Nothing
      BY <1>3 DEF OpenAndPlan
    <2> HIDE DEF TypeInv
    <2> QED
      BY <2>2, <2>3, <2>4, <2>5, <2>6, <2>7 DEF TypeInv
  <1>4. CASE CloseScratch
    <2>1. sessions' \in Snapshots /\ owed \in AllNames /\ owed' = Nothing
      BY <1>4 DEF CloseScratch, ScratchIsDue, Snapshots, AllNames
    <2>2. Alive' => Alive
      BY <1>4, <2>1 DEF CloseScratch, Alive, Holds, Snapshots
    <2>3. /\ UNCHANGED <<server, byUser, ours, budget, latest, upset, stage, held,
                         restoring, lacking, todo, making, last, decided, running>>
          /\ stage = "applying"
      BY <1>4 DEF CloseScratch
    <2> QED
      BY <2>1, <2>2, <2>3
  <1>5. CASE Furnish
    <2>1. restoring \in Snapshots /\ making \in AllNames
      BY <1>5 DEF Furnish
    <2>2. sessions' \in Snapshots
      BY <1>5, <2>1 DEF Furnish, Snapshots
    <2>3. Alive
      BY <1>5, <2>1 DEF Furnish, Alive, Holds
    <2>4. /\ ours' \in SUBSET AllNames /\ todo' \in SUBSET AllNames
          /\ making' = Nothing
      BY <1>5, <2>1 DEF Furnish
    <2>5. UNCHANGED <<server, byUser, budget, latest, upset, stage, held, restoring,
                      lacking, owed, last, decided, running>>
      BY <1>5 DEF Furnish
    <2> HIDE DEF TypeInv
    <2> QED
      BY <2>2, <2>3, <2>4, <2>5 DEF TypeInv
  <1>6. CASE FinishRestore
    <2>1. avoided' \in SUBSET Servers /\ stage = "applying" /\ stage' = "attaching"
          /\ restoring' = Nothing /\ lacking' = {} /\ owed' = Nothing
      BY <1>6 DEF FinishRestore
    <2>2. UNCHANGED <<tmux, budget, latest, upset, held, todo, making, last, decided,
                   link, activity, quiet, age, captured, kept>>
      BY <1>6 DEF FinishRestore
    <2> HIDE DEF TypeInv
    <2> QED
      BY <2>1, <2>2 DEF TypeInv, Alive, Holds
  <1>7. ASSUME NEW n \in AllNames, CreateSession(n)
        PROVE  TypeInv'
    <2>1. sessions' \in Snapshots
      BY <1>7 DEF CreateSession, Snapshots
    <2>2. stage = "applying" /\ Alive /\ making' \in AllNames
      BY <1>7 DEF CreateSession
    <2>3. UNCHANGED <<server, byUser, ours, budget, latest, upset, stage, held,
                      restoring, lacking, todo, owed, last, decided, running>>
      BY <1>7 DEF CreateSession
    <2> HIDE DEF TypeInv
    <2> QED
      BY <2>1, <2>2, <2>3 DEF TypeInv
  <1>8. CASE RestoreIsCut
    <2>1. faults' \in 0..MaxFaults
      BY <1>8, FaultType DEF RestoreIsCut
    <2>2. /\ stage' = "asleep" /\ decided' = Nothing /\ restoring' = Nothing
          /\ lacking' = {} /\ todo' = {} /\ making' = Nothing /\ owed' = Nothing
          /\ upset' = upset \cup {"cut"}
          /\ UNCHANGED <<tmux, moves, latest, held, last, running>>
      BY <1>8 DEF RestoreIsCut
    <2> HIDE DEF TypeInv
    <2> QED
      BY <2>1, <2>2 DEF TypeInv, Alive, Holds
  <1>9. CASE Attach
    <2>1. /\ link' \in 0..MaxServers /\ kept' \in SUBSET Servers
          /\ avoided' \in SUBSET Servers
      <3>1. 0 \in 0..MaxServers /\ (Alive => server \in Servers)
        BY DaemonAssumption DEF Servers
      <3> QED
        BY <1>9, <3>1 DEF Attach, Keeping, Avoiding
    <2>2. /\ stage = "attaching" /\ stage' = "polling"
          /\ activity' = FALSE /\ quiet' = -1 /\ age' = 0
          /\ UNCHANGED <<tmux, budget, latest, upset, booting, last, decided, captured>>
      BY <1>9 DEF Attach
    <2>3. -1 \in -1..Debounce /\ 0 \in 0..MaxInterval
      BY DaemonAssumption
    <2> HIDE DEF TypeInv
    <2> QED
      BY <2>1, <2>2, <2>3 DEF TypeInv, Alive, Holds
  <1>10. CASE BootFails
    <2>1. faults' \in 0..MaxFaults
      BY <1>10, FaultType DEF BootFails
    <2>2. /\ stage' = "asleep" /\ decided' = Nothing
          /\ held' = NothingHeld /\ restoring' = Nothing
          /\ UNCHANGED <<tmux, moves, latest, upset, lacking, todo, making, owed, last,
                         running>>
      BY <1>10 DEF BootFails
    <2>3. NothingHeld \in [server : 0..MaxServers, built : SUBSET AllNames]
          /\ NothingHeld.built = {}
      BY DaemonAssumption DEF NothingHeld
    <2> HIDE DEF TypeInv
    <2> QED
      BY <2>1, <2>2, <2>3 DEF TypeInv, Alive, Holds
  <1> QED
    BY <1>1, <1>2, <1>3, <1>4, <1>5, <1>6, <1>7, <1>8, <1>9, <1>10

\* The steps of the run loop preserve the types.
LEMMA RunTypes ==
    ASSUME TypeInv,
           Poll \/ LoseLink \/ SaveSucceeds \/ SaveFails \/ Refuse \/ BootAgain
    PROVE  TypeInv'
  <1> USE DEF TypeInv, TypeOK, tmux, budget, booting, running
  <1>0. -1 \in -1..Debounce /\ 0 \in 0..MaxInterval
    BY DaemonAssumption
  <1>1. CASE Poll
    <2>1. quiet' \in -1..Debounce /\ age' \in 0..MaxInterval
      BY <1>1, DaemonAssumption DEF Poll, QuietNow, Capped
    <2>2. /\ captured' \in Snapshots \cup {Nothing}
          /\ faults' \in 0..MaxFaults
          /\ upset' \subseteq {"cut", "survey", "save"}
          /\ stage' \in {"polling", "saving"}
          /\ stage' = "saving" => captured' # Nothing
      <3>1. CASE SaveIsDue(age')
        <4>1. PICK reading \in Readings("save") :
                 /\ captured' = reading /\ Misreads("save", reading)
                 /\ stage' = "saving"
          BY <1>1, <3>1 DEF Poll
        <4> QED
          BY <4>1, ReadingFacts, FaultType, DaemonAssumption DEF Misreads
      <3>2. CASE ~ SaveIsDue(age')
        BY <1>1, <3>2 DEF Poll
      <3> QED
        BY <3>1, <3>2
    <2>3. /\ stage = "polling" /\ link = server /\ Alive /\ activity' = FALSE
          /\ UNCHANGED <<tmux, moves, latest, booting, last, decided, link, kept,
                         avoided>>
      BY <1>1 DEF Poll
    <2> HIDE DEF TypeInv
    <2> QED
      BY <2>1, <2>2, <2>3 DEF TypeInv, Alive, Holds
  <1>2. CASE LoseLink
    <2>1. faults' \in 0..MaxFaults
      BY <1>2, FaultType DEF LoseLink
    <2>2. /\ stage' = "asleep" /\ last' = decided /\ decided' = Nothing
          /\ link' = 0 /\ activity' = FALSE /\ quiet' = -1 /\ age' = 0
          /\ UNCHANGED <<tmux, moves, latest, upset, booting, captured, kept, avoided>>
      BY <1>2 DEF LoseLink
    <2>3. 0 \in 0..MaxServers
      BY DaemonAssumption
    <2> HIDE DEF TypeInv
    <2> QED
      BY <1>0, <2>1, <2>2, <2>3 DEF TypeInv, Alive, Holds
  <1>3. CASE SaveSucceeds \/ Refuse
    <2>1. decided' \in Decisions /\ decided' # Nothing
      <3>1. decided \in Decisions
        BY <1>3 DEF SaveSucceeds, Refuse
      <3>2. decided' = [decided EXCEPT !.boot = Settled]
        BY <1>3 DEF SaveSucceeds, Refuse
      <3>3. decided' \in Decisions
        BY <3>1, <3>2 DEF Decisions, Boots
      <3> QED
        BY <3>3, DaemonAssumption
    <2>2. kept' \in SUBSET Servers /\ avoided' \in SUBSET Servers
      BY <1>3 DEF SaveSucceeds, Refuse, Keeping, Servers
    <2>3. latest' \in Saved \cup {Nothing} /\ ours' \in SUBSET AllNames
      BY <1>3 DEF SaveSucceeds, Refuse, Holds, BootstrapOnly, Saved
    <2>4. /\ stage' = "polling" /\ captured' = Nothing /\ quiet' = -1 /\ age' = 0
          /\ UNCHANGED <<server, sessions, byUser, budget, booting, last, link,
                         activity, upset>>
      BY <1>3 DEF SaveSucceeds, Refuse, RecordSave
    <2> HIDE DEF TypeInv
    <2> QED
      BY <1>0, <2>1, <2>2, <2>3, <2>4 DEF TypeInv, Alive, Holds
  <1>4. CASE SaveFails
    <2>1. faults' \in 0..MaxFaults
      BY <1>4, FaultType DEF SaveFails
    <2>2. /\ stage = "saving" /\ stage' = "polling" /\ captured' = Nothing
          /\ UNCHANGED <<tmux, moves, latest, upset, booting, last, decided, link,
                         activity, quiet, age, kept, avoided>>
      BY <1>4 DEF SaveFails
    <2> HIDE DEF TypeInv
    <2> QED
      BY <2>1, <2>2 DEF TypeInv, Alive, Holds
  <1>5. CASE BootAgain
    <2>1. /\ stage' = "asleep" /\ last' = Nothing /\ decided' = Nothing
          /\ link' = 0 /\ activity' = FALSE /\ quiet' = -1 /\ age' = 0
          /\ captured' = Nothing
          /\ UNCHANGED <<tmux, budget, latest, upset, booting, kept, avoided>>
      BY <1>5 DEF BootAgain
    <2>2. 0 \in 0..MaxServers
      BY DaemonAssumption
    <2> HIDE DEF TypeInv
    <2> QED
      BY <1>0, <2>1, <2>2 DEF TypeInv, Alive, Holds
  <1> QED
    BY <1>1, <1>2, <1>3, <1>4, <1>5

\* Whatever the user does between two steps of the daemon, a stage that is
\* about a restore, a decision or a capture has one.
THEOREM TypesAreKept == Spec => []TypeInv
  <1>1. Init => TypeInv
    <2> SUFFICES ASSUME Init
                 PROVE  TypeInv
      OBVIOUS
    <2>1. sessions \in Snapshots /\ ~ Alive
      BY DEF Init, Empty, Snapshots, Alive, Holds
    <2>2. held \in [server : 0..MaxServers, built : SUBSET AllNames] /\ held.built = {}
      BY DaemonAssumption DEF Init, NothingHeld
    <2>3. /\ 0 \in 0..MaxServers /\ 0 \in 0..MaxMoves /\ 0 \in 0..MaxFaults
          /\ -1 \in -1..Debounce /\ 0 \in 0..MaxInterval
      BY DaemonAssumption
    <2> QED
      BY <2>1, <2>2, <2>3 DEF Init, TypeInv, TypeOK
  <1>2. TypeInv /\ [Next]_vars => TypeInv'
    <2> SUFFICES ASSUME TypeInv, [Next]_vars
                 PROVE  TypeInv'
      OBVIOUS
    <2>1. CASE UNCHANGED vars
      BY <2>1 DEF vars, TypeInv, TypeOK, Alive, Holds, tmux, budget, booting, running
    <2> QED
      BY <2>1, UserTypes, BootTypes, RunTypes DEF Next, DaemonStep
  <1> QED
    BY <1>1, <1>2, PTL DEF Spec

\* So the type invariant the run checks holds of every instance.
THEOREM TypeCorrect == Spec => []TypeOK
  <1>1. TypeInv => TypeOK
    BY DEF TypeInv
  <1> QED
    BY <1>1, TypesAreKept, PTL

-----------------------------------------------------------------------------
\* What a step of the user may do to a server: start the next one when none is
\* left; on the one that is there, close and build, which is kept in mind; and
\* end it, though not in the middle of a boot unless RestartInBoot.
LEMMA UserChange ==
    ASSUME TypeInv, UserStep
    PROVE  /\ \/ Alive /\ server' = server
              \/ ~ Alive /\ server' = server + 1 /\ Built(sessions)' = {}
           /\ server' = server /\ Alive' =>
                 /\ \A m \in Holds(sessions) :
                       m \in Holds(sessions)' \/ m \in byUser'[server]
                 /\ \A m \in Built(sessions)' :
                       m \in Built(sessions) \/ m \in byUser'[server]
           /\ \A s \in Servers : byUser[s] \subseteq byUser'[s]
           /\ ~ Alive' => Built(sessions)' = {}
           /\ Alive /\ ~ Alive' => MayEnd
           /\ ours \subseteq Holds(sessions) => ours' \subseteq Holds(sessions)'
           /\ ours' \subseteq ours
  <1> USE DEF TypeInv, TypeOK
  <1>1. ASSUME NEW n \in Names, OpenSession(n)
        PROVE  /\ server' = IF Alive THEN server ELSE server + 1
               /\ Holds(sessions)' = Holds(sessions) \cup {n}
               /\ Built(sessions)' = Built(sessions)
               /\ UNCHANGED <<byUser, ours>>
    <2>1. n \in AllNames /\ sessions' = [sessions EXCEPT ![n] = "idle"]
          /\ sessions[n] = "absent"
      BY <1>1 DEF OpenSession, AllNames
    <2>2. Holds(sessions)' = Holds(sessions) \cup {n}
      BY <2>1 DEF Holds, Snapshots
    <2>3. Built(sessions)' = Built(sessions)
      BY <2>1 DEF Built, Snapshots
    <2> QED
      BY <1>1, <2>2, <2>3 DEF OpenSession
  <1>2. ASSUME NEW n \in Names, Work(n) \/ CloseSession(n)
        PROVE  /\ Alive /\ server' = server /\ server \in Servers
               /\ Holds(sessions)' \cup {n} = Holds(sessions)
               /\ Built(sessions)' \subseteq Built(sessions) \cup {n}
               /\ n \in byUser'[server]
               /\ \A s \in Servers : byUser[s] \subseteq byUser'[s]
               /\ ours' \subseteq ours
               /\ n \in Holds(sessions)' \/ ours' = ours \ {n}
               /\ Holds(sessions)' = {} => MayEnd
    <2>1. n \in AllNames /\ sessions[n] # "absent" /\ UNCHANGED server
          /\ byUser' = [byUser EXCEPT ![server] = @ \cup {n}]
          /\ ours' \in {ours, ours \ {n}}
      BY <1>2 DEF AllNames, Work, CloseSession
    <2>2. Alive /\ server \in Servers
      BY <2>1 DEF Alive, Holds, Servers
    <2>3. /\ Holds(sessions)' \cup {n} = Holds(sessions)
          /\ n \in Holds(sessions)' \/ ours' = ours \ {n}
          /\ Holds(sessions)' = {} => MayEnd
      <3>1. CASE Work(n)
        <4>1. sessions' = [sessions EXCEPT ![n] = IF @ = "idle" THEN "built" ELSE "idle"]
          BY <3>1 DEF Work
        <4> QED
          BY <2>1, <4>1 DEF Holds, Snapshots
      <3>2. CASE CloseSession(n)
        <4>1. /\ sessions' = [sessions EXCEPT ![n] = "absent"]
              /\ ours' = ours \ {n}
              /\ Holds(sessions) = {n} => MayEnd
          BY <3>2 DEF CloseSession
        <4>2. Holds(sessions)' = Holds(sessions) \ {n} /\ n \in Holds(sessions)
          BY <2>1, <4>1 DEF Holds, Snapshots
        <4> QED
          BY <4>1, <4>2
      <3> QED
        BY <1>2, <3>1, <3>2
    <2>4. Built(sessions)' \subseteq Built(sessions) \cup {n}
      BY <1>2, <2>1 DEF Work, CloseSession, Built, Snapshots
    <2> QED
      BY <2>1, <2>2, <2>3, <2>4
  <1>3. ASSUME EndServer
        PROVE  /\ Alive /\ server' = server /\ MayEnd
               /\ Holds(sessions)' = {} /\ Built(sessions)' = {}
               /\ ours' = {} /\ UNCHANGED byUser
    BY <1>3 DEF EndServer, Empty, Holds, Built
  <1>4. \A m \in Built(sessions)' : m \in Holds(sessions)'
    BY DEF Built, Holds
  <1>5. \A m \in Built(sessions) : m \in Holds(sessions)
    BY DEF Built, Holds
  <1> HIDE DEF TypeInv, TypeOK
  <1>6. CASE \E n \in Names : OpenSession(n)
    BY <1>1, <1>4, <1>5, <1>6 DEF Alive
  <1>7. CASE \E n \in Names : Work(n) \/ CloseSession(n)
    <2>1. PICK n \in Names : Work(n) \/ CloseSession(n)
      BY <1>7
    <2> QED
      BY <1>2, <1>4, <2>1 DEF Alive
  <1>8. CASE EndServer
    BY <1>3, <1>8 DEF Alive
  <1> QED
    BY <1>6, <1>7, <1>8 DEF UserStep

\* No step of the user takes a kept server out of the daemon's sight.
LEMMA UserKeepsKept ==
    ASSUME RestartInBoot = FALSE, TypeInv, KeptInv, UserStep
    PROVE  KeptInv'
  <1>1. UNCHANGED <<stage, held, last, decided, link, kept>>
    BY UserStepFacts DEF booting
  <1>2. server \in Nat /\ \A s \in kept : s \in Nat
    BY DEF TypeInv, TypeOK, Servers
  <1>3. /\ stage \in {"surveyed", "attaching"} /\ Alive => Alive'
        /\ \/ Alive /\ server' = server
           \/ ~ Alive /\ server' = server + 1
    BY UserChange DEF MayEnd
  <1>4. /\ decided # Nothing => decided.server \in Nat
        /\ last # Nothing => last.server \in Nat
    BY DEF TypeInv, TypeOK, Decisions, Servers
  <1>5. CASE Alive /\ server' = server
    BY <1>1, <1>2, <1>3, <1>4, <1>5 DEF KeptInv
  <1>6. CASE ~ Alive /\ server' = server + 1
    <2>1. server' \notin kept /\ \A s \in kept : s <= server'
      BY <1>2, <1>6 DEF KeptInv
    <2>2. /\ decided # Nothing => decided.server <= server'
          /\ last # Nothing => last.server <= server'
      BY <1>2, <1>4, <1>6 DEF KeptInv
    <2> QED
      BY <1>1, <1>6, <2>1, <2>2 DEF KeptInv
  <1> QED
    BY <1>3, <1>5, <1>6

\* Nor does any step of a boot.
LEMMA BootKeepsKept ==
    ASSUME TypeInv, KeptInv,
           \/ Survey \/ Decide \/ OpenAndPlan \/ CloseScratch \/ Furnish
           \/ FinishRestore \/ \E n \in AllNames : CreateSession(n)
           \/ RestoreIsCut \/ Attach \/ BootFails
    PROVE  KeptInv'
  <1> USE DEF tmux, budget, booting, running, InRun
  <1>0. /\ server \in Nat /\ \A s \in kept : s \in Nat
        /\ decided # Nothing => decided.server \in Nat /\ decided.server # 0
        /\ last # Nothing => last.server \in Nat /\ last.server # 0
        /\ Alive => server # 0
    BY DEF TypeInv, TypeOK, Servers, Decisions
  <1>1. CASE Survey
    <2>1. held'.server = IF Alive THEN server ELSE 0
      BY <1>1 DEF Survey, NothingHeld
    <2>2. /\ stage = "asleep" /\ stage' = "surveyed"
          /\ UNCHANGED <<server, sessions, kept, last, decided>>
      BY <1>1 DEF Survey
    <2> QED
      BY <1>0, <2>1, <2>2 DEF KeptInv, Alive, Holds
  <1>2. CASE Decide
    <2>1. /\ stage = "surveyed"
          /\ UNCHANGED <<server, sessions, kept, last>>
      BY <1>2 DEF Decide
    <2>2. CASE Returning
      <3>1. /\ last # Nothing /\ last.server = held.server
            /\ stage' = "attaching" /\ decided' = last
        BY <1>2, <2>2 DEF Decide, Attaching, Returning
      <3> QED
        BY <1>0, <2>1, <3>1 DEF KeptInv, Alive, Holds
    <2>3. CASE ~ Returning
      <3>1. Alive => server \notin kept
        BY <1>0, <2>1, <2>3 DEF KeptInv, Returning
      <3>2. CASE stage' = "attaching"
        <4>1. /\ held.server # 0
              /\ decided'.server = held.server /\ decided' # Nothing
          <5>1. CASE held.built # {}
            <6>1. decided' = [server |-> held.server, boot |-> Declined(held.built)]
              BY <1>2, <2>3, <5>1 DEF Decide, Attaching
            <6>2. /\ held.server # 0 /\ held.server \in Servers
                  /\ held.built \in SUBSET AllNames
              BY <5>1 DEF TypeInv, TypeOK, Servers
            <6>3. decided' \in Decisions
              BY <5>1, <6>1, <6>2, DecisionFacts
            <6> QED
              BY <6>1, <6>2, <6>3, DaemonAssumption
          <5>2. CASE held.built = {}
            <6>1. /\ held.server # 0
                  /\ decided' = [server |-> held.server, boot |-> Settled]
              BY <1>2, <2>3, <3>2, <5>2 DEF Decide, Attaching
            <6>2. held.server \in Servers
              BY <6>1 DEF TypeInv, TypeOK, Servers
            <6>3. decided' \in Decisions
              BY <6>1, <6>2, DecisionFacts
            <6> QED
              BY <6>1, <6>3, DaemonAssumption
          <5> QED
            BY <5>1, <5>2
        <4>2. Alive /\ held.server = server
          BY <2>1, <4>1 DEF KeptInv
        <4> QED
          BY <1>0, <2>1, <3>1, <3>2, <4>1, <4>2 DEF KeptInv, Alive, Holds
      <3>3. CASE stage' # "attaching"
        <4>1. stage' \in {"restoring", "asleep"} /\ decided' = decided
          BY <1>2, <2>3, <3>3 DEF Decide, Attaching
        <4> QED
          BY <1>0, <2>1, <3>1, <4>1 DEF KeptInv, Alive, Holds
      <3> QED
        BY <3>2, <3>3
    <2> QED
      BY <2>2, <2>3
  <1>3. CASE OpenAndPlan
    <2>1. /\ stage = "restoring" /\ stage' = "applying"
          /\ decided' = [server |-> server', boot |-> Settled]
          /\ UNCHANGED <<kept, last>>
      BY <1>3 DEF OpenAndPlan
    <2>2. \/ Alive /\ server' = server
          \/ ~ Alive /\ server' = server + 1
      BY <1>3 DEF OpenAndPlan
    <2>3. server' \notin kept /\ server' \in Nat /\ server <= server'
      BY <1>0, <2>1, <2>2 DEF KeptInv
    <2> QED
      BY <1>0, <2>1, <2>3 DEF KeptInv
  <1>4. CASE CloseScratch \/ Furnish \/ \E n \in AllNames : CreateSession(n)
    <2>1. /\ stage = "applying" /\ stage' = "applying"
          /\ UNCHANGED <<server, kept, last, decided>>
      BY <1>4 DEF CloseScratch, Furnish, CreateSession
    <2>2. Alive' => Alive
      <3>1. CASE CloseScratch
        BY <3>1 DEF CloseScratch, ScratchIsDue, Alive, Holds, TypeInv, TypeOK, Snapshots
      <3>2. CASE Furnish
        BY <3>2 DEF Furnish, Alive, Holds, TypeInv, TypeOK
      <3>3. CASE \E n \in AllNames : CreateSession(n)
        BY <3>3 DEF CreateSession
      <3> QED
        BY <1>4, <3>1, <3>2, <3>3
    <2> QED
      BY <2>1, <2>2 DEF KeptInv
  <1>5. CASE FinishRestore
    <2>1. /\ stage = "applying" /\ stage' = "attaching"
          /\ decided.server = server /\ Alive
          /\ UNCHANGED <<server, sessions, kept, last, decided>>
      BY <1>5 DEF FinishRestore
    <2> QED
      BY <1>0, <2>1 DEF KeptInv, Alive, Holds
  <1>6. CASE RestoreIsCut \/ BootFails
    <2>1. /\ stage \in {"applying", "surveyed", "restoring", "attaching"}
          /\ stage' = "asleep" /\ decided' = Nothing
          /\ UNCHANGED <<server, sessions, kept, last>>
      BY <1>6 DEF RestoreIsCut, BootFails
    <2> QED
      BY <2>1 DEF KeptInv, Alive, Holds
  <1>7. CASE Attach
    <2>1. /\ stage = "attaching" /\ stage' = "polling" /\ Alive
          /\ decided.server = server /\ link' = server
          /\ kept' = IF decided.boot = Settled THEN kept \cup {server} ELSE kept
          /\ UNCHANGED <<server, sessions, last, decided>>
      BY <1>7 DEF Attach, Keeping, KeptInv
    <2> QED
      BY <1>0, <2>1 DEF KeptInv, TypeInv
  <1> QED
    BY <1>1, <1>2, <1>3, <1>4, <1>5, <1>6, <1>7

\* Nor does any step of a run.
LEMMA RunKeepsKept ==
    ASSUME TypeInv, KeptInv,
           Poll \/ LoseLink \/ SaveSucceeds \/ SaveFails \/ Refuse \/ BootAgain
    PROVE  KeptInv'
  <1> USE DEF tmux, budget, booting, running, InRun
  <1>0. /\ server \in Nat /\ \A s \in kept : s \in Nat
        /\ decided # Nothing => decided.server \in Nat
        /\ last # Nothing => last.server \in Nat
    BY DEF TypeInv, TypeOK, Servers, Decisions
  <1>1. CASE Poll \/ SaveFails
    <2>1. /\ stage \in InRun /\ stage' \in InRun
          /\ UNCHANGED <<server, sessions, kept, last, decided, link>>
      BY <1>1 DEF Poll, SaveFails
    <2> QED
      BY <1>0, <2>1 DEF KeptInv, Alive, Holds
  <1>2. CASE LoseLink
    <2>1. /\ stage = "polling" /\ stage' = "asleep"
          /\ last' = decided /\ decided' = Nothing
          /\ UNCHANGED <<server, sessions, kept>>
      BY <1>2 DEF LoseLink
    <2> QED
      BY <1>0, <2>1 DEF KeptInv, Alive, Holds, TypeInv
  <1>3. CASE SaveSucceeds \/ Refuse
    <2>1. /\ stage = "saving" /\ stage' = "polling"
          /\ decided' = [decided EXCEPT !.boot = Settled]
          /\ kept' = kept \cup {link}
          /\ UNCHANGED <<server, sessions, last, link>>
      BY <1>3 DEF SaveSucceeds, Refuse, Keeping
    <2>2. decided \in Decisions
      BY <2>1 DEF TypeInv, TypeOK
    <2>3. decided'.server = decided.server /\ decided'.boot = Settled
      BY <2>1, <2>2 DEF Decisions
    <2> QED
      BY <1>0, <2>1, <2>2, <2>3 DEF KeptInv, Alive, Holds, TypeInv
  <1>4. CASE BootAgain
    <2>1. /\ stage = "saving" /\ stage' = "asleep"
          /\ decided.boot # Settled
          /\ last' = Nothing /\ decided' = Nothing
          /\ UNCHANGED <<server, sessions, kept>>
      BY <1>4 DEF BootAgain, Misread
    <2>2. ~ (Alive /\ server \in kept)
      BY <2>1 DEF KeptInv, TypeInv
    <2> QED
      BY <1>0, <2>1, <2>2 DEF KeptInv, Alive, Holds
  <1> QED
    BY <1>1, <1>2, <1>3, <1>4

\* If the server does not end in the middle of a boot, a settled decision
\* stays with the server it is about for as long as that server lives.
THEOREM KeptIsKept ==
    ASSUME RestartInBoot = FALSE
    PROVE  Spec => []KeptInv
  <1>1. Init => KeptInv
    BY DEF Init, KeptInv, InRun
  <1>2. TypeInv /\ KeptInv /\ [Next]_vars => KeptInv'
    <2> SUFFICES ASSUME TypeInv, KeptInv, [Next]_vars
                 PROVE  KeptInv'
      OBVIOUS
    <2>1. CASE UNCHANGED vars
      BY <2>1 DEF vars, KeptInv, Alive, Holds, tmux, booting, running
    <2> QED
      BY <2>1, UserKeepsKept, BootKeepsKept, RunKeepsKept DEF Next, DaemonStep
  <1> QED
    BY <1>1, <1>2, TypesAreKept, PTL DEF Spec

\* A server that a run with its boot settled has been beside is never restored
\* into again, where no server restarts between survey and attach.
THEOREM KeptServersAreLeftAlone ==
    ASSUME RestartInBoot = FALSE
    PROVE  Spec => []KeptServersLeftAlone
  <1>1. KeptInv => KeptServersLeftAlone
    BY DEF KeptInv, KeptServersLeftAlone
  <1> QED
    BY <1>1, KeptIsKept, PTL

-----------------------------------------------------------------------------
\* No step of the user makes a restore lose sight of a saved session.
LEMMA UserKeepsRestore ==
    ASSUME TypeInv, KeptInv, RestoreInv, UserStep
    PROVE  RestoreInv'
  <1>1. UNCHANGED <<stage, held, latest, restoring, todo, making, owed, last, decided>>
    BY UserStepFacts DEF booting
  <1>2. ours' \subseteq Holds(sessions)' /\ ours' \subseteq ours
    BY UserChange DEF RestoreInv
  <1>3. /\ server \in Nat
        /\ decided # Nothing => decided.server \in Nat
        /\ last # Nothing => last.server \in Nat
        /\ Alive => server \in Servers
    BY DEF TypeInv, TypeOK, Servers, Decisions
  <1>4. /\ decided # Nothing => decided.server <= server
        /\ last # Nothing => last.server <= server
    BY DEF KeptInv
  <1>5. CASE Alive /\ server' = server
    <2>1. \A n : n \in Holds(sessions) \/ n \in byUser[server]
             => ~ Alive' \/ n \in Holds(sessions)' \/ n \in byUser'[server]
      BY <1>3, <1>5, UserChange
    <2> QED
      BY <1>1, <1>2, <1>5, <2>1 DEF RestoreInv
  <1>6. CASE ~ Alive /\ server' = server + 1
    <2>1. /\ decided # Nothing => decided.server # server'
          /\ last # Nothing => last.server # server'
      BY <1>3, <1>4, <1>6
    <2>2. stage = "applying" => decided # Nothing
      BY DEF TypeInv
    <2> QED
      BY <1>1, <1>2, <2>1, <2>2 DEF RestoreInv
  <1> QED
    BY <1>5, <1>6, UserChange

\* Nor does any step of a restore.
LEMMA ApplyKeepsRestore ==
    ASSUME TypeInv, KeptInv, RestoreInv,
           \/ OpenAndPlan \/ CloseScratch \/ Furnish
           \/ \E n \in AllNames : CreateSession(n)
    PROVE  RestoreInv'
  <1>1. CASE OpenAndPlan
    <2>1. /\ stage = "restoring" /\ stage' = "applying"
          /\ todo' = Holds(restoring) \ ours
          /\ decided' = [server |-> server', boot |-> Settled]
          /\ UNCHANGED <<byUser, ours, latest, restoring, making, last>>
      BY <1>1 DEF OpenAndPlan, budget
    <2>2. /\ Holds(sessions) \subseteq Holds(sessions)'
          /\ last # Nothing => last.server # server'
          /\ owed' # Nothing => owed' \notin Holds(restoring) \cup ours
      <3>1. CASE Alive
        BY <1>1, <2>1, <3>1 DEF OpenAndPlan, RestoreInv, Holds
      <3>2. CASE ~ Alive
        <4>1. Holds(sessions) = {} /\ ours = {}
          BY <3>2 DEF Alive, RestoreInv
        <4>2. server' = server + 1 /\ owed' \notin Holds(restoring)
          BY <1>1, <3>2 DEF OpenAndPlan
        <4>3. last # Nothing => last.server # server'
          BY <4>2 DEF KeptInv, TypeInv, TypeOK, Decisions, Servers
        <4> QED
          BY <4>1, <4>2, <4>3
      <3> QED
        BY <3>1, <3>2
    <2>3. ours \subseteq Holds(sessions)'
      BY <2>2 DEF RestoreInv
    <2>4. making' = Nothing
      BY <2>1 DEF RestoreInv
    <2>5. restoring = latest
      BY <2>1 DEF RestoreInv
    <2> QED
      BY <2>1, <2>2, <2>3, <2>4, <2>5 DEF RestoreInv
  <1>2. CASE CloseScratch
    <2>1. /\ stage = "applying" /\ owed # Nothing /\ owed' = Nothing
          /\ UNCHANGED <<server, byUser, ours, latest, stage, restoring, todo, making,
                         last, decided>>
      BY <1>2 DEF CloseScratch, ScratchIsDue, budget
    <2>2. Holds(sessions)' = Holds(sessions) \ {owed}
      BY <1>2 DEF CloseScratch, Holds, TypeInv, TypeOK, Snapshots
    <2>3. Alive' => Alive
      BY <2>2 DEF Alive
    <2> QED
      BY <2>1, <2>2, <2>3 DEF RestoreInv
  <1>3. CASE Furnish
    <2>1. /\ stage = "applying" /\ making # Nothing /\ making \in Holds(restoring)
          /\ todo' = todo \ {making} /\ making' = Nothing
          /\ ours' = ours \cup {making}
          /\ UNCHANGED <<server, byUser, latest, stage, restoring, owed, last, decided>>
      BY <1>3 DEF Furnish, RestoreInv, budget
    <2>2. Holds(sessions)' = Holds(sessions) /\ making \in Holds(sessions)
      BY <1>3, <2>1 DEF Furnish, Holds, TypeInv, TypeOK, Snapshots
    <2>3. Alive' => Alive
      BY <2>2 DEF Alive
    <2> QED
      BY <2>1, <2>2, <2>3 DEF RestoreInv
  <1>4. ASSUME NEW n \in AllNames, CreateSession(n)
        PROVE  RestoreInv'
    <2>1. /\ stage = "applying" /\ n \in todo /\ making' = n /\ Alive
          /\ UNCHANGED <<server, byUser, ours, latest, stage, restoring, todo, owed,
                         last, decided>>
      BY <1>4 DEF CreateSession, budget
    <2>2. Holds(sessions) \subseteq Holds(sessions)'
      BY <1>4 DEF CreateSession, Holds, TypeInv, TypeOK, Snapshots
    <2> QED
      BY <2>1, <2>2 DEF RestoreInv
  <1> QED
    BY <1>1, <1>2, <1>3, <1>4

\* The other steps begin, end or are not about a restore.
LEMMA OtherKeepsRestore ==
    ASSUME TypeInv, KeptInv, RestoreInv,
           \/ Survey \/ Decide \/ FinishRestore \/ RestoreIsCut \/ Attach \/ BootFails
           \/ Poll \/ LoseLink \/ SaveSucceeds \/ SaveFails \/ Refuse \/ BootAgain
    PROVE  RestoreInv'
  <1> USE DEF tmux, budget, booting, running
  <1>1. CASE Decide
    <2>1. /\ stage = "surveyed" /\ stage' \notin {"applying", "surveyed"}
          /\ UNCHANGED <<server, sessions, byUser, ours, latest, making, last>>
      BY <1>1 DEF Decide, Attaching
    <2>2. stage' = "restoring" => restoring' = latest /\ ~ Returning
      BY <1>1 DEF Decide, Attaching
    <2>3. ~ Returning /\ Alive /\ last # Nothing => last.server # server
      <3> SUFFICES ASSUME ~ Returning, Alive, last # Nothing, last.server = server
                   PROVE  FALSE
        OBVIOUS
      <3>1. held.server = 0
        BY <2>1 DEF Returning, KeptInv
      <3> QED
        BY <2>1, <3>1 DEF RestoreInv
    <2> QED
      BY <2>1, <2>2, <2>3 DEF RestoreInv, Alive, Holds
  <1>2. CASE SaveSucceeds
    <2>1. /\ ours' \subseteq Holds(sessions) /\ stage = "saving" /\ stage' = "polling"
          /\ UNCHANGED <<sessions, making>>
      BY <1>2 DEF SaveSucceeds
    <2> QED
      BY <2>1 DEF RestoreInv, Holds
  <1>3. CASE FinishRestore \/ RestoreIsCut \/ Attach \/ BootFails
    <2>1. /\ stage' \notin {"restoring", "applying", "surveyed"}
          /\ making' = Nothing
          /\ UNCHANGED <<sessions, ours>>
      BY <1>3 DEF FinishRestore, RestoreIsCut, Attach, BootFails, RestoreInv
    <2> QED
      BY <2>1 DEF RestoreInv, Holds
  <1>4. CASE Poll \/ LoseLink \/ SaveFails \/ Refuse \/ BootAgain
    <2>1. /\ stage' \notin {"restoring", "applying", "surveyed"}
          /\ making' = Nothing
          /\ UNCHANGED <<sessions, ours>>
      BY <1>4 DEF Poll, LoseLink, SaveFails, Refuse, BootAgain, RestoreInv
    <2> QED
      BY <2>1 DEF RestoreInv, Holds
  <1>5. CASE Survey
    <2>1. /\ stage = "asleep" /\ stage' = "surveyed"
          /\ held'.server = IF Alive THEN server ELSE 0
          /\ UNCHANGED <<server, sessions, ours, making, last>>
      BY <1>5 DEF Survey, NothingHeld
    <2> QED
      BY <2>1 DEF RestoreInv, TypeInv, Alive, Holds
  <1> QED
    BY <1>1, <1>2, <1>3, <1>4, <1>5

\* A restore that comes to its end has put everything back.
THEOREM RestoreIsKept ==
    ASSUME RestartInBoot = FALSE
    PROVE  Spec => []RestoreInv
  <1>1. Init => RestoreInv
    BY DEF Init, RestoreInv
  <1>2. TypeInv /\ KeptInv /\ RestoreInv /\ [Next]_vars => RestoreInv'
    <2> SUFFICES ASSUME TypeInv, KeptInv, RestoreInv, [Next]_vars
                 PROVE  RestoreInv'
      OBVIOUS
    <2>1. CASE UNCHANGED vars
      BY <2>1 DEF vars, RestoreInv, Alive, Holds, tmux, booting
    <2> QED
      BY <2>1, UserKeepsRestore, ApplyKeepsRestore, OtherKeepsRestore
      DEF Next, DaemonStep
  <1> QED
    BY <1>1, <1>2, TypesAreKept, KeptIsKept, PTL DEF Spec

-----------------------------------------------------------------------------
\* What was put back, and what keeps a boot out, outlasts the user's steps.
LEMMA UserKeepsPutBack ==
    ASSUME TypeInv, UserStep, server' = server, Alive, Alive'
    PROVE  /\ PutBack => PutBack'
           /\ \A boot \in Boots : StaysOutFor(boot) => StaysOutFor(boot)'
           /\ (\A n \in Built(sessions) : n \in byUser[server])
                => \A n \in Built(sessions)' : n \in byUser'[server]
           /\ \A names : (\E n \in names : n \in byUser[server])
                => \E n \in names : n \in byUser'[server]
           /\ Excused(server) => Excused(server)'
  <1>1. /\ \A m \in Holds(sessions) : m \in Holds(sessions)' \/ m \in byUser'[server]
        /\ \A m \in Built(sessions)' : m \in Built(sessions) \/ m \in byUser'[server]
        /\ byUser[server] \subseteq byUser'[server]
    <2>1. server \in Servers
      BY DEF TypeInv, TypeOK, Servers
    <2> QED
      BY <2>1, UserChange
  <1>2. UNCHANGED <<latest, avoided>>
    BY UserStepFacts
  <1>3. PutBack => PutBack'
    BY <1>1, <1>2 DEF PutBack
  <1>4. \A names : (\E n \in names : n \in byUser[server])
           => \E n \in names : n \in byUser'[server]
    BY <1>1
  <1>5. \A boot \in Boots : StaysOutFor(boot) => StaysOutFor(boot)'
    BY <1>3, <1>4 DEF StaysOutFor
  <1>6. Excused(server) => Excused(server)'
    BY <1>1, <1>2 DEF Excused
  <1>7. (\A n \in Built(sessions) : n \in byUser[server])
           => \A n \in Built(sessions)' : n \in byUser'[server]
    BY <1>1
  <1> QED
    BY <1>3, <1>4, <1>5, <1>6, <1>7

\* Nor does a step of the user take its reason from a boot that stays out.
LEMMA UserKeepsCalm ==
    ASSUME RestartInBoot = FALSE, TypeInv, KeptInv, CalmInv, UserStep
    PROVE  CalmInv'
  <1>1. UNCHANGED <<stage, held, last, decided, link, upset>>
    BY UserStepFacts DEF booting
  <1>2. SUFFICES ASSUME IsCalm
                 PROVE  CalmInv'
    BY <1>1 DEF CalmInv, IsCalm
  <1>3. /\ server \in Nat
        /\ decided # Nothing => decided.server \in Nat /\ decided.server <= server
                                /\ decided.boot \in Boots
        /\ last # Nothing => last.server \in Nat /\ last.server <= server
                             /\ last.boot \in Boots
    BY DEF TypeInv, TypeOK, Servers, Decisions, KeptInv
  <1>4. stage = "surveyed" /\ held.built # {} => Alive /\ Alive' /\ server' = server
    BY UserChange DEF KeptInv, TypeInv, MayEnd
  <1>5. CASE Alive' /\ Alive /\ server' = server
    BY <1>1, <1>2, <1>3, <1>5, UserKeepsPutBack DEF CalmInv
  <1>6. CASE ~ Alive'
    BY <1>1, <1>4, <1>6, UserChange DEF CalmInv
  <1>7. CASE ~ Alive /\ server' = server + 1
    <2>1. /\ Built(sessions)' = {}
          /\ decided # Nothing => decided.server # server'
          /\ last # Nothing => last.server # server'
      BY <1>3, <1>7, UserChange
    <2> QED
      BY <1>1, <1>4, <1>7, <2>1 DEF CalmInv
  <1> QED
    BY <1>5, <1>6, <1>7, UserChange

\* Nor a session from what a run saves.
LEMMA UserKeepsSave ==
    ASSUME RestartInBoot = FALSE, TypeInv, KeptInv, SaveInv, UserStep
    PROVE  SaveInv'
  <1>1. UNCHANGED <<stage, held, latest, last, decided, link, captured, upset, avoided>>
    BY UserStepFacts DEF booting
  <1>2. SUFFICES ASSUME IsCalm
                 PROVE  SaveInv'
    BY <1>1 DEF SaveInv, IsCalm
  <1>3. /\ server \in Nat
        /\ last # Nothing => last.server \in Nat /\ last.server <= server
        /\ stage \in InRun => link \in Nat /\ link <= server
    BY DEF TypeInv, TypeOK, Servers, Decisions, KeptInv, InRun
  <1>4. stage = "attaching" => Alive /\ Alive' /\ server' = server
    BY UserChange DEF KeptInv, TypeInv, MayEnd
  <1>5. stage = "saving" /\ latest # Nothing =>
           \/ \A n \in Holds(latest) : n \in Holds(captured) \/ n \in byUser'[link]
           \/ Excused(link)'
    <2>1. stage = "saving" => byUser[link] \subseteq byUser'[link]
      BY UserChange DEF TypeInv, TypeOK, Servers
    <2> QED
      BY <1>1, <1>2, <2>1 DEF SaveInv, Excused
  <1>6. CASE Alive' /\ Alive /\ server' = server
    <2>1. \A n : n \in Holds(sessions) \/ n \in byUser[server]
             => n \in Holds(sessions)' \/ n \in byUser'[server]
      <3>1. server \in Servers
        BY <1>6 DEF TypeInv, TypeOK, Servers
      <3> QED
        BY <1>6, <3>1, UserChange
    <2> QED
      BY <1>1, <1>2, <1>5, <1>6, <2>1, UserKeepsPutBack DEF SaveInv
  <1>7. CASE ~ Alive'
    BY <1>1, <1>4, <1>5, <1>7 DEF SaveInv
  <1>8. CASE ~ Alive /\ server' = server + 1
    <2>1. /\ last # Nothing => last.server # server'
          /\ stage \in InRun => link # server'
      BY <1>3, <1>8
    <2>2. stage # "attaching" /\ (stage = "saving" => link # server')
      BY <1>4, <1>8, <2>1 DEF InRun
    <2> QED
      BY <1>1, <1>5, <2>1, <2>2 DEF SaveInv
  <1> QED
    BY <1>6, <1>7, <1>8, UserChange

\* The steps of a boot find the user's reason to stay out, or put back what is
\* to be restored.
LEMMA BootKeepsCalm ==
    ASSUME TypeInv, KeptInv, RestoreInv, RestoreInv', CalmInv,
           \/ Survey \/ Decide \/ OpenAndPlan \/ CloseScratch \/ Furnish
           \/ FinishRestore \/ \E n \in AllNames : CreateSession(n)
           \/ RestoreIsCut \/ Attach \/ BootFails
    PROVE  CalmInv'
  <1> USE DEF tmux, budget, booting, running
  <1>1. CASE Survey
    <2>1. PICK reading \in Readings("survey") :
             /\ held' = IF Alive THEN [server |-> server, built |-> Stops(reading)]
                                 ELSE NothingHeld
             /\ Misreads("survey", reading)
      BY <1>1 DEF Survey
    <2>2. /\ stage = "asleep" /\ stage' = "surveyed"
          /\ UNCHANGED <<server, sessions, byUser, latest, last, decided, link>>
      BY <1>1 DEF Survey
    <2>3. IsCalm' => IsCalm /\ held'.built \subseteq Built(sessions)
      BY <2>1 DEF Misreads, IsCalm, NothingHeld, Stops
    <2> QED
      BY <2>2, <2>3
      DEF CalmInv, StaysOutFor, PutBack, Alive, Holds, Built, InRun
  <1>2. CASE Decide
    <2>1. /\ stage = "surveyed" /\ stage' \notin {"surveyed", "applying"} \cup InRun
          /\ UNCHANGED <<server, sessions, byUser, latest, last, upset>>
      BY <1>2 DEF Decide, Attaching, InRun
    <2>2. \/ decided' = decided
          \/ last # Nothing /\ decided' = last
          \/ /\ held.built # {}
             /\ decided' = [server |-> held.server, boot |-> Declined(held.built)]
          \/ decided' = [server |-> held.server, boot |-> Settled]
      BY <1>2 DEF Decide, Attaching, Returning
    <2>3. Declined(held.built).names = held.built
      BY DEF Declined
    <2>4. IsCalm /\ decided' # Nothing /\ Alive /\ decided'.server = server
             => StaysOutFor(decided'.boot)
      BY <2>1, <2>2, <2>3 DEF CalmInv, StaysOutFor, InRun
    <2> QED
      BY <2>1, <2>4
      DEF CalmInv, IsCalm, StaysOutFor, PutBack, Alive, Holds, Built, InRun
  <1>3. CASE \/ OpenAndPlan \/ CloseScratch \/ Furnish
             \/ \E n \in AllNames : CreateSession(n)
    <2>1. stage' = "applying"
      BY <1>3 DEF OpenAndPlan, CloseScratch, Furnish, CreateSession
    <2>2. /\ decided'.boot = Settled
          /\ Alive' /\ last' # Nothing => last'.server # server'
      BY <2>1 DEF RestoreInv
    <2> QED
      BY <2>1, <2>2 DEF CalmInv, StaysOutFor, InRun
  <1>4. CASE FinishRestore
    <2>1. /\ stage = "applying" /\ stage' = "attaching" /\ todo = {}
          /\ decided.server = server /\ Alive
          /\ UNCHANGED <<server, sessions, byUser, latest, last, decided>>
      BY <1>4 DEF FinishRestore
    <2>2. PutBack /\ decided.boot = Settled /\ (last # Nothing => last.server # server)
      BY <2>1 DEF RestoreInv, PutBack
    <2> QED
      BY <2>1, <2>2
      DEF CalmInv, StaysOutFor, PutBack, Alive, Holds, Built, InRun
  <1>5. CASE RestoreIsCut
    BY <1>5 DEF RestoreIsCut, CalmInv, IsCalm
  <1>6. CASE Attach
    <2>1. /\ stage = "attaching" /\ stage' = "polling" /\ link' = server
          /\ UNCHANGED <<server, sessions, byUser, latest, last, decided, upset>>
      BY <1>6 DEF Attach, KeptInv
    <2> QED
      BY <2>1
      DEF CalmInv, IsCalm, StaysOutFor, PutBack, Alive, Holds, Built, InRun
  <1>7. CASE BootFails
    <2>1. /\ stage \in {"surveyed", "restoring", "attaching"} /\ stage' = "asleep"
          /\ decided' = Nothing
          /\ UNCHANGED <<server, sessions, byUser, latest, last, upset>>
      BY <1>7 DEF BootFails
    <2> QED
      BY <2>1
      DEF CalmInv, IsCalm, StaysOutFor, PutBack, Alive, Holds, Built, InRun
  <1> QED
    BY <1>1, <1>2, <1>3, <1>4, <1>5, <1>6, <1>7

\* A run leaves them so: a save makes what the server took with it the newest.
LEMMA RunKeepsCalm ==
    ASSUME TypeInv, CalmInv, SaveInv,
           Poll \/ LoseLink \/ SaveSucceeds \/ SaveFails \/ Refuse \/ BootAgain
    PROVE  CalmInv'
  <1> USE DEF tmux, budget, booting, running
  <1>1. CASE Poll \/ SaveFails
    <2>1. /\ stage \in InRun /\ stage' \in InRun /\ (IsCalm' => IsCalm)
          /\ UNCHANGED <<server, sessions, byUser, latest, last, decided, link>>
      BY <1>1 DEF Poll, SaveFails, InRun, Misreads, IsCalm
    <2> QED
      BY <2>1 DEF CalmInv, StaysOutFor, PutBack, Alive, Holds, Built, InRun
  <1>2. CASE LoseLink
    <2>1. /\ stage = "polling" /\ stage' = "asleep"
          /\ last' = decided /\ decided' = Nothing
          /\ UNCHANGED <<server, sessions, byUser, latest, upset>>
      BY <1>2 DEF LoseLink
    <2> QED
      BY <2>1 DEF CalmInv, IsCalm, StaysOutFor, PutBack, Alive, Holds, Built, InRun
  <1>3. CASE SaveSucceeds
    <2>1. /\ stage = "saving" /\ stage' = "polling" /\ latest' = captured
          /\ decided' = [decided EXCEPT !.boot = Settled]
          /\ UNCHANGED <<server, sessions, byUser, last, link, upset>>
      BY <1>3 DEF SaveSucceeds
    <2>2. decided' # Nothing => decided'.boot = Settled
      BY <2>1 DEF TypeInv, TypeOK, Decisions
    <2>3. IsCalm => \/ \A n \in Built(sessions) : n \in byUser[server]
                    \/ PutBack'
      <3>1. CASE ~ Alive
        BY <3>1 DEF Alive, Built, Holds
      <3>2. CASE Alive /\ server = link
        BY <2>1, <3>2 DEF SaveInv, PutBack, Holds
      <3>3. CASE Alive /\ server # link
        BY <2>1, <3>3 DEF CalmInv, InRun
      <3> QED
        BY <3>1, <3>2, <3>3
    <2> QED
      BY <2>1, <2>2, <2>3 DEF CalmInv, IsCalm, StaysOutFor, Alive, Holds, Built, InRun
  <1>4. CASE Refuse
    <2>1. /\ stage = "saving" /\ stage' = "polling"
          /\ decided' = [decided EXCEPT !.boot = Settled]
          /\ UNCHANGED <<server, sessions, byUser, latest, last, link, upset>>
      BY <1>4 DEF Refuse
    <2>2. decided'.boot = Settled
      BY <2>1 DEF TypeInv, TypeOK, Decisions
    <2> QED
      BY <2>1, <2>2
      DEF CalmInv, IsCalm, StaysOutFor, PutBack, Alive, Holds, Built, InRun
  <1>5. CASE BootAgain
    <2>1. /\ stage = "saving" /\ stage' = "asleep"
          /\ last' = Nothing /\ decided' = Nothing
          /\ UNCHANGED <<server, sessions, byUser, latest, upset>>
      BY <1>5 DEF BootAgain
    <2> QED
      BY <2>1 DEF CalmInv, IsCalm, PutBack, Alive, Holds, Built, InRun
  <1> QED
    BY <1>1, <1>2, <1>3, <1>4, <1>5

\* A boot that settles has put back what the newest generation holds, or the
\* server is one it stayed out of.
LEMMA BootKeepsSave ==
    ASSUME TypeInv, KeptInv, RestoreInv, RestoreInv', CalmInv, SaveInv,
           \/ Survey \/ Decide \/ OpenAndPlan \/ CloseScratch \/ Furnish
           \/ FinishRestore \/ \E n \in AllNames : CreateSession(n)
           \/ RestoreIsCut \/ Attach \/ BootFails
    PROVE  SaveInv'
  <1> USE DEF tmux, budget, booting, running
  <1>1. CASE Survey \/ BootFails
    <2>1. /\ stage \notin InRun /\ stage' \notin {"attaching"} \cup InRun
          /\ IsCalm' => IsCalm
          /\ UNCHANGED <<server, sessions, byUser, latest, last, avoided>>
      BY <1>1 DEF Survey, BootFails, Misreads, IsCalm, InRun
    <2> QED
      BY <2>1 DEF SaveInv, PutBack, Excused, Alive, Holds, InRun
  <1>2. CASE Decide
    <2>1. /\ stage = "surveyed" /\ stage' \notin {"surveyed", "applying"} \cup InRun
          /\ UNCHANGED <<server, sessions, byUser, latest, last, avoided, upset>>
      BY <1>2 DEF Decide, Attaching, InRun
    <2>2. IsCalm /\ stage' = "attaching" /\ decided'.boot = Settled
             => PutBack \/ Excused(server)
      <3>1. CASE Returning
        <4>1. last # Nothing /\ last.server = held.server /\ held.server # 0
          BY <3>1 DEF Returning, TypeInv, TypeOK, Decisions, Servers
        <4>2. Alive /\ held.server = server
          BY <2>1, <4>1 DEF KeptInv
        <4> QED
          BY <2>1, <4>1, <4>2 DEF SaveInv, InRun
      <3>2. CASE ~ Returning /\ held.built # {}
        <4>1. stage' = "attaching" => decided'.boot = Declined(held.built)
          BY <1>2, <3>2 DEF Decide, Attaching
        <4> QED
          BY <4>1 DEF Declined, Settled
      <3>3. CASE ~ Returning /\ held.built = {}
        BY <1>2, <3>3 DEF Decide, PutBack
      <3> QED
        BY <3>1, <3>2, <3>3
    <2> QED
      BY <2>1, <2>2 DEF SaveInv, IsCalm, PutBack, Excused, Alive, Holds, InRun
  <1>3. CASE \/ OpenAndPlan \/ CloseScratch \/ Furnish
             \/ \E n \in AllNames : CreateSession(n)
    <2>1. stage' = "applying"
      BY <1>3 DEF OpenAndPlan, CloseScratch, Furnish, CreateSession
    <2>2. Alive' /\ last' # Nothing => last'.server # server'
      BY <2>1 DEF RestoreInv
    <2> QED
      BY <2>1, <2>2 DEF SaveInv, InRun
  <1>4. CASE FinishRestore
    <2>1. /\ stage = "applying" /\ stage' = "attaching" /\ todo = {}
          /\ decided.server = server /\ Alive
          /\ UNCHANGED <<server, sessions, byUser, latest, last>>
      BY <1>4 DEF FinishRestore
    <2>2. PutBack /\ (last # Nothing => last.server # server)
      BY <2>1 DEF RestoreInv, PutBack
    <2> QED
      BY <2>1, <2>2 DEF SaveInv, PutBack, Holds, InRun
  <1>5. CASE RestoreIsCut
    BY <1>5 DEF RestoreIsCut, SaveInv, IsCalm
  <1>6. CASE Attach
    <2>1. /\ stage = "attaching" /\ stage' = "polling" /\ Alive /\ link' = server
          /\ avoided' = IF decided.boot = Settled THEN avoided
                        ELSE avoided \cup {server}
          /\ decided.server = server /\ decided # Nothing
          /\ UNCHANGED <<server, sessions, byUser, latest, last, upset>>
      BY <1>6 DEF Attach, Avoiding, KeptInv, TypeInv
    <2>2. IsCalm => PutBack \/ (server \in avoided' /\ byUser[server] # {})
      <3>1. CASE decided.boot = Settled
        BY <2>1, <3>1 DEF SaveInv, Excused
      <3>2. CASE decided.boot # Settled
        BY <2>1, <3>2 DEF CalmInv, StaysOutFor
      <3> QED
        BY <3>1, <3>2
    <2> QED
      BY <2>1, <2>2 DEF SaveInv, IsCalm, PutBack, Excused, Holds, InRun
  <1> QED
    BY <1>1, <1>2, <1>3, <1>4, <1>5, <1>6

\* What a run captures on a server holds what the server took.
LEMMA RunKeepsSave ==
    ASSUME TypeInv, KeptInv, SaveInv,
           Poll \/ LoseLink \/ SaveSucceeds \/ SaveFails \/ Refuse \/ BootAgain
    PROVE  SaveInv'
  <1> USE DEF tmux, budget, booting, running
  <1>1. CASE Poll
    <2>1. /\ stage = "polling" /\ link = server /\ Alive
          /\ UNCHANGED <<server, sessions, byUser, latest, last, link, avoided>>
      BY <1>1 DEF Poll
    <2>2. \/ stage' = "polling" /\ UNCHANGED upset
          \/ /\ stage' = "saving" /\ (IsCalm' => IsCalm)
             /\ Holds(captured') = Holds(sessions)
      <3>1. CASE SaveIsDue(age')
        <4>1. PICK reading \in Readings("save") :
                 captured' = reading /\ Misreads("save", reading) /\ stage' = "saving"
          BY <1>1, <3>1 DEF Poll
        <4>2. Holds(reading) = Holds(sessions)
          BY ReadingFacts DEF TypeInv
        <4> QED
          BY <4>1, <4>2 DEF Misreads, IsCalm
      <3>2. CASE ~ SaveIsDue(age')
        BY <1>1, <3>2, <2>1 DEF Poll
      <3> QED
        BY <3>1, <3>2
    <2>3. IsCalm' => IsCalm
      BY <2>2 DEF IsCalm
    <2>4. IsCalm => PutBack \/ Excused(server)
      BY <2>1 DEF SaveInv, InRun
    <2>5. Holds(sessions)' = Holds(sessions)
      BY <2>1 DEF Holds
    <2>6. IsCalm' /\ stage' = "saving" =>
            /\ \A n \in Holds(captured)' : n \in Holds(sessions)'
            /\ latest' # Nothing =>
                 \/ \A n \in Holds(latest') : n \in Holds(captured)' \/ n \in byUser'[link']
                 \/ Excused(link)'
      <3>1. stage' = "saving" => Holds(captured)' = Holds(sessions)
        BY <2>2 DEF Holds
      <3> QED
        BY <2>1, <2>3, <2>4, <2>5, <3>1 DEF PutBack, Excused, Holds
    <2> QED
      BY <2>1, <2>2, <2>3, <2>4, <2>5, <2>6 DEF SaveInv, PutBack, Excused, InRun, Holds
  <1>2. CASE LoseLink
    <2>1. /\ stage = "polling" /\ stage' = "asleep"
          /\ last' = decided /\ decided.server = link
          /\ UNCHANGED <<server, sessions, byUser, latest, avoided, upset>>
      BY <1>2 DEF LoseLink, KeptInv, InRun
    <2> QED
      BY <2>1 DEF SaveInv, IsCalm, PutBack, Excused, Alive, Holds, InRun
  <1>3. CASE SaveSucceeds
    <2>1. /\ stage = "saving" /\ stage' = "polling" /\ latest' = captured
          /\ UNCHANGED <<server, sessions, byUser, last, link, upset>>
      BY <1>3 DEF SaveSucceeds
    <2>2. IsCalm /\ Alive /\ server = link => PutBack'
      BY <2>1 DEF SaveInv, PutBack, Holds
    <2> QED
      BY <2>1, <2>2 DEF SaveInv, IsCalm, Alive, Holds, InRun
  <1>4. CASE SaveFails \/ Refuse
    <2>1. /\ stage = "saving" /\ stage' = "polling"
          /\ UNCHANGED <<server, sessions, byUser, latest, last, link, avoided, upset>>
      BY <1>4 DEF SaveFails, Refuse
    <2> QED
      BY <2>1 DEF SaveInv, IsCalm, PutBack, Excused, Alive, Holds, InRun
  <1>5. CASE BootAgain
    <2>1. stage' = "asleep" /\ last' = Nothing
      BY <1>5 DEF BootAgain
    <2> QED
      BY <2>1 DEF SaveInv, InRun
  <1> QED
    BY <1>1, <1>2, <1>3, <1>4, <1>5

\* Both hold together, for the one needs what the other says of a save.
THEOREM CalmAndSaveAreKept ==
    ASSUME RestartInBoot = FALSE
    PROVE  Spec => [](CalmInv /\ SaveInv)
  <1>1. Init => CalmInv /\ SaveInv
    BY DEF Init, CalmInv, SaveInv, Alive, Holds, Built, Empty, InRun
  <1>2. /\ TypeInv /\ KeptInv /\ RestoreInv /\ RestoreInv'
        /\ CalmInv /\ SaveInv /\ [Next]_vars
        => CalmInv' /\ SaveInv'
    <2> SUFFICES ASSUME TypeInv, KeptInv, RestoreInv, RestoreInv', CalmInv, SaveInv,
                        [Next]_vars
                 PROVE  CalmInv' /\ SaveInv'
      OBVIOUS
    <2>1. CASE UNCHANGED vars
      BY <2>1 DEF vars, CalmInv, SaveInv, IsCalm, StaysOutFor, PutBack, Excused, Alive,
                  Holds, Built, tmux, budget, booting, running
    <2>2. CASE UserStep
      BY <2>2, UserKeepsCalm, UserKeepsSave
    <2>3. CASE DaemonStep
      BY <2>3, BootKeepsCalm, RunKeepsCalm, BootKeepsSave, RunKeepsSave DEF DaemonStep
    <2> QED
      BY <2>1, <2>2, <2>3 DEF Next
  <1> QED
    BY <1>1, <1>2, TypesAreKept, KeptIsKept, RestoreIsKept, PTL DEF Spec

\* With no restore cut short and no survey misread, a boot leaves part of the
\* newest generation unrestored only for the user's work.
THEOREM OnlyTheUserStopsACalmBoot ==
    ASSUME RestartInBoot = FALSE
    PROVE  Spec => []OnlyTheUserStopsCalmBoot
  <1>1. TypeInv /\ KeptInv /\ CalmInv => OnlyTheUserStopsCalmBoot
    <2> SUFFICES ASSUME TypeInv, KeptInv, CalmInv, IsCalm, stage = "attaching",
                        decided.boot # Settled, latest # Nothing
                 PROVE  \/ decided.boot.names \cap byUser[decided.server] # {}
                        \/ Holds(latest) \ Holds(sessions) \subseteq byUser[decided.server]
      BY DEF OnlyTheUserStopsCalmBoot, OnlyTheUserStopsBoot
    <2>1. decided # Nothing /\ Alive /\ decided.server = server
      BY DEF TypeInv, KeptInv
    <2>2. StaysOutFor(decided.boot)
      BY <2>1 DEF CalmInv
    <2> QED
      BY <2>1, <2>2 DEF StaysOutFor, PutBack
  <1> QED
    BY <1>1, TypesAreKept, KeptIsKept, CalmAndSaveAreKept, PTL

\* And no save loses a session of the newest generation that is gone only
\* because a server ended.
THEOREM NothingIsForgotten ==
    ASSUME RestartInBoot = FALSE
    PROVE  Spec => NothingForgotten
  <1> DEFINE Remembers == IsCalm /\ latest' # latest /\ latest # Nothing =>
                             \/ Holds(latest) \ Holds(latest') \subseteq byUser[link]
                             \/ link \in avoided /\ byUser[link] # {}
  <1>1. TypeInv /\ SaveInv /\ [Next]_vars => Remembers
    <2> SUFFICES ASSUME TypeInv, SaveInv, [Next]_vars, latest' # latest,
                        latest # Nothing, IsCalm
                 PROVE  \/ Holds(latest) \ Holds(latest') \subseteq byUser[link]
                        \/ link \in avoided /\ byUser[link] # {}
      OBVIOUS
    <2>1. SaveSucceeds
      <3>1. ~ UserStep
        BY UserStepFacts
      <3> QED
        BY <3>1
        DEF Next, DaemonStep, vars, tmux, Survey, Decide, OpenAndPlan, CloseScratch,
            Furnish, FinishRestore, CreateSession, RestoreIsCut, Attach, BootFails,
            Poll, LoseLink, SaveFails, Refuse, BootAgain
    <2>2. stage = "saving" /\ latest' = captured
      BY <2>1 DEF SaveSucceeds
    <2> QED
      BY <2>2 DEF SaveInv, Excused
  <1>2. TypeInv /\ SaveInv /\ [Next]_vars => [Remembers]_vars
    BY <1>1
  <1> QED
    BY <1>2, TypesAreKept, CalmAndSaveAreKept, PTL DEF Spec, NothingForgotten
=============================================================================
