---------------------------- MODULE Generations ----------------------------
(***************************************************************************)
(* What phoenix-store promises its callers, with no lock, no listing and   *)
(* no intermediate state: saves publish generations whose ids rise, prunes *)
(* remove generations that are neither the newest nor protected, and every *)
(* read is answered from the one state the store is in when it returns.    *)
(* Store.tla implements this module.                                       *)
(***************************************************************************)
EXTENDS GenerationFiles

CONSTANTS Readers, FirstIds, NoAnswer

VARIABLES
    generations,    \* ids of the generation files present
    tagged,         \* ids whose header carries a tag
    headless,       \* ids whose header cannot be read
    corrupt,        \* ids whose file cannot be decoded whole
    answer          \* the last answer each reader was given

vars == <<generations, tagged, headless, corrupt, answer>>

Init ==
    /\ generations \in SUBSET FirstIds
    /\ headless \in SUBSET generations
    /\ tagged \in SUBSET (generations \ headless)
    /\ corrupt \in {bad \in SUBSET generations : headless \subseteq bad}
    /\ answer = [r \in Readers |-> NoAnswer]

Publish ==
    /\ \E id \in Ids, tag \in BOOLEAN :
          /\ \A other \in generations : other < id
          /\ generations' = generations \cup {id}
          /\ tagged' = IF tag THEN tagged \cup {id} ELSE tagged \ {id}
          /\ headless' = headless \ {id}
          /\ corrupt' = corrupt \ {id}
    /\ UNCHANGED answer

Prune ==
    /\ \E id \in generations \ (tagged \cup headless) :
          /\ \E newer \in generations : id < newer
          /\ generations' = generations \ {id}
    /\ UNCHANGED <<tagged, headless, corrupt, answer>>

Read(r) ==
    /\ \E read \in Reads :
          answer' = [answer EXCEPT
                       ![r] = AnswerOf(read, generations, headless, corrupt)]
    /\ UNCHANGED <<generations, tagged, headless, corrupt>>

Next == Publish \/ Prune \/ \E r \in Readers : Read(r)

Spec == Init /\ [][Next]_vars
=============================================================================
