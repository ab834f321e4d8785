------------------------------ MODULE PiRpcRun ------------------------------
(***************************************************************************)
(* PiRpcAdapter.executeCli and the RPC part of PiRpcAdapter.probe          *)
(* (adapters/pi-rpc/pi-rpc-adapter.ts) on top of PiRpcClient: the dialogue *)
(* with one `pi --mode rpc` process, the abort listener that runs beside   *)
(* it, and the closing of the client by both.                              *)
(*                                                                         *)
(* Promise continuations run before the next timer or event: while the     *)
(* dialogue can go on (DialogueReady), nothing else happens but further    *)
(* records of the chunk being handled, the abort (onEvent may call it) and *)
(* what the operating system does to processes.                            *)
(***************************************************************************)
EXTENDS PiRpcClient, SequencesExt

CONSTANTS
  Uses,               \* what the client is started for: "execute", "probe"
  ConfiguredCommands  \* which of set_model, set_thinking_level the options ask for

ASSUME UsesAssumption == Uses \subseteq {"execute", "probe"}
ASSUME CommandsAssumption ==
  /\ ConfiguredCommands \subseteq {"set_model", "set_thinking_level"}
  /\ Commands = {"get_state", "prompt", "abort"} \cup ConfiguredCommands
       \cup (IF "probe" \in Uses THEN {"set_model", "set_thinking_level"} ELSE {})
ASSUME ClosersAssumption == Closers = {"abort", "final"}

VARIABLES
  use,           \* which of Uses this is (never changes)
  script,        \* the requests of its dialogue (never changes)
  phase,         \* where the dialogue is
  position,      \* requests of the script that have been answered
  current,       \* the request being awaited
  aborted,       \* the execution's signal
  abortStep,     \* progress of the abort listener
  abortId,       \* its abort request
  settled,       \* agent_settled was seen
  message,       \* finalMessage has text
  terminalError, \* recordTerminalError was called
  verdict        \* what executeCli or probe decided

dialogueVars == <<phase, position, current, verdict>>
abortVars == <<aborted, abortStep, abortId>>
eventVars == <<settled, message, terminalError>>
runVars == <<use, script, dialogueVars, abortVars, eventVars>>
allVars == <<runVars, vars>>

\* The configuration requests of an execution, in the order they are made.
Configured(cmd) == IF cmd \in ConfiguredCommands THEN <<cmd>> ELSE <<>>

\* An execution ends with a prompt.  A probe sets the model that is configured,
\* or that the state reports, if there is one, and ends with an abort.
Scripts ==
  [execute |->
     {<<"get_state">> \o Configured("set_model") \o Configured("set_thinking_level")
        \o <<"prompt">>},
   probe |->
     {<<"get_state">> \o model \o <<"set_thinking_level", "abort">> :
        model \in {<<>>, <<"set_model">>}}]

Probing == use = "probe"

Init ==
  /\ ClientInit
  /\ use \in Uses
  /\ script \in Scripts[use]
  /\ phase = "starting"
  /\ position = 0
  /\ current = 0
  /\ aborted \in BOOLEAN
  /\ abortStep = "none"
  /\ abortId = 0
  /\ settled = FALSE
  /\ message = FALSE
  /\ terminalError = FALSE
  /\ verdict = "none"

Usable == failure = "none" /\ ~closing /\ ~closed
Cancelled == abortStep = "cancelled"
Answered(id) == outcome[id] \in {"resolved", "rejected"}

\* Promise.race of a request, or of the settlement, with the cancellation.
DialogueReady ==
  \/ phase \in {"starting", "ask"}
  \/ phase \in {"asked", "finalAsked"} /\ (Answered(current) \/ Cancelled)
  \/ phase = "running" /\ (settled \/ completion # "pending" \/ Cancelled)
  \/ phase = "awaitAbort" /\ Cancelled
  \/ phase = "closing" /\ closer["final"] = "returned"

\* The dialogue is suspended at an await, so events are handled; from Begin to
\* the first request, and from an answer to the next one, it is not.
Suspended == phase \notin {"starting", "ask"}

-----------------------------------------------------------------------------
(* The abort listener. *)

\* It asks pi to abort, unless the client no longer takes requests.
Listen ==
  IF Usable
  THEN Request("abort") /\ abortStep' = "asking" /\ abortId' = nextRequestId
  ELSE abortStep' = "close" /\ UNCHANGED <<abortId, vars>>

\* That of a probe closes the client at once, and nobody waits for it.
ListenToProbe == Close("abort") /\ abortStep' = "closing" /\ UNCHANGED abortId

\* The listener exists while the dialogue goes on.
Abort ==
  /\ ~aborted /\ Suspended
  /\ aborted' = TRUE
  /\ IF phase \in {"closing", "done"}
     THEN UNCHANGED <<abortStep, abortId, vars>>
     ELSE IF Probing THEN ListenToProbe ELSE Listen
  /\ UNCHANGED <<use, script, dialogueVars, eventVars>>

\* Mutant (RunEnds): a refused abort ends the listener.
AbortMustSucceed ==
  /\ abortStep = "asking" /\ outcome[abortId] = "resolved"
  /\ abortStep' = "delay"
  /\ UNCHANGED <<use, script, dialogueVars, aborted, abortId, eventVars, vars>>

\* An answered abort is given a settlement grace, a refused one is not.
AbortAnswered ==
  /\ abortStep = "asking" /\ Answered(abortId)
  /\ abortStep' = IF outcome[abortId] = "resolved" THEN "delay" ELSE "close"
  /\ UNCHANGED <<use, script, dialogueVars, aborted, abortId, eventVars, vars>>

DelayEnds ==
  /\ abortStep = "delay"
  /\ abortStep' = "close"
  /\ UNCHANGED <<use, script, dialogueVars, aborted, abortId, eventVars, vars>>

AbortCloses ==
  /\ abortStep = "close"
  /\ abortStep' = "closing"
  /\ Close("abort")
  /\ UNCHANGED <<use, script, dialogueVars, aborted, abortId, eventVars>>

\* Only now is `cancellation` rejected.
Cancel ==
  /\ ~Probing
  /\ abortStep = "closing" /\ closer["abort"] = "returned"
  /\ abortStep' = "cancelled"
  /\ UNCHANGED <<use, script, dialogueVars, aborted, abortId, eventVars, vars>>

-----------------------------------------------------------------------------
(* The dialogue. *)

\* The finally block: the listener is removed and the client closed.
Finish(decision) ==
  /\ verdict' = decision
  /\ phase' = "closing"
  /\ Close("final")
  /\ UNCHANGED <<use, script, position, current, abortVars, eventVars>>

\* request() of the next command; an unusable client rejects it.
Ask(cmd, next) ==
  IF Usable
  THEN /\ Request(cmd)
       /\ current' = nextRequestId
       /\ phase' = next
       /\ UNCHANGED <<use, script, position, verdict, abortVars, eventVars>>
  ELSE Finish("failed")

\* The listener is in place; an earlier abort calls it by hand.
Begin ==
  /\ phase = "starting"
  /\ Probing => ~aborted
  /\ phase' = "ask"
  /\ IF aborted THEN Listen ELSE UNCHANGED <<abortStep, abortId, vars>>
  /\ UNCHANGED <<use, script, position, current, verdict, aborted, eventVars>>

\* A probe throws as well, so that the client is closed twice at once.
BeginAbortedProbe ==
  /\ phase = "starting" /\ Probing /\ aborted
  /\ verdict' = "failed"
  /\ phase' = "closing"
  /\ abortStep' = "closing"
  /\ closing' = (closing \/ ~closed)
  /\ closer' = [k \in Closers |-> IF closed THEN "returned" ELSE "exitWait"]
  /\ UNCHANGED <<use, script, position, current, aborted, abortId, eventVars, child,
                 nextRequestId, command, pending, outcome, answer, outputBytes, failure,
                 closed, completion, treeVars>>

AskNext ==
  /\ phase = "ask"
  /\ Ask(script[position + 1], "asked")

\* Mutant (AnswerIsEarned): a refused request counts as answered.
ProceedRegardless ==
  /\ phase = "asked" /\ Answered(current)
  /\ position' = position + 1
  /\ phase' = IF position' = Len(script) THEN "running" ELSE "ask"
  /\ UNCHANGED <<use, script, current, verdict, abortVars, eventVars, vars>>

\* The answer has come, and for get_state is a fresh state.
Proceed ==
  /\ phase = "asked" /\ outcome[current] = "resolved"
  /\ Probing => position + 1 < Len(script)
  /\ position' = position + 1
  /\ phase' = IF position' = Len(script) THEN "running" ELSE "ask"
  /\ UNCHANGED <<use, script, current, verdict, abortVars, eventVars, vars>>

\* The last request of a probe, its abort, was answered: it is available.
Certify ==
  /\ Probing /\ phase = "asked" /\ outcome[current] = "resolved"
  /\ position' = position + 1
  /\ position' = Len(script)
  /\ verdict' = "answered"
  /\ phase' = "closing"
  /\ Close("final")
  /\ UNCHANGED <<use, script, current, abortVars, eventVars>>

\* A rejected request, or a state that does not parse or is not fresh.
RequestFails ==
  /\ phase \in {"asked", "finalAsked"}
  /\ \/ outcome[current] = "rejected"
     \/ outcome[current] = "resolved" /\ command[current] = "get_state"
  /\ Finish("failed")

\* A request rejected by the closing process loses the race to no one.
CancellationWins ==
  /\ \/ phase \in {"asked", "finalAsked"} /\ ~Answered(current)
     \/ phase = "running" /\ ~settled /\ completion = "pending"
     \/ phase = "awaitAbort"
  /\ Cancelled
  /\ Finish("cancelled")

\* completion settled without agent_settled.
ExitsUnsettled ==
  /\ phase = "running" /\ ~settled /\ completion # "pending"
  /\ Finish("failed")

ExecutionTimeout ==
  /\ phase = "running" /\ ~settled
  /\ Finish("failed")

\* agent_settled won the race.
AwaitCancellation ==
  /\ phase = "running" /\ settled /\ aborted
  /\ phase' = "awaitAbort"
  /\ UNCHANGED <<use, script, position, current, verdict, abortVars, eventVars, vars>>

\* A terminal error, no final message, or one that does not parse.
SettledBadly ==
  /\ phase = "running" /\ settled /\ ~aborted
  /\ Finish("failed")

AskFinalState ==
  /\ phase = "running" /\ settled /\ ~aborted
  /\ ~terminalError /\ message
  /\ Ask("get_state", "finalAsked")

Return ==
  /\ phase = "finalAsked" /\ outcome[current] = "resolved"
  /\ Finish("answered")

ClientClosed ==
  /\ phase = "closing" /\ closer["final"] = "returned"
  /\ phase' = "done"
  /\ UNCHANGED <<use, script, position, current, verdict, abortVars, eventVars, vars>>

-----------------------------------------------------------------------------
(* The process and its records. *)

\* onRpcEvent: the events the verdict depends on, while it is not taken, and
\* all others; a probe ignores all events.
AgentEvent ==
  /\ Suspended
  /\ QuietOutput
  /\ \/ ~Probing /\ verdict = "none" /\ settled' = TRUE /\ UNCHANGED <<message, terminalError>>
     \/ ~Probing /\ verdict = "none" /\ message' = TRUE /\ UNCHANGED <<settled, terminalError>>
     \/ ~Probing /\ verdict = "none" /\ terminalError' = TRUE /\ UNCHANGED <<settled, message>>
     \/ UNCHANGED eventVars
  /\ UNCHANGED <<use, script, dialogueVars, abortVars>>

OtherRecord ==
  /\ Suspended
  /\ \/ ExceedLimit
     \/ BadOutput
     \/ \E response \in Responses : HandleResponse(response)
  /\ UNCHANGED runVars

\* Timers and events wait until the dialogue has gone on.
ClientEvent ==
  /\ ~DialogueReady
  /\ \/ \E id \in Ids : RequestTimeout(id) \/ WriteFails(id)
     \/ ProcessEvent
     \/ \E k \in Closers : CloseStep(k)
  /\ UNCHANGED runVars

Dialogue ==
  \/ Begin \/ BeginAbortedProbe \/ AskNext \/ Proceed \/ Certify
  \/ RequestFails \/ CancellationWins \/ ExitsUnsettled \/ AwaitCancellation \/ SettledBadly \/ AskFinalState
  \/ Return \/ ClientClosed

Listener == ~DialogueReady /\ (AbortAnswered \/ DelayEnds \/ AbortCloses \/ Cancel)

RunDone == phase = "done" /\ UNCHANGED allVars

RunNext ==
  \/ Dialogue
  \/ ~DialogueReady /\ ExecutionTimeout
  \/ Abort
  \/ Listener
  \/ AgentEvent
  \/ OtherRecord
  \/ ClientEvent
  \/ TreeNext /\ UNCHANGED <<clientVars, runVars>>
  \/ RunDone

RunSpec == Init /\ [][RunNext]_allVars

RunFairness ==
  /\ WF_allVars(Dialogue)
  /\ WF_allVars(~DialogueReady /\ ExecutionTimeout)
  /\ WF_allVars(Listener)
  /\ \A id \in Ids : WF_allVars(~DialogueReady /\ RequestTimeout(id) /\ UNCHANGED runVars)
  /\ \A k \in Closers : WF_allVars(~DialogueReady /\ CloseStep(k) /\ UNCHANGED runVars)
  /\ \A t \in Terminators : WF_allVars(EndGrace(t) /\ UNCHANGED <<clientVars, runVars>>)

FairRunSpec == RunSpec /\ RunFairness
-----------------------------------------------------------------------------
(* Properties. *)

\* A run is answered only by an agent that settled with a message, after every
\* request of the script and the final get_state were answered in turn; and a
\* probe is available only when every request of its script was answered.
AnswerIsEarned ==
  verdict = "answered" =>
    /\ position = Len(script)
    /\ \A cmd \in ToSet(script) : \E id \in Ids :
         command[id] = cmd /\ outcome[id] = "resolved"
    /\ ~Probing => /\ settled /\ message
                   /\ command[current] = "get_state" /\ current > Len(script)
                   /\ outcome[current] = "resolved"

\* When executeCli or probe settles, the process is gone or has been sent SIGKILL, also
\* when the abort listener and the finally block close the client at once.
NoProcessLeft ==
  phase = "done" => Leader \notin alive \/ Leader \in killed

\* Every execution and every probe settles: a silent process, a lost answer and an abort at
\* any moment included.
RunEnds == <>(phase = "done")

\* An aborted adapter execution returns a cancelled response
\* (testing/conformance.ts): once the abort listener runs, the executor's
\* answer is not returned.
AbortedRunNeverAnswered == ~Probing /\ abortStep # "none" => verdict # "answered"

\* Cancellation terminates the subprocess tree (docs/architecture.md): when
\* the listener reports the cancellation of a client that had not failed, what
\* is left of a reachable group has at least been signalled.
CancellationTerminatesTree ==
  abortStep = "cancelled" /\ failure = "none" /\ groupReachable =>
    alive \subseteq termed \cup killed
=============================================================================
