---------------------------- MODULE CommandBridge ----------------------------
(***************************************************************************)
(* From a chat message to the command line and back.                       *)
(*                                                                         *)
(* Three surfaces pass /auth messages on: the MCP server, which first asks *)
(* the command line's own parser what a message would do; the Hermes       *)
(* plugin; and the chat wrapper itself, run directly.  The first two start *)
(* the wrapper as a process, kill it at a limit of theirs, and map what it *)
(* printed to an answer.  What a confirmed mutation does on the way is     *)
(* ProtectedMutation's and OpenClawAdapter's business: here it changes the *)
(* runtime or not, and is verified or not.                                 *)
(***************************************************************************)
EXTENDS Naturals

CONSTANT MaxRequests   \* bound: requests of one run

VARIABLES
  surface,    \* who passes the messages on
  allow,      \* ACCOUNT_CENTER_MCP_ALLOW_MUTATIONS
  loaded,     \* the surface holds the contract it read when it started
  contract,   \* contracts/owned-delete-receipt.v1.json is the expected one
  received,   \* requests received
  answered,   \* history: requests answered
  stdin,      \* the MCP server's input: open, or ended
  phase,      \* where the request in progress is
  message,    \* what it says
  printed,    \* what the command line printed, and whether it exited with 0
  did,        \* history: what the request changed
  answer      \* the answer to the last request

config == <<surface, allow, loaded>>
outside == <<config, contract, received, stdin>>
bridgeVars ==
  <<config, contract, received, answered, stdin, phase, message, printed, did, answer>>

Surfaces == {"mcp", "hermes", "chatops"}

(* plain: the text begins with "/auth delete", in any case.  dry: a --dry-run, *)
(* written plainly or inside quotes.  confirmed: the command carries a review, *)
(* a token and a key.                                                          *)
Messages ==
  [verb : {"status", "ensure", "auto", "named", "remove", "add", "switch"}, plain : {FALSE},
   apply : BOOLEAN, dry : {"no", "plain", "quoted"}, confirmed : BOOLEAN, json : {FALSE}]
    \cup
  [verb : {"delete"}, plain : BOOLEAN,
   apply : BOOLEAN, dry : {"no", "plain", "quoted"}, confirmed : BOOLEAN, json : BOOLEAN]
    \cup
  [verb : {"malformed"}, plain : BOOLEAN,
   apply : {FALSE}, dry : {"no"}, confirmed : {FALSE}, json : {FALSE}]
NoMessage ==
  [verb |-> "status", plain |-> FALSE, apply |-> FALSE, dry |-> "no",
   confirmed |-> FALSE, json |-> FALSE]

(* What the manual command maps to: auto, use, add and reauth apply unless    *)
(* told otherwise, remove and delete preview unless told otherwise; the bare  *)
(* name of an account is a use that does neither.                             *)
Invocation(m) ==
  [verb |-> m.verb,
   apply |-> m.apply \/ (m.verb \in {"auto", "add"} /\ m.dry = "no"),
   dryRun |-> m.dry # "no" \/ (m.verb \in {"remove", "delete"} /\ ~m.apply)]

IsMutationInvocation(i) == i.verb # "status"

DryRunBesideApplyMutant(m) == m.dry = "plain"
ExplicitlyDryRun(m) == m.dry = "plain" /\ Invocation(m).dryRun /\ ~Invocation(m).apply

IsDeleteRequest(m) == m.plain

(* The command line prints one of the two texts of the delete contract, other *)
(* output, or nothing of use.                                                 *)
Nothing == [text |-> "none", ok |-> FALSE]
Canonical == {"applied text", "unproven text"}

BridgeInit ==
  /\ surface \in Surfaces /\ allow \in BOOLEAN
  /\ loaded \in BOOLEAN /\ contract = loaded
  /\ received = 0 /\ answered = 0 /\ stdin = "open"
  /\ phase = "idle" /\ message = NoMessage /\ printed = Nothing
  /\ did = {} /\ answer = "none"

Enter(label) == phase' = label
Answer(text) == answer' = text /\ answered' = answered + 1 /\ phase' = "idle"
-------------------------------------------------------------------------------
(* The surfaces, up to the wrapper.                                           *)

Receive ==
  /\ received < MaxRequests /\ stdin = "open"
  /\ received' = received + 1
  /\ UNCHANGED <<config, contract, answered, stdin, phase, message, printed, did, answer>>

(* The input queue takes one line at a time.                                  *)
Begin(m) ==
  /\ phase = "idle" /\ answered < received
  /\ message' = m /\ did' = {} /\ printed' = Nothing /\ answer' = "none"
  /\ Enter(IF surface = "chatops" THEN "wrapper" ELSE "gate")
  /\ UNCHANGED outside /\ UNCHANGED answered

(* A delete without a valid contract never starts.                            *)
ContractMissing ==
  /\ phase = "gate" /\ IsDeleteRequest(message) /\ ~loaded
  /\ Answer(IF surface = "mcp" THEN "unproven text" ELSE "opaque")
  /\ UNCHANGED outside /\ UNCHANGED <<message, printed, did>>

GatePassed == phase = "gate" /\ (IsDeleteRequest(message) => loaded)

(* The parser is not built, or it rejects the message.                        *)
InspectionFails ==
  /\ GatePassed /\ surface = "mcp"
  /\ Answer("blocked")
  /\ UNCHANGED outside /\ UNCHANGED <<message, printed, did>>

PreviewDelete ==
  IsDeleteRequest(message) /\ message.verb = "delete" /\ ~Invocation(message).apply
NeedsAllowance ==
  IsMutationInvocation(Invocation(message)) /\ ~ExplicitlyDryRun(message) /\ ~allow

AnswerPreviewDelete ==
  /\ GatePassed /\ surface = "mcp" /\ message.verb # "malformed" /\ PreviewDelete
  /\ Answer("unproven text")
  /\ UNCHANGED outside /\ UNCHANGED <<message, printed, did>>

BlockMutation ==
  /\ GatePassed /\ surface = "mcp" /\ message.verb # "malformed"
  /\ ~PreviewDelete /\ NeedsAllowance
  /\ Answer("blocked")
  /\ UNCHANGED outside /\ UNCHANGED <<message, printed, did>>

Spawn ==
  /\ GatePassed
  /\ surface = "mcp" => message.verb # "malformed" /\ ~PreviewDelete /\ ~NeedsAllowance
  /\ Enter("wrapper")
  /\ UNCHANGED outside /\ UNCHANGED <<answered, message, printed, did, answer>>
-------------------------------------------------------------------------------
(* The wrapper and the command line, in their process.                        *)

Exit(text, ok) ==
  printed' = [text |-> text, ok |-> ok] /\ phase' = "exited"

(* The contract is damaged or the text does not tokenize: deletes are         *)
(* answered with the fixed text, others with an error.                        *)
WrapperRefuses ==
  /\ phase = "wrapper"
  /\ \/ IsDeleteRequest(message) /\ (~contract \/ message.verb = "malformed")
        /\ Exit("unproven text", FALSE)
     \/ message.verb = "malformed" /\ Exit("none", FALSE)
  /\ UNCHANGED outside /\ UNCHANGED <<answered, message, did, answer>>

StartCommand ==
  /\ phase = "wrapper" /\ message.verb # "malformed"
  /\ ~(IsDeleteRequest(message) /\ ~contract)
  /\ Enter("command")
  /\ UNCHANGED outside /\ UNCHANGED <<answered, message, printed, did, answer>>

(* renderCredentialDelete, or the same view as JSON; it throws without its    *)
(* contract, even after the mutation.                                         *)
PrintDeleteByCodeMutant(verified, ok) ==
  IF message.json THEN Exit("output", ok)
  ELSE IF ~contract THEN Exit("none", FALSE)
  ELSE Exit(IF ok THEN "applied text" ELSE "unproven text", ok)
PrintDelete(verified, ok) ==
  IF message.json THEN Exit("output", ok)
  ELSE IF ~contract THEN Exit("none", FALSE)
  ELSE Exit(IF verified THEN "applied text" ELSE "unproven text", ok)

(* No status can be read, the options are not valid, or the executor blocks   *)
(* the command before the adapter mutates; a preview, and a replay.           *)
AnswerUnchanged ==
  /\ phase = "command"
  /\ \E ok \in BOOLEAN :
       \/ message.verb = "delete" /\ PrintDelete(FALSE, ok)
       \/ message.verb # "delete" /\ Exit("output", ok)
       \/ Exit("none", FALSE)
  /\ UNCHANGED outside /\ UNCHANGED <<answered, message, did, answer>>

(* Enabling and disabling are blocked by the executor, and a guard's route    *)
(* carries no review.                                                         *)
Mutates(m) ==
  m.verb \in {"auto", "named", "remove", "delete"} /\ Invocation(m).apply /\ m.confirmed
Changes(m) ==
  {{}} \cup (IF m.verb = "add" THEN {{"challenge"}} ELSE {})
       \cup (IF ~Mutates(m) THEN {}
             ELSE {{IF m.verb = "delete" THEN "deleted" ELSE "rerouted"}})

(* startReauth records a challenge; no option stops it.                       *)
RecordChallenge ==
  /\ phase = "command" /\ message.verb = "add"
  /\ did' \in Changes(message)   \* or an open challenge is reused
  /\ Exit("output", TRUE)
  /\ UNCHANGED outside /\ UNCHANGED <<answered, message, answer>>

(* The adapter's native command, which may change nothing.                    *)
Mutate ==
  /\ phase = "command" /\ Mutates(message)
  /\ did' \in Changes(message)
  /\ Enter("mutated")
  /\ UNCHANGED outside /\ UNCHANGED <<answered, message, printed, answer>>

(* Fresh reads and, for a delete, the native receipt prove what was done.     *)
PrintOutcome ==
  /\ phase = "mutated"
  /\ \E verified \in IF did = {} THEN {FALSE} ELSE BOOLEAN :
       IF message.verb = "delete" THEN PrintDelete(verified, verified)
       ELSE Exit("output", verified)
  /\ UNCHANGED outside /\ UNCHANGED <<answered, message, did, answer>>

(* The surface kills the wrapper at its limit, or the wrapper dies or throws; *)
(* a native command that was started runs on without it.                      *)
Kill ==
  /\ phase \in {"wrapper", "command", "mutated"}
  /\ did' \in IF phase = "command" THEN Changes(message) ELSE {did}
  /\ printed' = Nothing /\ Enter("exited")
  /\ UNCHANGED outside /\ UNCHANGED <<answered, message, answer>>
-------------------------------------------------------------------------------
(* The surfaces' answers.                                                     *)

AnswerDelete ==
  /\ phase = "exited" /\ surface # "chatops" /\ IsDeleteRequest(message)
  /\ Answer(IF printed.ok /\ printed.text \in Canonical THEN printed.text
            ELSE "unproven text")
  /\ UNCHANGED outside /\ UNCHANGED <<message, printed, did>>

AnswerOther ==
  /\ phase = "exited" /\ surface # "chatops" /\ ~IsDeleteRequest(message)
  /\ Answer(IF printed.ok THEN printed.text ELSE "opaque")
  /\ UNCHANGED outside /\ UNCHANGED <<message, printed, did>>

(* The wrapper passes on what runCli printed: its first token is always       *)
(* "/auth", so its comparison with "delete" never holds.                      *)
AnswerDirectly ==
  /\ phase = "exited" /\ surface = "chatops"
  /\ Answer(printed.text)
  /\ UNCHANGED outside /\ UNCHANGED <<message, printed, did>>

(* Someone edits the contract file; the surface keeps what it loaded.         *)
EditContract ==
  /\ contract' = ~contract
  /\ UNCHANGED <<config, received, answered, stdin, phase, message, printed, did, answer>>

EndInput ==
  /\ surface = "mcp" /\ stdin = "open"
  /\ stdin' = "ended"
  /\ UNCHANGED <<config, contract, received, answered, phase, message, printed, did, answer>>

(* process.exit waits for the input queue.                                    *)
QueueIgnoredMutant == TRUE
QueueDrained == answered = received

Leave ==
  /\ stdin = "ended" /\ QueueDrained /\ phase # "left"
  /\ stdin' = "left"
  /\ Enter("left")
  /\ UNCHANGED <<config, contract, received, answered, message, printed, did, answer>>

BridgeStep ==
  \/ \E m \in Messages : Begin(m)
  \/ ContractMissing \/ InspectionFails \/ AnswerPreviewDelete \/ BlockMutation \/ Spawn
  \/ WrapperRefuses \/ StartCommand \/ AnswerUnchanged \/ RecordChallenge
  \/ Mutate \/ PrintOutcome \/ Kill
  \/ AnswerDelete \/ AnswerOther \/ AnswerDirectly

BridgeNext == BridgeStep \/ Receive \/ EditContract \/ EndInput \/ Leave

BridgeSpec == BridgeInit /\ [][BridgeNext]_bridgeVars
-------------------------------------------------------------------------------
(* Properties.                                                                *)

(* A caller who is told that an account was deleted can rely on it: through   *)
(* kills, replays, an edited contract and other output, the applied text      *)
(* comes only from a delete that this very request did.                       *)
AppliedMeansDeleted == answer = "applied text" => did = {"deleted"}

(* Without the allowance nothing that the MCP server passes on changes the    *)
(* runtime: what its gate takes for a dry run is one for the command line,    *)
(* whatever is quoted, doubled or left to a default.                          *)
UnallowedRequestsChangeNoRuntime ==
  surface = "mcp" /\ ~allow => did \cap {"deleted", "rerouted"} = {}

(* Every request the MCP server received before its input ended is answered   *)
(* before it exits, also the one whose command is running.                    *)
EveryRequestIsAnswered == stdin = "left" => answered = received

(* "DRY RUN - no account was deleted and no live Sentinel/OpenClaw store was  *)
(* changed": the fixed text of every delete that is not proven.               *)
DeletionsAreNotDenied == answer = "unproven text" => "deleted" \notin did
===============================================================================
