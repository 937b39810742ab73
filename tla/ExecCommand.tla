----------------------------- MODULE ExecCommand -----------------------------
(***************************************************************************)
(* mjj exec, one headless run (mjj/cli.py: main, _agent, cmd_exec) and the *)
(* rendering of its steps (mjj/agent.py, render_exec): the options it runs *)
(* with, what it opens, the final answer it prints and writes to a file,   *)
(* and the exit code it ends with.                                         *)
(***************************************************************************)
EXTENDS Integers, Sequences

CONSTANTS
  MaxResponses,  \* bound: responses of a run
  MaxDeltas,     \* bound: text deltas between two responses
  MaxTurns       \* the continuation limits an option may give: 0..MaxTurns

VARIABLES
  exec,         \* where the command is
  options,      \* [loop, json, output, ephemeral]: what it was given
  opened,       \* what it holds open: "session", "registry"
  goal,         \* the workspace's goal was set
  response,     \* the response being streamed: [text, calls], or None
  responses,    \* the responses so far
  turn,         \* continuations so far
  after,        \* the text of an answer that came without deltas
  rendered,     \* render_exec's [response_text, response_called_tool, final_text, failed]
  last,         \* the number of the last response that answered without a tool
  odd,          \* an answer without deltas was continued
  stdout,       \* the final text printed
  output_file,  \* what -o PATH holds
  noted,        \* usage was noted in the session
  code          \* the exit code, or Running

execVars == <<exec, options, opened, goal, response, responses, turn, after,
              rendered, last, odd, stdout, output_file, noted, code>>

None == [text |-> 0, calls |-> FALSE]
Running == 0 - 1
Untouched == <<"before">>

(* main: an option of the subcommand beats a global one, which beats the    *)
(* configuration; Unset stands for an option not given.                     *)
Unset == 0 - 1
Given(config, global, command) ==
  IF command # Unset THEN command ELSE IF global # Unset THEN global ELSE config

(* _apply_loop_mode: forever is full without a limit. *)
LoopModes == {"none", "off", "steps", "ideas", "full", "forever"}
_apply_loop_mode(mode, turns, steps) ==
  [continues |-> IF mode = "none" THEN steps ELSE mode # "off",
   turns |-> IF mode = "forever" THEN 0 ELSE turns]

ExecInit ==
  /\ \E mode \in LoopModes, steps, json, output, ephemeral \in BOOLEAN,
        global, command \in Unset..MaxTurns :
       options = [loop |-> _apply_loop_mode(mode, Given(0, global, command), steps),
                  json |-> json, output |-> output, ephemeral |-> ephemeral]
  /\ exec = "session" /\ opened = {} /\ goal = FALSE
  /\ response = None /\ responses = 0 /\ turn = 0 /\ after = 0
  /\ rendered = [response_text |-> << >>, response_called_tool |-> FALSE,
                 final_text |-> << >>, failed |-> FALSE]
  /\ last = 0 /\ odd = FALSE
  /\ stdout = << >> /\ output_file = Untouched /\ noted = FALSE /\ code = Running

Run == <<options, response, responses, turn, after, rendered, last, odd, stdout, output_file, noted>>

(* _agent: the session, the requested goal, the extensions and the tools,   *)
(* then the agent.  Up to the tools an OSError or ValueError ends the       *)
(* command with the session open.                                           *)
Refused == code' = 2 /\ exec' = "ended"

open_session ==
  /\ exec = "session"
  /\ \/ /\ opened' = IF options.ephemeral THEN {} ELSE {"session"}
        /\ exec' = "goal" /\ UNCHANGED code
     \/ ~options.ephemeral /\ UNCHANGED opened /\ Refused
  /\ UNCHANGED goal /\ UNCHANGED Run

set_goal ==
  /\ exec = "goal"
  /\ \/ goal' \in {goal, TRUE} /\ exec' = "registry" /\ UNCHANGED code
     \/ UNCHANGED goal /\ Refused
  /\ UNCHANGED opened /\ UNCHANGED Run

build_registry ==
  /\ exec = "registry"
  /\ \/ opened' = opened \union {"registry"} /\ exec' = "agent" /\ UNCHANGED code
     \/ UNCHANGED opened /\ Refused
  /\ UNCHANGED goal /\ UNCHANGED Run

(* The agent and the session's name, then the prompt and its images: an      *)
(* agent that cannot be built or an image that cannot be read closes both,  *)
(* a name that cannot be noted neither.                                     *)
prepare ==
  /\ exec = "agent"
  /\ \/ exec' = "run" /\ UNCHANGED <<opened, code>>
     \/ opened' \in {opened, {}} /\ Refused
  /\ UNCHANGED goal /\ UNCHANGED Run

(* Any other exception goes through the command and ends it with 1: standard *)
(* input that is no text, which is read outside every try; a reader of the  *)
(* output that left; an answer that cannot be encoded, when the file is     *)
(* already empty; a session that cannot be written; an interrupt outside    *)
(* the run.  Building the agent closes both, the run closes the tools.      *)
Uncaught ==
  /\ exec \notin {"ended", "raised"}
  /\ exec' = "raised" /\ code' = 1
  /\ opened' \in IF exec = "agent" THEN {opened, {}}
                 ELSE IF exec = "run" THEN {opened \ {"registry"}} ELSE {opened}
  /\ output_file' \in IF exec = "write" /\ options.output THEN {output_file, << >>}
                      ELSE {output_file}
  /\ UNCHANGED <<options, goal, response, responses, turn, after, rendered, last, odd,
                 stdout, noted>>

(* Agent.run as its consumer sees it: a response is text and calls in any    *)
(* order and ends with a usage step; an answer without deltas is one text   *)
(* step after it.  The text of response n is n.                             *)
Stay == UNCHANGED <<exec, options, opened, goal, stdout, output_file, noted, code>>
Open == exec = "run" /\ ~rendered.failed

(* After an answer the run goes on by itself or for a goal, under the limit. *)
Answered == responses > 0 /\ last = responses
UnderLimit == options.loop.turns = 0 \/ turn < options.loop.turns
Continues == (options.loop.continues \/ goal) /\ UnderLimit
MayEnd == Answered /\ (goal \/ ~Continues)

Respond ==
  /\ Open /\ response = None /\ after = 0 /\ responses < MaxResponses
  /\ Answered => Continues
  /\ turn' = IF Answered THEN turn + 1 ELSE turn
  /\ odd' = (odd \/ rendered.response_text # << >>)
  /\ responses' = responses + 1
  /\ response' = [text |-> responses + 1, calls |-> FALSE]
  /\ UNCHANGED <<after, rendered, last>> /\ Stay

text ==
  /\ Open /\ response # None
  /\ Len(rendered.response_text) < MaxDeltas
  /\ rendered' = [rendered EXCEPT !.response_text = Append(@, response.text)]
  /\ UNCHANGED <<response, responses, turn, after, last, odd>> /\ Stay

tool_call ==
  /\ Open /\ response # None /\ ~response.calls
  /\ response' = [response EXCEPT !.calls = TRUE]
  /\ rendered' = [rendered EXCEPT !.response_called_tool = TRUE]
  /\ UNCHANGED <<responses, turn, after, last, odd>> /\ Stay

(* Mutant: the tool call of a response is not forgotten at its end. *)
CallRemembered(r) ==
  [r EXCEPT !.final_text = IF r.response_called_tool THEN @ ELSE r.response_text,
            !.response_text = << >>]

EndOfResponse(r) ==
  [r EXCEPT !.final_text = IF r.response_called_tool THEN @ ELSE r.response_text,
            !.response_text = << >>, !.response_called_tool = FALSE]

Said(n) == \E i \in DOMAIN rendered.response_text : rendered.response_text[i] = n

usage ==
  /\ Open /\ response # None
  /\ rendered' = EndOfResponse(rendered)
  /\ response' = None
  /\ last' = IF response.calls THEN last ELSE response.text
  /\ after' = IF response.calls \/ Said(response.text) THEN 0 ELSE response.text
  /\ UNCHANGED <<responses, turn, odd>> /\ Stay

(* The text of an answer without deltas, or the error that there is none.   *)
Fallback ==
  /\ Open /\ after # 0
  /\ rendered' \in {[rendered EXCEPT !.response_text = Append(@, after)],
                    [rendered EXCEPT !.failed = TRUE]}
  /\ after' = 0
  /\ UNCHANGED <<response, responses, turn, last, odd>> /\ Stay

(* Anything raised in a response is an error step, the last of the run.     *)
error ==
  /\ Open
  /\ rendered' = [rendered EXCEPT !.failed = TRUE]
  /\ response' = None /\ after' = 0
  /\ UNCHANGED <<responses, turn, last, odd>> /\ Stay

(* The end of the steps: what is left of the text is the final text.        *)
EndOfRun(r) ==
  IF r.response_text # << >> /\ ~r.response_called_tool
  THEN [r EXCEPT !.final_text = r.response_text] ELSE r

render_exec ==
  /\ exec = "run" /\ response = None /\ after = 0
  /\ rendered.failed \/ MayEnd
  /\ rendered' = EndOfRun(rendered)
  /\ stdout' = IF options.json THEN << >> ELSE rendered'.final_text
  /\ code' = IF rendered.failed THEN 1 ELSE 0
  /\ opened' = opened \ {"registry"}
  /\ exec' = "write"
  /\ UNCHANGED <<options, goal, response, responses, turn, after, last, odd, output_file, noted>>

KeyboardInterrupt ==
  /\ exec = "run"
  /\ rendered' = [rendered EXCEPT !.final_text = << >>]
  /\ code' = 130
  /\ opened' = opened \ {"registry"}
  /\ exec' = "write" /\ response' = None /\ after' = 0
  /\ UNCHANGED <<options, goal, responses, turn, last, odd, stdout, output_file, noted>>

write_output ==
  /\ exec = "write"
  /\ \/ /\ output_file' = IF options.output THEN rendered.final_text ELSE output_file
        /\ UNCHANGED code
     \/ options.output /\ code' = 1 /\ output_file' \in {output_file, << >>}
  /\ exec' = "close"
  /\ UNCHANGED <<options, opened, goal, response, responses, turn, after, rendered, last, odd,
                 stdout, noted>>

close ==
  /\ exec = "close"
  /\ noted' = ("session" \in opened)
  /\ opened' = {}
  /\ exec' = "ended"
  /\ UNCHANGED <<options, goal, response, responses, turn, after, rendered, last, odd, stdout,
                 output_file, code>>

ExecNext ==
  \/ open_session \/ set_goal \/ build_registry \/ prepare
  \/ Respond \/ text \/ tool_call \/ usage \/ Fallback \/ error
  \/ render_exec \/ KeyboardInterrupt \/ write_output \/ close \/ Uncaught

ExecSpec == ExecInit /\ [][ExecNext]_execVars

-----------------------------------------------------------------------------
(* What a command that ends with 0 printed, or wrote to the file asked for,  *)
(* is the text of the last response that called no tool, and nothing of     *)
(* another response; unless an answer that came without deltas was          *)
(* continued (render_exec, cmd_exec).                                       *)
LastAnswer ==
  exec = "ended" /\ code = 0 =>
    /\ ~odd => /\ rendered.final_text # << >>
               /\ \A i \in DOMAIN rendered.final_text : rendered.final_text[i] = last
    /\ ~options.json => stdout = rendered.final_text
    /\ options.output => output_file = rendered.final_text
    /\ noted = ~options.ephemeral

(* However the command ends, by an exception nothing catches too, its tools  *)
(* are closed once a model was asked; the session is left open by a command *)
(* refused before its run and by such an exception, by nothing else; and a  *)
(* refused command asked no model and left the file alone (_agent,          *)
(* cmd_exec).                                                               *)
ClosedAtEnd ==
  exec \in {"ended", "raised"} =>
    /\ responses > 0 => "registry" \notin opened
    /\ opened # {} => code = 2 \/ exec = "raised"
    /\ code = 2 => responses = 0 /\ output_file = Untouched
=============================================================================
