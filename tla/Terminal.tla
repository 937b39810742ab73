------------------------------ MODULE Terminal ------------------------------
(***************************************************************************)
(* The interactive terminal (mjj/tui.py: InteractiveApp).  A line starts a *)
(* turn; on a rich terminal the turn renders in a thread while the user    *)
(* types guidance (Enter) or follow-ups (Tab), otherwise it renders in the *)
(* foreground.  Ctrl+C and Ctrl+D end the live prompt, not the thread: the *)
(* event loop waits for it when it closes, until a second Ctrl+C or, from  *)
(* Python 3.12 on, for five minutes.  /plan makes the session read-only    *)
(* until it is approved or cancelled; /new, /resume, /fork and /tree       *)
(* change the session.                                                     *)
(***************************************************************************)
EXTENDS Integers, Sequences, SequencesExt

CONSTANTS
  Modes,         \* permission modes, "read-only" among them
  MaxTyped,      \* bound: lines that reach a turn
  MaxShots,      \* bound: images attached
  MaxCommands    \* bound: commands that change the plan, the mode or the session

VARIABLES
  rich,          \* the terminal renders in a thread
  console,       \* prompt, turn, live, plain, joining, closing, exited
  prompts,       \* the prompts of this turn: text and images
  pending_prompts,
  attachments,
  at_work,       \* runs whose thread or generator still works
  begun,         \* the prompts started: text, images, session
  queued,        \* follow-ups the terminal announced
  missed,        \* inputs that ended with the run and were dropped
  permission,    \* permission_policy.mode
  waiting,       \* ctx.state["plan-permission-mode"], or "none"
  outline,       \* the session whose run left ctx.state["plan"], 0 for none
  session,
  left_behind,   \* the console went on while a run was at work
  chosen,        \* the mode the user chose last
  rechosen,      \* it was chosen while a plan waited
  typed, attached, commands

termVars == <<rich, console, prompts, pending_prompts, attachments, at_work,
              begun, queued, missed, permission, waiting, outline, session,
              left_behind, chosen, rechosen, typed, attached, commands>>

TermInit(richness) ==
  /\ rich \in richness /\ console = "prompt"
  /\ prompts = << >> /\ pending_prompts = << >> /\ attachments = {}
  /\ at_work = {} /\ begun = << >> /\ queued = << >> /\ missed = {}
  /\ permission = "auto" /\ waiting = "none" /\ outline = 0 /\ session = 1
  /\ left_behind = FALSE /\ chosen = "auto" /\ rechosen = FALSE
  /\ typed = 0 /\ attached = 0 /\ commands = 0

Settings == <<permission, waiting, outline, session, chosen, rechosen>>
Inputs == <<prompts, pending_prompts, attachments, begun, queued, missed, typed, attached>>

(* The head of turn: the attachments go with the first prompt.              *)
turn ==
  /\ typed < MaxTyped /\ typed' = typed + 1
  /\ prompts' = <<[text |-> typed', images |-> attachments]>> /\ attachments' = {}
  /\ console' = "turn"
  /\ UNCHANGED <<rich, pending_prompts, at_work, begun, queued, missed, left_behind, attached>>

Line == console = "prompt" /\ turn /\ UNCHANGED <<Settings, commands>>

_attach ==
  /\ console = "prompt" /\ attached < MaxShots /\ attached' = attached + 1
  /\ attachments' = attachments \cup {attached'}
  /\ UNCHANGED <<rich, console, prompts, pending_prompts, at_work, begun, queued,
                 missed, Settings, left_behind, typed, commands>>

(* One iteration of turn: the run starts, and is rendered.                  *)
StartRun ==
  /\ console = "turn" /\ prompts # << >>
  /\ prompts' = Tail(prompts)
  /\ LET run == [text |-> Head(prompts).text, images |-> Head(prompts).images,
                 session |-> session]
     IN begun' = Append(begun, run) /\ at_work' = at_work \cup {run.text}
  /\ console' = IF rich THEN "live" ELSE "plain"
  /\ UNCHANGED <<rich, pending_prompts, attachments, queued, missed, Settings,
                 left_behind, typed, attached, commands>>

EndTurn ==
  /\ console = "turn" /\ prompts = << >> /\ console' = "prompt"
  /\ UNCHANGED <<rich, at_work, Settings, Inputs, left_behind, commands>>

Current == Last(begun).text

(* After a run, interrupted or not, the follow-ups join the turn.           *)
Drain(queue) ==
  /\ prompts' = prompts \o [i \in DOMAIN queue |-> [text |-> queue[i], images |-> {}]]
  /\ pending_prompts' = << >>
  /\ console' = "turn"

Settled == <<rich, attachments, begun, queued, permission, waiting, session,
             chosen, rechosen, attached, commands>>

(* The run of the foreground ends, or Ctrl+C drops its generator. *)
_render ==
  /\ console = "plain" /\ at_work' = at_work \ {Current}
  /\ \/ Drain(pending_prompts)
     \/ (* the rendering raised *) console' = "exited" /\ UNCHANGED <<prompts, pending_prompts>>
  /\ UNCHANGED <<Settled, outline, left_behind, typed, missed>>

(* The live prompt returns before the worker: guidance goes to the agent,   *)
(* a follow-up to the queue, an empty line nowhere.                         *)
_accept_live_input ==
  /\ console = "live" /\ Current \in at_work
  /\ typed < MaxTyped /\ typed' = typed + 1
  /\ \/ UNCHANGED <<pending_prompts, queued>>
     \/ /\ pending_prompts' = Append(pending_prompts, typed')
        /\ queued' = Append(queued, typed')
  /\ UNCHANGED <<rich, console, prompts, attachments, at_work, begun, missed,
                 Settings, left_behind, attached, commands>>

(* update_plan, called by a run at work. *)
update_plan ==
  /\ \E i \in DOMAIN begun : begun[i].text \in at_work /\ outline' = begun[i].session
  /\ outline' # outline
  /\ UNCHANGED <<rich, console, at_work, Inputs, permission, waiting, session,
                 chosen, rechosen, left_behind, commands>>

(* The thread of a run finishes. *)
WorkerDone ==
  /\ rich /\ \E run \in at_work : at_work' = at_work \ {run}
  /\ UNCHANGED <<rich, console, Inputs, Settings, left_behind, commands>>

(* _interactive_render sees the worker done: the prompt is cancelled, and   *)
(* what it had returned at the same moment is not looked at.                *)
_interactive_render ==
  /\ console = "live" /\ Current \notin at_work
  /\ \/ UNCHANGED <<typed, missed>>
     \/ typed < MaxTyped /\ typed' = typed + 1 /\ missed' = missed \cup {typed'}
  /\ \/ Drain(pending_prompts)
     \/ (* the rendering raised *) console' = "exited" /\ UNCHANGED <<prompts, pending_prompts>>
  /\ UNCHANGED <<Settled, outline, at_work, left_behind>>

(* Ctrl+C and Ctrl+D in the live prompt: the loop closes, which waits for   *)
(* the thread.                                                              *)
Interrupt ==
  /\ console = "live" /\ console' \in {"joining", "closing"}
  /\ UNCHANGED <<rich, at_work, Inputs, Settings, left_behind, commands>>

(* The thread is done; or another Ctrl+C ends the waiting, and the end of   *)
(* the file it may have been waiting for; or, from Python 3.12 on, the loop *)
(* has waited for five minutes and leaves the thread behind.                *)
shutdown_default_executor ==
  /\ console \in {"joining", "closing"}
  /\ \/ /\ Current \notin at_work /\ UNCHANGED left_behind
        /\ IF console = "joining" THEN Drain(pending_prompts)
           ELSE console' = "exited" /\ UNCHANGED <<prompts, pending_prompts>>
     \/ /\ Current \in at_work /\ left_behind' = TRUE
        /\ \/ Drain(pending_prompts)
           \/ /\ console = "closing" /\ console' = "exited"
              /\ UNCHANGED <<prompts, pending_prompts>>
  /\ UNCHANGED <<Settled, outline, at_work, typed, missed>>

(* /plan TASK, approve, cancel, clear. *)
Command == console = "prompt" /\ commands < MaxCommands /\ commands' = commands + 1
Stay == UNCHANGED <<rich, console, at_work, Inputs, left_behind>>

(* Mutant: a second plan forgets the user's mode. *)
PlanAgain ==
  /\ Command /\ turn
  /\ waiting' = permission /\ permission' = "read-only"
  /\ UNCHANGED <<outline, session, chosen, rechosen>>

_plan ==
  /\ Command /\ turn
  /\ waiting' = IF waiting = "none" THEN permission ELSE waiting
  /\ permission' = "read-only"
  /\ UNCHANGED <<outline, session, chosen, rechosen>>

Resume == permission' = waiting /\ waiting' = "none" /\ UNCHANGED rechosen

_plan_approve ==
  /\ Command /\ waiting # "none" /\ Resume /\ turn
  /\ UNCHANGED <<outline, session, chosen>>

_plan_cancel ==
  /\ Command /\ Stay /\ outline' = 0 /\ UNCHANGED <<session, chosen>>
  /\ IF waiting # "none" THEN Resume ELSE UNCHANGED <<permission, waiting, rechosen>>

_plan_clear ==
  /\ Command /\ Stay /\ outline # 0 /\ outline' = 0
  /\ UNCHANGED <<permission, waiting, session, chosen, rechosen>>

_permissions ==
  /\ Command /\ Stay /\ permission' \in Modes /\ chosen' = permission'
  /\ rechosen' = (waiting # "none") /\ UNCHANGED <<waiting, outline, session>>

_switch_session ==
  /\ Command /\ Stay /\ session' = session + 1 /\ outline' = 0
  /\ UNCHANGED <<permission, waiting, chosen, rechosen>>

Exit ==
  /\ console = "prompt" /\ console' = "exited"
  /\ UNCHANGED <<rich, at_work, Inputs, Settings, left_behind, commands>>

TermNext ==
  \/ Line \/ _attach \/ StartRun \/ EndTurn \/ _render \/ _accept_live_input
  \/ update_plan \/ WorkerDone \/ _interactive_render \/ Interrupt
  \/ shutdown_default_executor \/ _plan \/ _plan_approve \/ _plan_cancel
  \/ _plan_clear \/ _permissions \/ _switch_session \/ Exit

TermSpec == TermInit({TRUE, FALSE}) /\ [][TermNext]_termVars

(* The lines of the user that reach a turn, in the order they do.           *)
TextsOf(list) == [i \in DOMAIN list |-> list[i].text]
Lines == TextsOf(begun) \o TextsOf(prompts) \o pending_prompts

(* A follow-up the terminal announced is started once, in the order of the  *)
(* announcements, or still waits, whatever was interrupted in between.  One *)
(* entered in the moment the run ends is not announced: _interactive_render *)
(* drops it, and it is in missed.                                           *)
FollowUpsKept ==
  /\ ToSet(pending_prompts) \subseteq ToSet(queued)
  /\ ToSet(queued) \subseteq ToSet(Lines)
  /\ \A i, j \in DOMAIN Lines, k, l \in DOMAIN queued :
       Lines[i] = queued[k] /\ Lines[j] = queued[l] => (i < j <=> k < l)

(* An image is sent with one prompt, the first to start a turn after it was *)
(* attached.                                                                *)
Sent(shot, list) == {i \in DOMAIN list : shot \in list[i].images}
ImagesOnce ==
  \A shot \in 1..attached :
    IF shot \in attachments THEN Sent(shot, begun \o prompts) = {}
    ELSE \E i \in DOMAIN (begun \o prompts) : Sent(shot, begun \o prompts) = {i}

(* An agent has one run at work, and none while the user is at the prompt,  *)
(* unless one was left behind: by a second Ctrl+C, or by an event loop that *)
(* waits for it no longer than five minutes (shutdown_default_executor).    *)
OneRun ==
  ~left_behind =>
    /\ \A one, other \in at_work : one = other
    /\ console = "prompt" => at_work = {}

(* From /plan to its approval or cancellation every run is read-only, and   *)
(* then the mode is the one the user had chosen, unless the user chose      *)
(* another meanwhile; a plan is of the session it is shown in, unless a run *)
(* was left behind.                                                         *)
PlanHeld ==
  /\ waiting # "none" /\ ~rechosen => permission = "read-only" /\ waiting = chosen
  /\ waiting = "none" /\ ~rechosen => permission = chosen
  /\ ~left_behind => outline \in {0, session}
=============================================================================
