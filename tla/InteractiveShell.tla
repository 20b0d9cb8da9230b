---------------------------- MODULE InteractiveShell ----------------------------
(***************************************************************************)
(* The interactive shell (interop/adapters/inbound/interactive_cli): a     *)
(* menu, the questions of each command, the call of its use case, and the  *)
(* history every session loads when it starts, appends to and writes back  *)
(* whole.  Sessions of one user share the file and nothing else.           *)
(*                                                                         *)
(* A question is its key and its kind:                                     *)
(*   select    one of the choices at hand; cancelling abandons the command *)
(*   pick      the same, and not asked when there is one choice            *)
(*   value     something typed, brought into a normal form, or refused     *)
(*   param     a param of a node; empty or cancelled leaves it out         *)
(*   mappings  the user mappings file; cancelling keeps the answers        *)
(*   lookup    no question: the shell asks a use case what it needs next   *)
(* Wording, and which answers a value question refuses, are left out.      *)
(***************************************************************************)
EXTENDS Integers, Sequences, FiniteSets

CONSTANTS
  Sessions,
  HistoryLimit,  (* HISTORY_LIMIT                                              *)
  Catalogs,      (* what the project may offer: sets of [source, destination, pipeline] *)
  Params,        (* pipeline -> [source, others]: the params of its source, then those of
                    its steps and sinks, in the order asked: [node, name, yaml]   *)
  NeedsMappings, (* command -> the pipelines it needs a mappings file for      *)
  Options,       (* question -> the choices of a select that never change      *)
  Typed,         (* question -> what a user may type there                     *)
  Prefilled,     (* question -> what a value question shows when nothing is recorded *)
  Normal(_),     (* what the shell makes of a typed value                      *)
  Scenarios      (* [commands, dialogs, beside]: what is run, how many dialogs at most,
                    and whether sessions are open beside each other            *)

Commands == {"validate", "translate", "init", "solve", "compare"}
NoValue  == "-"
None     == [found |-> FALSE]

ASSUME LimitAssumption == HistoryLimit \in Nat \ {0}
Sides == {"side_a_pipeline", "side_b_pipeline"}

\* The names of the questions of each kind; a param has the name of its node before its own.
ValueNames ==
  {"network_path", "output_dir", "start_date", "end_date", "look_ahead_days", "sienna_json_path",
   "time_limit_seconds", "output_path", "target"}
FixedNames ==
  {"model_type", "unit_commitment", "solve_window", "network_model", "solver", "presolve",
   "run_crossover", "example"}

\* What is typed is brought into its normal form once: doing so again changes nothing.
ASSUME NormalAssumption ==
  \A name \in ValueNames : \A v \in Typed[name] \union {Prefilled[name]} :
    Normal(Normal(v)) = Normal(v)

\* What is left out is told from every answer.
ASSUME AnswersAssumption ==
  /\ \A name \in ValueNames \union {"user_mappings_path"} : NoValue \notin Typed[name]
  /\ \A name \in FixedNames : NoValue \notin Options[name]
  /\ \A c \in Catalogs : \A e \in c : NoValue \notin {e.source, e.destination, e.pipeline}

\* A project offers finitely many pipelines, each with its params. A node of a pipeline is
\* its source, a step or a sink.
ASSUME ProjectAssumption ==
  /\ \A c \in Catalogs : IsFiniteSet(c) /\ \A e \in c : e.pipeline \in DOMAIN Params
  /\ \A p \in DOMAIN Params : \A part \in {Params[p].source, Params[p].others} :
       /\ part \in Seq({part[i] : i \in DOMAIN part})
       /\ \A i \in DOMAIN part : part[i].node \notin Sides \union {"command"}

VARIABLES
  scenario,   (* never changes                                                *)
  offered,    (* the pipelines of the project now                             *)
  stage,      (* of each session: what it does next                           *)
  mine,       (* of each session: History.invocations                         *)
  dialog,     (* of each session: the command being asked for                 *)
  file,       (* interactive_history.json                                     *)
  requests,   (* of each dialog ever begun: what its use case was called with *)
  log,        (* every entry a session has written                            *)
  overlapped  (* whether a session was started while another was open         *)

vars == <<scenario, offered, stage, mine, dialog, file, requests, log, overlapped>>

(* ------------------------------ the questions --------------------------- *)

Of(name)     == <<"command", name>>
Q(kind, key) == [kind |-> kind, key |-> key]
Ask(kind, names) == [i \in DOMAIN names |-> Q(kind, Of(names[i]))]
Lookup(what) == <<Q("lookup", Of(what))>>

Prompts(params) == [i \in DOMAIN params |-> Q("param", <<params[i].node, params[i].name>>)]

\* The questions an answer brings: validate asks for the source's params only, translate for
\* those of every node.
Brought(command, name, v) ==
  CASE name = "pipeline_name" ->
         Prompts(Params[v].source)
           \o (IF command = "translate" THEN Prompts(Params[v].others) ELSE << >>)
           \o (IF v \in NeedsMappings[command]
               THEN Ask("mappings", <<"user_mappings_path">>) ELSE << >>)
    [] name = "model_type" ->
         IF v = "pypsa"
         THEN Ask("value", <<"network_path", "output_dir", "start_date", "end_date">>)
                \o Ask("select", <<"unit_commitment", "solve_window">>)
                \o Ask("value", <<"look_ahead_days">>)
         ELSE Lookup("provisioned") \o Ask("value", <<"sienna_json_path">>)
                \o Ask("select", <<"network_model", "unit_commitment", "solver", "presolve",
                                   "run_crossover">>)
                \o Ask("value", <<"time_limit_seconds", "output_dir">>)
    [] name \in Sides ->
         [i \in DOMAIN Params[v].source |-> Q("param", <<name, Params[v].source[i].name>>)]

Following(command, answers, name) ==
  IF Of(name) \in DOMAIN answers THEN Brought(command, name, answers[Of(name)]) ELSE << >>

PipelineQuestions(command, answers) ==
  Lookup("catalog")
    \o Ask("select", <<"source_framework", "destination_framework", "pipeline_name">>)
    \o Lookup("structure") \o Following(command, answers, "pipeline_name")

SolveQuestions(answers) ==
  Ask("select", <<"model_type">>) \o Following("solve", answers, "model_type")

Side(pipeline, structure) == Ask("pick", <<pipeline>>) \o Lookup(structure)

CompareQuestions(answers) ==
  Lookup("comparable") \o Ask("select", <<"side_a_framework", "side_b_framework">>)
    \o Side("side_a_pipeline", "side_a") \o Following("compare", answers, "side_a_pipeline")
    \o Side("side_b_pipeline", "side_b") \o Following("compare", answers, "side_b_pipeline")
    \o Ask("value", <<"output_path">>)

Questions(command, answers) ==
  CASE command \in {"validate", "translate"} -> PipelineQuestions(command, answers)
    [] command = "solve"   -> SolveQuestions(answers)
    [] command = "compare" -> CompareQuestions(answers)
    [] command = "init"    -> Ask("value", <<"target">>) \o Ask("select", <<"example">>)

ResultsOf(catalog, framework) ==
  {e.pipeline : e \in {f \in catalog : f.source = framework /\ f.destination = "results"}}
Comparable(catalog) == {e.source : e \in {f \in catalog : f.destination = "results"}}

Choices(name, d) ==
  LET given(n) == d.answers[Of(n)]
  IN  CASE name = "source_framework" -> {e.source : e \in d.catalog}
        [] name = "destination_framework" ->
             {e.destination : e \in {f \in d.catalog : f.source = given("source_framework")}}
        [] name = "pipeline_name" ->
             {e.pipeline : e \in {f \in d.catalog :
                /\ f.source = given("source_framework")
                /\ f.destination = given("destination_framework")}}
        [] name = "side_a_framework" -> Comparable(d.catalog)
        [] name = "side_b_framework" -> Comparable(d.catalog) \ {given("side_a_framework")}
        [] name = "side_a_pipeline" -> ResultsOf(d.catalog, given("side_a_framework"))
        [] name = "side_b_pipeline" -> ResultsOf(d.catalog, given("side_b_framework"))
        [] OTHER -> Options[name]

(* -------------------------------- a session ----------------------------- *)

Fresh == [command |-> "quit", id |-> 0, of |-> 0, replay |-> << >>, catalog |-> {},
          asked |-> 0, answers |-> << >>, accepted |-> TRUE, details |-> None]

Init ==
  /\ scenario \in Scenarios
  /\ offered \in Catalogs
  /\ stage = [s \in Sessions |-> "closed"]
  /\ mine = [s \in Sessions |-> << >>]
  /\ dialog = [s \in Sessions |-> Fresh]
  /\ file = [state |-> "absent", entries |-> << >>]
  /\ requests = << >> /\ log = << >> /\ overlapped = FALSE

Ended == {"closed", "quit", "failed", "died", "killed", "killed_saving"}
IsOpen(s) == stage[s] \notin Ended

Goto(s, there) == stage' = [stage EXCEPT ![s] = there]

\* A session that ends takes what it remembers with it.
End(s, how) ==
  /\ Goto(s, how)
  /\ mine' = [mine EXCEPT ![s] = << >>] /\ dialog' = [dialog EXCEPT ![s] = Fresh]

\* History.load: no file is an empty history, and one that is not JSON ends the program.
Start(s) ==
  /\ stage[s] = "closed"
  /\ scenario.beside \/ \A t \in Sessions : ~ IsOpen(t)
  /\ Goto(s, IF file.state = "torn" THEN "failed" ELSE "menu")
  /\ mine' = [mine EXCEPT ![s] = file.entries]
  /\ overlapped' = (overlapped \/ \E t \in Sessions \ {s} : IsOpen(t))
  /\ UNCHANGED <<scenario, offered, dialog, file, requests, log>>

Open(s, command, of, replay) ==
  /\ stage[s] = "menu"
  /\ command \in scenario.commands /\ Len(requests) < scenario.dialogs
  /\ Goto(s, "asking")
  /\ dialog' = [dialog EXCEPT ![s] = [Fresh EXCEPT
       !.command = command, !.id = Len(requests) + 1, !.of = of, !.replay = replay]]
  /\ requests' = Append(requests, None)
  /\ UNCHANGED <<scenario, offered, mine, file, log, overlapped>>

Choose(s) == \E c \in Commands : Open(s, c, 0, << >>)

\* The history menu: an entry that was abandoned has no answers to show again.
PickPast(s) ==
  \E i \in DOMAIN mine[s] :
    LET past == mine[s][i]
    IN  Open(s, past.command, past.id,
             IF past.details.found THEN past.details.answers ELSE << >>)

Quit(s) ==
  /\ stage[s] = "menu" /\ End(s, "quit")
  /\ UNCHANGED <<scenario, offered, file, requests, log, overlapped>>

(* ------------------------------- one question --------------------------- *)

Script(d) == Questions(d.command, d.answers)
Next1(d)  == Script(d)[d.asked + 1]
HasNext(d) == d.asked < Len(Script(d))

With(f, key, value) == [k \in DOMAIN f \union {key} |-> IF k = key THEN value ELSE f[k]]

\* What the pipeline itself says of a param.
Yaml(answers, key) ==
  LET side == key[1] \in Sides
      pipeline == answers[Of(IF side THEN key[1] ELSE "pipeline_name")]
      params == Params[pipeline].source \o Params[pipeline].others
      param == CHOOSE i \in DOMAIN params : /\ params[i].node = IF side THEN "source" ELSE key[1]
                                            /\ params[i].name = key[2]
  IN  params[param].yaml

\* A recorded selection that is a choice no more.
IsGone(d, q) ==
  /\ q.kind \in {"select", "pick"} /\ q.key \in DOMAIN d.replay
  /\ d.replay[q.key] \notin Choices(q.key[2], d)

\* A recorded answer is shown while it is a choice; otherwise the choice listed first is
\* highlighted, and the only pipeline of a side is taken.
ChoiceShown(d, q) ==
  LET choices == Choices(q.key[2], d)
  IN  IF choices = {} THEN NoValue
      ELSE IF q.key \in DOMAIN d.replay /\ d.replay[q.key] \in choices THEN d.replay[q.key]
      ELSE CHOOSE v \in choices : TRUE

\* The pipeline's own params before the recorded ones.
DefaultOfThePipeline(d, q) ==
  IF q.kind = "param" /\ d.command # "compare" THEN Yaml(d.answers, q.key)
  ELSE IF q.kind \in {"select", "pick"} THEN ChoiceShown(d, q)
  ELSE IF q.key \in DOMAIN d.replay THEN d.replay[q.key]
  ELSE IF q.kind = "param" THEN NoValue ELSE Prefilled[q.key[2]]

\* What a question shows: the recorded answer, and otherwise what the pipeline or the shell says.
Default(d, q) ==
  IF q.kind \in {"select", "pick"} THEN ChoiceShown(d, q)
  ELSE IF q.key \in DOMAIN d.replay THEN d.replay[q.key]
  ELSE IF q.kind # "param" THEN Prefilled[q.key[2]]
  ELSE IF d.command = "compare" THEN NoValue ELSE Yaml(d.answers, q.key)

Answer(s, kind, value, accepted) ==
  LET d == dialog[s]  q == Next1(d)
  IN  dialog' = [dialog EXCEPT ![s].asked = @ + 1,
        ![s].answers = IF value = NoValue THEN @
                       ELSE With(@, q.key, IF kind = "value" THEN Normal(value) ELSE value),
        ![s].accepted = @ /\ accepted]

Asking(s, kinds) ==
  stage[s] = "asking" /\ HasNext(dialog[s]) /\ Next1(dialog[s]).kind \in kinds

\* Enter: the answer is what the question shows; a param that shows nothing is left out.
Accept(s) ==
  /\ Asking(s, {"select", "pick", "value", "param", "mappings"})
  /\ LET q == Next1(dialog[s])  v == Default(dialog[s], q)
     IN  /\ v = NoValue => q.kind = "param"
         /\ Answer(s, q.kind, v, ~ IsGone(dialog[s], q))
  /\ UNCHANGED <<scenario, offered, stage, mine, file, requests, log, overlapped>>

Type(s) ==
  /\ Asking(s, {"select", "pick", "value", "param", "mappings"})
  /\ LET q == Next1(dialog[s])
     IN  \E v \in (IF q.kind \in {"select", "pick"} THEN Choices(q.key[2], dialog[s])
                   ELSE Typed[q.key[2]]) :
           /\ v # Default(dialog[s], q)
           /\ Answer(s, q.kind, v, FALSE)
  /\ UNCHANGED <<scenario, offered, stage, mine, file, requests, log, overlapped>>

\* A param's answer is emptied, or its prompt cancelled: no override, whatever was shown.
LeaveOut(s) ==
  /\ Asking(s, {"param"})
  /\ Default(dialog[s], Next1(dialog[s])) # NoValue
  /\ Answer(s, "param", NoValue, FALSE)
  /\ UNCHANGED <<scenario, offered, stage, mine, file, requests, log, overlapped>>

\* What the use case answers is read once, here, and used for the questions that follow.
LookUp(s) ==
  /\ Asking(s, {"lookup"})
  /\ LET what == Next1(dialog[s]).key[2]  d == dialog[s]
         gives(name) == \E e \in offered : e.pipeline = d.answers[Of(name)]
     IN  /\ what = "structure" => gives("pipeline_name")
         /\ what = "side_a" => gives("side_a_pipeline")
         /\ what = "side_b" => gives("side_b_pipeline")
         /\ what = "comparable" => Cardinality(Comparable(offered)) > 1
         /\ dialog' = [dialog EXCEPT ![s].asked = @ + 1,
              ![s].catalog = IF what \in {"catalog", "comparable"} THEN offered ELSE @]
  /\ UNCHANGED <<scenario, offered, stage, mine, file, requests, log, overlapped>>

\* A question cancelled, a value refused, a lookup answered by an error the user can mend: the
\* command is abandoned, with its answers where the mappings file was all that was missing.
Abandon(s) ==
  /\ Asking(s, {"select", "pick", "value", "mappings", "lookup"})
  /\ LET q == Next1(dialog[s])
     IN  /\ q.kind = "lookup" => q.key[2] \notin {"side_a", "side_b"}
         /\ q.kind = "pick" => Cardinality(Choices(q.key[2], dialog[s])) > 1
         /\ dialog' = [dialog EXCEPT ![s].details =
              IF q.kind = "mappings" THEN [found |-> TRUE, answers |-> dialog[s].answers]
              ELSE None]
  /\ Goto(s, "recording")
  /\ UNCHANGED <<scenario, offered, mine, file, requests, log, overlapped>>

\* Only compare's lookup of a side lets an error the user can mend through; any other
\* exception of a lookup ends the shell wherever it is raised.
LookUpRaises(s) ==
  /\ Asking(s, {"lookup"})
  /\ End(s, "died")
  /\ UNCHANGED <<scenario, offered, file, requests, log, overlapped>>

(* ------------------------------ the use case ---------------------------- *)

Reported == {"validate", "translate", "compare"}

\* What the use case is called with: answers over the pipeline's own params.
Request(command, answers) ==
  LET script == Questions(command, answers)
      keys == {script[i].key : i \in {j \in DOMAIN script : script[j].kind # "lookup"}}
      params == {script[i].key : i \in {j \in DOMAIN script : script[j].kind = "param"}}
  IN  [command |-> command,
       values |-> [k \in keys |-> IF k \in params /\ k \notin DOMAIN answers
                                  THEN Yaml(answers, k) ELSE answers[k]]]

\* Every command records the answers of a run that came back or failed in a way the user can
\* mend; after any other exception three of them do, and the others end the shell.
Call(s) ==
  /\ stage[s] = "asking" /\ ~ HasNext(dialog[s])
  /\ LET d == dialog[s]
     IN  /\ requests' = [requests EXCEPT ![d.id] = [found |-> TRUE, request |-> Request(d.command, d.answers)]]
         /\ \/ /\ Goto(s, "recording") /\ UNCHANGED mine
               /\ dialog' = [dialog EXCEPT ![s].details =
                               [found |-> TRUE, answers |-> d.answers]]
            \/ d.command \notin Reported /\ End(s, "died")
  /\ UNCHANGED <<scenario, offered, file, log, overlapped>>

(* ------------------------------- the history ---------------------------- *)

LastOf(entries) ==
  SubSeq(entries, IF Len(entries) > HistoryLimit THEN Len(entries) - HistoryLimit + 1 ELSE 1,
         Len(entries))

Entry(d) == [id |-> d.id, command |-> d.command, details |-> d.details]

\* The newest first, as the menu shows them.
RecordNewestFirst(s) ==
  /\ stage[s] = "recording"
  /\ mine' = [mine EXCEPT ![s] = LastOf(<<Entry(dialog[s])>> \o @)]
  /\ file' = [state |-> "torn", entries |-> << >>]
  /\ Goto(s, "saving")
  /\ UNCHANGED <<scenario, offered, dialog, requests, log, overlapped>>

\* History.record appends and trims, and write_text empties the file before it writes.
Record(s) ==
  /\ stage[s] = "recording"
  /\ mine' = [mine EXCEPT ![s] = LastOf(Append(@, Entry(dialog[s])))]
  /\ file' = [state |-> "torn", entries |-> << >>]
  /\ Goto(s, "saving")
  /\ UNCHANGED <<scenario, offered, dialog, requests, log, overlapped>>

\* Where another session has written since this one emptied the file, its longer text may
\* stick out behind this one's.
Save(s) ==
  /\ stage[s] = "saving"
  /\ \/ file' = [state |-> "whole", entries |-> mine[s]]
     \/ file.state = "whole" /\ file' = [state |-> "torn", entries |-> << >>]
  /\ log' = Append(log, Entry(dialog[s]))
  /\ dialog' = [dialog EXCEPT ![s] = Fresh]
  /\ Goto(s, "menu")
  /\ UNCHANGED <<scenario, offered, mine, requests, overlapped>>

(* ----------------------------- the environment -------------------------- *)

\* Ctrl-C outside a prompt, a closed terminal.
Kill(s) ==
  /\ IsOpen(s)
  /\ End(s, IF stage[s] = "saving" THEN "killed_saving" ELSE "killed")
  /\ UNCHANGED <<scenario, offered, file, requests, log, overlapped>>

\* The project's pipelines change under the sessions.
EditProject ==
  /\ \E c \in Catalogs \ {offered} : offered' = c
  /\ UNCHANGED <<scenario, stage, mine, dialog, file, requests, log, overlapped>>

Terminated == (\A s \in Sessions : stage[s] \in Ended \ {"closed"}) /\ UNCHANGED vars

Step(s) ==
  \/ Start(s) \/ Choose(s) \/ PickPast(s) \/ Quit(s)
  \/ Accept(s) \/ Type(s) \/ LeaveOut(s) \/ LookUp(s) \/ Abandon(s) \/ LookUpRaises(s)
  \/ Call(s) \/ Record(s) \/ Save(s) \/ Kill(s)

Next == (\E s \in Sessions : Step(s)) \/ EditProject \/ Terminated

Spec == Init /\ [][Next]_vars

(* ------------------------------- properties ----------------------------- *)

\* A past command picked again, and every question answered by what it shows, calls its use
\* case with what it was called with then: answers survive being recorded, trimmed, written,
\* loaded and shown, whatever else the project has come to offer, as long as what was selected
\* is still a choice when it is asked for.  Where it is not (IsGone), the first choice is
\* highlighted, or the only one taken, and Enter runs something else.
AReplayRepeatsTheRun ==
  \A s \in Sessions :
    LET d == dialog[s]
    IN  /\ stage[s] = "recording" /\ d.of # 0 /\ d.accepted
        /\ requests[d.id].found /\ requests[d.of].found
        => requests[d.id] = requests[d.of]

\* As long as no session is started beside another, the file holds the last commands begun,
\* in their order, up to the limit; it cannot be read only while it is being written, or
\* after a session was killed writing it.
HistoryIsTheLastDialogs ==
  overlapped \/ CASE file.state = "absent" -> log = << >>
                  [] file.state = "whole"  -> file.entries = LastOf(log)
                  [] file.state = "torn"   ->
                       \E s \in Sessions : stage[s] \in {"saving", "killed_saving"}
=============================================================================
