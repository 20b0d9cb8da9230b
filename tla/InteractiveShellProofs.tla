------------------------ MODULE InteractiveShellProofs ------------------------
(***************************************************************************)
(* Theorems about InteractiveShell, for any number of sessions, any limit  *)
(* of the history and any project.                                         *)
(***************************************************************************)
EXTENDS InteractiveShell, SequenceTheorems, FiniteSetTheorems, FunctionTheorems, TLAPS

(* ----------------------- the last entries of a log ---------------------- *)

LEMMA LastOfAShortLog ==
  ASSUME NEW S, NEW q \in Seq(S), Len(q) <= HistoryLimit
  PROVE  LastOf(q) = q
  <1>1. Len(q) \in Nat /\ ~ Len(q) > HistoryLimit
    BY LimitAssumption
  <1>2. LastOf(q) = SubSeq(q, 1, Len(q))
    BY <1>1, Zenon DEF LastOf
  <1> QED
    BY <1>2, SubSeqFull

LEMMA LastOfALongLog ==
  ASSUME NEW S, NEW q \in Seq(S), Len(q) > HistoryLimit
  PROVE  /\ LastOf(q) \in Seq(S)
         /\ Len(LastOf(q)) = HistoryLimit
         /\ \A i \in 1..HistoryLimit : LastOf(q)[i] = q[i + Len(q) - HistoryLimit]
  <1> DEFINE m == Len(q) - HistoryLimit + 1
             n == Len(q)
  <1>1. LastOf(q) = SubSeq(q, m, n)
    BY DEF LastOf
  <1>2. m \in 1..n+1 /\ n \in m-1..Len(q) /\ n - m + 1 = HistoryLimit
    BY LimitAssumption
  <1> QED
    BY <1>1, <1>2, LimitAssumption, SubSeqProperties

\* A history trimmed before an entry is appended trims to what the whole log would.
LEMMA TrimmingAsItGrows ==
  ASSUME NEW S, NEW q \in Seq(S), NEW e \in S
  PROVE  LastOf(Append(LastOf(q), e)) = LastOf(Append(q, e))
  <1>1. CASE Len(q) <= HistoryLimit
    BY <1>1, LastOfAShortLog
  <1>2. CASE Len(q) > HistoryLimit
    <2> DEFINE k == LastOf(q)
               a == Append(k, e)
               b == Append(q, e)
    <2>1. /\ k \in Seq(S) /\ Len(k) = HistoryLimit
          /\ \A i \in 1..HistoryLimit : k[i] = q[i + Len(q) - HistoryLimit]
      BY <1>2, LastOfALongLog
    <2>2. /\ a \in Seq(S) /\ Len(a) = HistoryLimit + 1
          /\ \A i \in 1..HistoryLimit : a[i] = k[i]
          /\ a[HistoryLimit + 1] = e
      BY <2>1, AppendProperties
    <2>3. /\ b \in Seq(S) /\ Len(b) = Len(q) + 1
          /\ \A i \in 1..Len(q) : b[i] = q[i]
          /\ b[Len(q) + 1] = e
      BY AppendProperties
    <2> HIDE DEF k, a, b
    <2>4. /\ LastOf(a) \in Seq(S) /\ Len(LastOf(a)) = HistoryLimit
          /\ \A i \in 1..HistoryLimit : LastOf(a)[i] = a[i + Len(a) - HistoryLimit]
      BY <2>2, LimitAssumption, LastOfALongLog
    <2>5. /\ LastOf(b) \in Seq(S) /\ Len(LastOf(b)) = HistoryLimit
          /\ \A i \in 1..HistoryLimit : LastOf(b)[i] = b[i + Len(b) - HistoryLimit]
      <3>1. Len(b) > HistoryLimit
        BY <1>2, <2>3, LimitAssumption
      <3> QED
        BY <2>3, <3>1, LastOfALongLog
    <2>6. ASSUME NEW i \in 1..HistoryLimit
          PROVE  LastOf(a)[i] = LastOf(b)[i]
      <3>1. LastOf(a)[i] = a[i + 1] /\ LastOf(b)[i] = b[i + Len(q) + 1 - HistoryLimit]
        <4>1. LastOf(a)[i] = a[i + Len(a) - HistoryLimit] /\ LastOf(b)[i] = b[i + Len(b) - HistoryLimit]
          BY <2>4, <2>5
        <4>2. i \in Int /\ HistoryLimit \in Int /\ Len(q) \in Int
          BY LimitAssumption, LenProperties
        <4>3. /\ i + Len(a) - HistoryLimit = i + 1
              /\ i + Len(b) - HistoryLimit = i + Len(q) + 1 - HistoryLimit
          BY <2>2, <2>3, <4>2
        <4> QED
          BY <4>1, <4>3
      <3>2. CASE i = HistoryLimit
        BY <2>2, <2>3, <3>1, <3>2, LimitAssumption
      <3>3. CASE i # HistoryLimit
        <4>1. i + 1 \in 1..HistoryLimit /\ i + Len(q) + 1 - HistoryLimit \in 1..Len(q)
          BY <1>2, <3>3, LimitAssumption
        <4>2. a[i + 1] = q[i + 1 + Len(q) - HistoryLimit]
          BY <2>1, <2>2, <4>1
        <4> QED
          BY <2>3, <3>1, <4>1, <4>2, LimitAssumption
      <3> QED
        BY <3>2, <3>3
    <2>7. LastOf(a) = LastOf(b)
      BY <2>4, <2>5, <2>6, SeqEqual
    <2> QED
      BY <2>7 DEF a, b, k
  <1> QED
    BY <1>1, <1>2, LimitAssumption

(* ---------------------------- the history file -------------------------- *)

LogEntries == {log[i] : i \in DOMAIN log}

OneSessionAtATime == \A s, t \in Sessions : IsOpen(s) /\ IsOpen(t) => s = t

\* What an open session remembers is what the file held when it started, and what it has
\* written since.
RemembersTheLog(s) ==
  IF stage[s] = "saving"
    THEN file.state = "torn" /\ mine[s] = LastOf(Append(log, Entry(dialog[s])))
    ELSE file.state # "torn" /\ mine[s] = LastOf(log)

FileIsTheLog ==
  CASE file.state = "absent" -> log = << >> /\ file.entries = << >>
    [] file.state = "whole"  -> file.entries = LastOf(log)
    [] file.state = "torn"   -> \E s \in Sessions : stage[s] \in {"saving", "killed_saving"}

Remembering ==
  /\ log \in Seq(LogEntries)
  /\ file.state \in {"absent", "whole", "torn"}
  /\ DOMAIN stage = Sessions /\ DOMAIN mine = Sessions
  /\ ~ overlapped =>
       /\ OneSessionAtATime
       /\ \A s \in Sessions : IsOpen(s) => RemembersTheLog(s)
       /\ FileIsTheLog

LEMMA RememberingInit == Init => Remembering
  <1> SUFFICES ASSUME Init PROVE Remembering
    OBVIOUS
  <1>1. log = << >> /\ log \in Seq(LogEntries)
    BY DEF Init
  <1>2. \A s \in Sessions : ~ IsOpen(s)
    BY DEF Init, IsOpen, Ended
  <1> QED
    BY <1>1, <1>2 DEF Init, Remembering, OneSessionAtATime, FileIsTheLog

\* A step that neither starts a session nor writes leaves what the sessions remember as it is.
LEMMA OtherStepsRemember ==
  ASSUME Remembering, NEW s \in Sessions, IsOpen(s), UNCHANGED <<file, log, overlapped>>,
         DOMAIN stage' = Sessions, DOMAIN mine' = Sessions,
         \A t \in Sessions \ {s} : stage'[t] = stage[t] /\ mine'[t] = mine[t],
         stage[s] = "saving" => stage'[s] = "killed_saving",
         stage'[s] # "saving",
         IsOpen(s)' => mine' = mine
  PROVE  Remembering'
  <1> USE DEF Remembering
  <1>1. \A t \in Sessions : IsOpen(t)' => IsOpen(t)
    BY DEF IsOpen
  <1> SUFFICES ASSUME ~ overlapped
               PROVE  /\ OneSessionAtATime'
                      /\ \A t \in Sessions : IsOpen(t)' => RemembersTheLog(t)'
                      /\ FileIsTheLog'
    BY DEF LogEntries
  <1>2. OneSessionAtATime'
    BY <1>1 DEF OneSessionAtATime
  <1>3. ASSUME NEW t \in Sessions, IsOpen(t)'
        PROVE  RemembersTheLog(t)'
    <2>1. t = s
      BY <1>1, <1>3 DEF OneSessionAtATime
    <2>2. stage[s] # "saving" /\ stage'[s] # "saving" /\ mine'[s] = mine[s]
      BY <1>3, <2>1 DEF IsOpen, Ended
    <2> QED
      BY <2>1, <2>2 DEF RemembersTheLog
  <1>4. FileIsTheLog'
    <2>1. CASE file.state = "torn"
      <3>1. PICK t \in Sessions : stage[t] \in {"saving", "killed_saving"}
        BY <2>1 DEF FileIsTheLog
      <3>2. stage'[t] \in {"saving", "killed_saving"}
        BY <3>1 DEF IsOpen, Ended
      <3> QED
        BY <2>1, <3>2 DEF FileIsTheLog
    <2>2. CASE file.state # "torn"
      BY <2>2 DEF FileIsTheLog
    <2> QED
      BY <2>1, <2>2
  <1> QED
    BY <1>2, <1>3, <1>4

\* A session that starts with no other open remembers the file, which is the log.
LEMMA StartRemembers ==
  ASSUME Remembering, NEW s \in Sessions, Start(s)
  PROVE  Remembering'
  <1> USE DEF Remembering
  <1>1. /\ stage[s] = "closed" /\ UNCHANGED <<file, log>>
        /\ DOMAIN stage' = Sessions /\ DOMAIN mine' = Sessions
        /\ stage'[s] = (IF file.state = "torn" THEN "failed" ELSE "menu")
        /\ mine'[s] = file.entries
        /\ \A t \in Sessions \ {s} : stage'[t] = stage[t]
    BY DEF Start, Goto
  <1> SUFFICES ASSUME ~ overlapped'
               PROVE  /\ OneSessionAtATime'
                      /\ \A t \in Sessions : IsOpen(t)' => RemembersTheLog(t)'
                      /\ FileIsTheLog'
    BY <1>1 DEF LogEntries
  <1>2. ~ overlapped /\ \A t \in Sessions \ {s} : ~ IsOpen(t)
    BY DEF Start
  <1>3. \A t \in Sessions : IsOpen(t)' => t = s
    BY <1>1, <1>2 DEF IsOpen
  <1>4. ASSUME IsOpen(s)' PROVE RemembersTheLog(s)'
    <2>1. file.state # "torn" /\ stage'[s] = "menu"
      BY <1>1, <1>4 DEF IsOpen, Ended
    <2>2. LastOf(<< >>) = << >>
      BY LimitAssumption DEF LastOf
    <2>3. file.entries = LastOf(log)
      BY <1>2, <2>1, <2>2 DEF FileIsTheLog
    <2> QED
      BY <1>1, <2>1, <2>3 DEF RemembersTheLog
  <1>5. FileIsTheLog'
    <2>1. \A t \in Sessions : stage[t] \in {"saving", "killed_saving"} => stage'[t] = stage[t]
      BY <1>1
    <2> QED
      BY <1>1, <1>2, <2>1 DEF FileIsTheLog
  <1> QED
    BY <1>3, <1>4, <1>5 DEF OneSessionAtATime

\* The history a session is about to write is the log with the command it records.
LEMMA RecordRemembers ==
  ASSUME Remembering, NEW s \in Sessions, Record(s)
  PROVE  Remembering'
  <1> USE DEF Remembering
  <1> DEFINE e == Entry(dialog[s])
  <1>1. /\ stage[s] = "recording" /\ UNCHANGED <<log, overlapped, dialog>>
        /\ DOMAIN stage' = Sessions /\ DOMAIN mine' = Sessions
        /\ stage'[s] = "saving" /\ mine'[s] = LastOf(Append(mine[s], e))
        /\ file'.state = "torn"
        /\ \A t \in Sessions \ {s} : stage'[t] = stage[t]
    BY DEF Record, Goto
  <1> SUFFICES ASSUME ~ overlapped
               PROVE  /\ OneSessionAtATime'
                      /\ \A t \in Sessions : IsOpen(t)' => RemembersTheLog(t)'
                      /\ FileIsTheLog'
    BY <1>1 DEF LogEntries
  <1>2. IsOpen(s)
    BY <1>1 DEF IsOpen, Ended
  <1>3. \A t \in Sessions : IsOpen(t)' => t = s
    BY <1>1, <1>2 DEF IsOpen, OneSessionAtATime
  <1>4. mine[s] = LastOf(log)
    BY <1>1, <1>2 DEF RemembersTheLog
  <1>5. LastOf(Append(LastOf(log), e)) = LastOf(Append(log, e))
    <2>1. log \in Seq(LogEntries \union {e})
      BY SeqMonotonic
    <2> QED
      BY <2>1, TrimmingAsItGrows
  <1>6. RemembersTheLog(s)'
    BY <1>1, <1>4, <1>5 DEF RemembersTheLog, Entry
  <1>7. FileIsTheLog'
    BY <1>1 DEF FileIsTheLog
  <1> QED
    BY <1>3, <1>6, <1>7 DEF OneSessionAtATime

\* What is written is the log the command has joined.
LEMMA SaveRemembers ==
  ASSUME Remembering, NEW s \in Sessions, Save(s)
  PROVE  Remembering'
  <1> USE DEF Remembering
  <1> DEFINE e == Entry(dialog[s])
  <1>1. /\ stage[s] = "saving" /\ UNCHANGED <<mine, overlapped>>
        /\ DOMAIN stage' = Sessions /\ stage'[s] = "menu"
        /\ log' = Append(log, e)
        /\ \A t \in Sessions \ {s} : stage'[t] = stage[t]
        /\ \/ file'.state = "whole" /\ file'.entries = mine[s]
           \/ file.state = "whole" /\ file'.state = "torn"
    BY DEF Save, Goto
  <1>2. log' \in Seq(LogEntries')
    <2>1. /\ log' \in Seq(LogEntries \union {e}) /\ Len(log') = Len(log) + 1
          /\ DOMAIN log' = 1..Len(log')
      <3>1. log \in Seq(LogEntries \union {e})
        BY SeqMonotonic
      <3> QED
        BY <1>1, <3>1, AppendProperties
    <2>2. Len(log') \in Nat /\ log' = [i \in 1..Len(log') |-> log'[i]]
      BY <2>1
    <2>3. \A i \in 1..Len(log') : log'[i] \in LogEntries'
      BY <2>1 DEF LogEntries
    <2> QED
      BY <2>2, <2>3, IsASeq
  <1> SUFFICES ASSUME ~ overlapped
               PROVE  /\ OneSessionAtATime'
                      /\ \A t \in Sessions : IsOpen(t)' => RemembersTheLog(t)'
                      /\ FileIsTheLog'
    BY <1>1, <1>2
  <1>3. IsOpen(s)
    BY <1>1 DEF IsOpen, Ended
  <1>4. \A t \in Sessions : IsOpen(t)' => t = s
    BY <1>1, <1>3 DEF IsOpen, OneSessionAtATime
  <1>5. file.state = "torn" /\ mine[s] = LastOf(Append(log, e))
    BY <1>1, <1>3 DEF RemembersTheLog
  <1>6. file'.state = "whole" /\ file'.entries = LastOf(log')
    BY <1>1, <1>5
  <1>7. RemembersTheLog(s)'
    BY <1>1, <1>5, <1>6 DEF RemembersTheLog
  <1>8. FileIsTheLog'
    BY <1>6 DEF FileIsTheLog
  <1> QED
    BY <1>4, <1>7, <1>8 DEF OneSessionAtATime

LEMMA RememberingStep == Remembering /\ [Next]_vars => Remembering'
  <1> SUFFICES ASSUME Remembering, [Next]_vars PROVE Remembering'
    OBVIOUS
  <1> USE DEF IsOpen, Ended, Goto
  <1>1. ASSUME NEW s \in Sessions, Choose(s) \/ PickPast(s) PROVE Remembering'
    <2>1. stage[s] = "menu" /\ stage' = [stage EXCEPT ![s] = "asking"]
          /\ UNCHANGED <<mine, file, log, overlapped>>
      BY <1>1 DEF Choose, PickPast, Open
    <2> QED
      BY <2>1, OtherStepsRemember DEF Remembering
  <1>2. ASSUME NEW s \in Sessions, Accept(s) \/ Type(s) \/ LeaveOut(s) \/ LookUp(s)
        PROVE  Remembering'
    <2>1. stage[s] = "asking" /\ UNCHANGED <<stage, mine, file, log, overlapped>>
      BY <1>2 DEF Accept, Type, LeaveOut, LookUp, Asking
    <2> QED
      BY <2>1, OtherStepsRemember DEF Remembering
  <1>3. ASSUME NEW s \in Sessions, Abandon(s) PROVE Remembering'
    <2>1. stage[s] = "asking" /\ stage' = [stage EXCEPT ![s] = "recording"]
          /\ UNCHANGED <<mine, file, log, overlapped>>
      BY <1>3 DEF Abandon, Asking
    <2> QED
      BY <2>1, OtherStepsRemember DEF Remembering
  <1>4. ASSUME NEW s \in Sessions, NEW how \in Ended, IsOpen(s), End(s, how),
               stage[s] = "saving" => how = "killed_saving",
               UNCHANGED <<file, log, overlapped>>
        PROVE  Remembering'
    <2>1. /\ stage' = [stage EXCEPT ![s] = how] /\ mine' = [mine EXCEPT ![s] = << >>]
      BY <1>4 DEF End
    <2> QED
      BY <1>4, <2>1, OtherStepsRemember DEF Remembering
  <1>5. ASSUME NEW s \in Sessions, Quit(s) \/ LookUpRaises(s) \/ Kill(s) PROVE Remembering'
    <2>1. /\ IsOpen(s) /\ UNCHANGED <<file, log, overlapped>>
          /\ \E how \in Ended : End(s, how) /\ (stage[s] = "saving" => how = "killed_saving")
      BY <1>5 DEF Quit, LookUpRaises, Kill, Asking
    <2> QED
      BY <1>4, <2>1
  <1>6. ASSUME NEW s \in Sessions, Call(s) PROVE Remembering'
    <2>1. stage[s] = "asking" /\ UNCHANGED <<file, log, overlapped>>
      BY <1>6 DEF Call
    <2>2. CASE End(s, "died")
      BY <1>4, <2>1, <2>2
    <2>3. CASE stage' = [stage EXCEPT ![s] = "recording"] /\ mine' = mine
      BY <2>1, <2>3, OtherStepsRemember DEF Remembering
    <2> QED
      BY <1>6, <2>2, <2>3 DEF Call
  <1>7. CASE EditProject \/ Terminated \/ UNCHANGED vars
    <2>1. UNCHANGED <<stage, mine, dialog, file, log, overlapped>>
      BY <1>7 DEF EditProject, Terminated, vars
    <2>2. \A s \in Sessions : RemembersTheLog(s)' <=> RemembersTheLog(s)
      BY <2>1, Zenon DEF RemembersTheLog
    <2>3. FileIsTheLog' <=> FileIsTheLog
      BY <2>1, Zenon DEF FileIsTheLog
    <2> QED
      BY <2>1, <2>2, <2>3 DEF Remembering, LogEntries, OneSessionAtATime
  <1> QED
    BY <1>1, <1>2, <1>3, <1>5, <1>6, <1>7, StartRemembers, RecordRemembers, SaveRemembers
       DEF Next, Step

\* As long as no session is started beside another, the history file holds the last commands
\* begun, however many sessions there were and wherever they ended, and can be read unless
\* it is being written or a session was killed writing it.
THEOREM HistoryIsTheLog == Spec => []HistoryIsTheLastDialogs
  <1>1. Remembering => HistoryIsTheLastDialogs
    BY DEF Remembering, FileIsTheLog, HistoryIsTheLastDialogs
  <1> QED
    BY <1>1, RememberingInit, RememberingStep, PTL DEF Spec

(* ------------------------------ what is asked --------------------------- *)

Elements(q) == {q[i] : i \in DOMAIN q}

ValueKeys     == {Of(name) : name \in ValueNames}
PipelineNames == Sides \union {"pipeline_name"}
Decisive      == PipelineNames \union {"model_type"}

LookupNames == {"catalog", "structure", "provisioned", "comparable", "side_a", "side_b"}
SelectNames ==
  FixedNames \union {"source_framework", "destination_framework", "pipeline_name",
                     "side_a_framework", "side_b_framework"}

PartsOfPipelines ==
  {Params[p].source : p \in DOMAIN Params} \union {Params[p].others : p \in DOMAIN Params}
AllParams == UNION {Elements(part) : part \in PartsOfPipelines}
ParamKeys ==
  {<<x.node, x.name>> : x \in AllParams} \union {<<side, x.name>> : side \in Sides, x \in AllParams}

Question ==
  {Q("lookup", Of(name)) : name \in LookupNames} \union {Q("select", Of(name)) : name \in SelectNames}
    \union {Q("pick", Of(name)) : name \in Sides} \union {Q("value", Of(name)) : name \in ValueNames}
    \union {Q("mappings", Of("user_mappings_path"))} \union {Q("param", key) : key \in ParamKeys}

Asked(command, answers, n) == {Questions(command, answers)[i] : i \in 1..n}

\* What is recorded can be shown, and brings no other answer when it is accepted.
Shows(key, v)   == IF key \in ValueKeys THEN Normal(v) = v ELSE v # NoValue
ShowsAll(answers) == \A k \in DOMAIN answers : Shows(k, answers[k])

\* The pipelines that were answered are some of the project.
PipelinesKnown(answers) ==
  \A name \in PipelineNames : Of(name) \in DOMAIN answers => answers[Of(name)] \in DOMAIN Params

\* The answers of a dialog that has asked its first n questions.
AnsweredSoFar(command, answers, n) ==
  /\ n \in 0..Len(Questions(command, answers))
  /\ \A k \in DOMAIN answers : \E q \in Asked(command, answers, n) : q.kind # "lookup" /\ q.key = k
  /\ \A q \in Asked(command, answers, n) :
       q.kind \notin {"lookup", "param"} => q.key \in DOMAIN answers
  /\ PipelinesKnown(answers) /\ ShowsAll(answers)

Complete(command, answers) ==
  AnsweredSoFar(command, answers, Len(Questions(command, answers)))

\* An answer is the recorded one; a param that was left out is left out again, or given what
\* the pipeline itself says.
Agree(command, answers, replay, n) ==
  /\ \A k \in DOMAIN answers :
       IF k \in DOMAIN replay THEN answers[k] = replay[k]
       ELSE k[1] # "command" /\ answers[k] = Yaml(replay, k)
  /\ \A q \in Asked(command, answers, n) :
       q.kind = "param" /\ q.key \in DOMAIN replay => q.key \in DOMAIN answers

(* --------------------------- what is remembered ------------------------- *)

Called(command, answers) == [found |-> TRUE, request |-> Request(command, answers)]

\* A command that was recorded, and is asked for no more: where it called its use case, that
\* was with the answers it is recorded with.
Past(id, command, details) ==
  /\ command \in Commands /\ id \in DOMAIN requests
  /\ \A t \in Sessions : stage[t] = "asking" => dialog[t].id # id
  /\ details.found => ShowsAll(details.answers)
  /\ requests[id].found =>
       /\ details.found /\ Complete(command, details.answers)
       /\ requests[id] = Called(command, details.answers)

IsHistory(h) ==
  h \in Seq(Elements(h)) /\ \A i \in DOMAIN h : Past(h[i].id, h[i].command, h[i].details)

Replays(d) == d.of # 0 => Past(d.of, d.command, [found |-> TRUE, answers |-> d.replay])
IsReplay(d) == d.of # 0 /\ d.accepted /\ requests[d.of].found

AsksAsItDid(s) ==
  LET d == dialog[s]
  IN  CASE stage[s] = "asking" ->
             /\ d.command \in Commands /\ d.id \in DOMAIN requests /\ ~ requests[d.id].found
             /\ d.catalog \in Catalogs \union {{}}
             /\ AnsweredSoFar(d.command, d.answers, d.asked) /\ ShowsAll(d.replay)
             /\ Replays(d)
             /\ IsReplay(d) => Agree(d.command, d.answers, d.replay, d.asked)
        [] stage[s] = "recording" ->
             /\ Past(d.id, d.command, d.details)
             /\ Replays(d)
             /\ IsReplay(d) /\ requests[d.id].found => requests[d.id] = requests[d.of]
        [] OTHER -> TRUE

Faithful ==
  /\ DOMAIN stage = Sessions /\ DOMAIN mine = Sessions /\ DOMAIN dialog = Sessions
  /\ requests \in Seq(Elements(requests))
  /\ offered \in Catalogs
  /\ \A s \in Sessions : DOMAIN dialog[s] = DOMAIN Fresh /\ IsHistory(mine[s]) /\ AsksAsItDid(s)
  /\ IsHistory(file.entries)
  /\ \A s, t \in Sessions :
       stage[s] = "asking" /\ stage[t] = "asking" /\ dialog[s].id = dialog[t].id => s = t

LEMMA ElementsOfConcat ==
  ASSUME NEW S, NEW x \in Seq(S), NEW y \in Seq(S)
  PROVE  x \o y \in Seq(S) /\ Elements(x \o y) = Elements(x) \union Elements(y)
  <1>1. /\ x \o y \in Seq(S) /\ Len(x \o y) = Len(x) + Len(y)
        /\ \A i \in 1..Len(x) + Len(y) :
             (x \o y)[i] = IF i <= Len(x) THEN x[i] ELSE y[i - Len(x)]
    BY ConcatProperties
  <1>2. /\ DOMAIN x = 1..Len(x) /\ DOMAIN y = 1..Len(y) /\ DOMAIN (x \o y) = 1..Len(x) + Len(y)
        /\ Len(x) \in Nat /\ Len(y) \in Nat
    BY <1>1, LenProperties
  <1>3. \A i \in 1..Len(x) : (x \o y)[i] = x[i] /\ i \in 1..Len(x) + Len(y)
    BY <1>1, <1>2
  <1>4. \A i \in 1..Len(y) : (x \o y)[i + Len(x)] = y[i] /\ i + Len(x) \in 1..Len(x) + Len(y)
    <2> TAKE i \in 1..Len(y)
    <2>1. i + Len(x) \in 1..Len(x) + Len(y) /\ ~ i + Len(x) <= Len(x) /\ i + Len(x) - Len(x) = i
      BY <1>2
    <2> QED
      BY <1>1, <2>1
  <1>5. \A i \in 1..Len(x) + Len(y) :
          (x \o y)[i] \in Elements(x) \union Elements(y)
    <2> TAKE i \in 1..Len(x) + Len(y)
    <2>1. CASE i <= Len(x)
      BY <1>1, <1>2, <2>1 DEF Elements
    <2>2. CASE ~ i <= Len(x)
      <3>1. i - Len(x) \in 1..Len(y)
        BY <1>2, <2>2
      <3> QED
        BY <1>1, <1>2, <2>2, <3>1 DEF Elements
    <2> QED
      BY <2>1, <2>2
  <1> QED
    <2>1. Elements(x \o y) \subseteq Elements(x) \union Elements(y)
      BY <1>2, <1>5, Zenon DEF Elements
    <2>2. Elements(x) \subseteq Elements(x \o y)
      BY <1>2, <1>3 DEF Elements
    <2>3. Elements(y) \subseteq Elements(x \o y)
      BY <1>2, <1>4 DEF Elements
    <2> QED
      BY <1>1, <2>1, <2>2, <2>3, Zenon

\* x is how z begins.
Begins(x, z) == Len(x) <= Len(z) /\ \A i \in 1..Len(x) : z[i] = x[i]

LEMMA BeginsItself == ASSUME NEW S, NEW x \in Seq(S) PROVE Begins(x, x)
  BY LenProperties DEF Begins

LEMMA BeginsLonger ==
  ASSUME NEW S, NEW x \in Seq(S), NEW z \in Seq(S), NEW y \in Seq(S), Begins(x, z)
  PROVE  Begins(x, z \o y)
  <1>1. /\ Len(z \o y) = Len(z) + Len(y)
        /\ \A i \in 1..Len(z) + Len(y) :
             (z \o y)[i] = IF i <= Len(z) THEN z[i] ELSE y[i - Len(z)]
    BY ConcatProperties
  <1>2. Len(x) \in Nat /\ Len(z) \in Nat /\ Len(y) \in Nat
    BY LenProperties
  <1>3. \A i \in 1..Len(x) : i \in 1..Len(z) + Len(y) /\ i <= Len(z)
    BY <1>2 DEF Begins
  <1> QED
    BY <1>1, <1>2, <1>3 DEF Begins

\* What comes behind z is of y.
LEMMA WhereItIs ==
  ASSUME NEW S, NEW z \in Seq(S), NEW y \in Seq(S), NEW i \in 1..Len(z \o y)
  PROVE  \/ i \in 1..Len(z) /\ (z \o y)[i] = z[i]
         \/ (z \o y)[i] \in Elements(y)
  <1>1. /\ Len(z \o y) = Len(z) + Len(y)
        /\ \A j \in 1..Len(z) + Len(y) :
             (z \o y)[j] = IF j <= Len(z) THEN z[j] ELSE y[j - Len(z)]
    BY ConcatProperties
  <1>2. Len(z) \in Nat /\ Len(y) \in Nat /\ DOMAIN y = 1..Len(y)
    BY LenProperties
  <1>3. CASE i <= Len(z)
    BY <1>1, <1>2, <1>3
  <1>4. CASE ~ i <= Len(z)
    <2>1. i - Len(z) \in 1..Len(y)
      BY <1>1, <1>2, <1>4
    <2> QED
      BY <1>1, <1>2, <1>4, <2>1 DEF Elements
  <1> QED
    BY <1>3, <1>4

(* ----------------------------- the questions ---------------------------- *)

LEMMA LookupIsASeq ==
  ASSUME NEW name \in LookupNames
  PROVE  /\ Lookup(name) \in Seq(Question) /\ Len(Lookup(name)) = 1
         /\ Elements(Lookup(name)) = {Q("lookup", Of(name))}
  <1>1. Q("lookup", Of(name)) \in Question
    BY DEF Question
  <1> QED
    BY <1>1 DEF Lookup, Elements

LEMMA AskIsASeq ==
  ASSUME NEW kind, NEW S, NEW names \in Seq(S), \A name \in S : Q(kind, Of(name)) \in Question
  PROVE  /\ Ask(kind, names) \in Seq(Question) /\ Len(Ask(kind, names)) = Len(names)
         /\ Elements(Ask(kind, names)) = {Q(kind, Of(name)) : name \in Elements(names)}
  <1>1. DOMAIN names = 1..Len(names) /\ Len(names) \in Nat /\ \A i \in 1..Len(names) : names[i] \in S
    BY LenProperties, ElementOfSeq
  <1>2. Ask(kind, names) = [i \in 1..Len(names) |-> Q(kind, Of(names[i]))]
    BY <1>1 DEF Ask
  <1>3. Ask(kind, names) \in Seq(Question) /\ Len(Ask(kind, names)) = Len(names)
    BY <1>1, <1>2, IsASeq
  <1> QED
    BY <1>1, <1>2, <1>3 DEF Elements

LEMMA PromptsAreASeq ==
  ASSUME NEW p \in DOMAIN Params, NEW part \in {Params[p].source, Params[p].others}
  PROVE  /\ Prompts(part) \in Seq(Question)
         /\ \A q \in Elements(Prompts(part)) : q.kind = "param" /\ q.key[1] \notin Sides \union {"command"}
  <1>1. /\ part \in Seq({part[i] : i \in DOMAIN part})
        /\ \A i \in DOMAIN part : part[i].node \notin Sides \union {"command"}
    BY ProjectAssumption
  <1>2. DOMAIN part = 1..Len(part) /\ Len(part) \in Nat
    BY <1>1, LenProperties
  <1>3. \A i \in DOMAIN part : Q("param", <<part[i].node, part[i].name>>) \in Question
    <2> TAKE i \in DOMAIN part
    <2>1. part[i] \in AllParams
      BY DEF AllParams, PartsOfPipelines, Elements
    <2>2. <<part[i].node, part[i].name>> \in ParamKeys
      <3>1. \A x \in AllParams : <<x.node, x.name>> \in ParamKeys
        BY DEF ParamKeys
      <3> QED
        BY <2>1, <3>1
    <2> QED
      BY <2>2, Zenon DEF Question
  <1>4. Prompts(part) = [i \in 1..Len(part) |-> Q("param", <<part[i].node, part[i].name>>)]
    BY <1>2 DEF Prompts
  <1>5. Prompts(part) \in Seq(Question)
    BY <1>2, <1>3, <1>4, IsASeq
  <1>6. \A q \in Elements(Prompts(part)) : \E i \in DOMAIN part : q = Q("param", <<part[i].node, part[i].name>>)
    BY <1>2, <1>4 DEF Elements
  <1> QED
    BY <1>1, <1>5, <1>6 DEF Q

\* The answer that tells the pipeline of a param.
PipelineOf(key) == IF key[1] \in Sides THEN key[1] ELSE "pipeline_name"

\* A question that the answer to a decisive one brings: its own brings no further ones, nor
\* tells what may be chosen.
IsIncidental(decisive, q) ==
  \/ q.kind = "param" /\ q.key[1] # "command" /\ PipelineOf(q.key) = decisive
  \/ q.kind = "lookup" /\ q.key = Of("provisioned")
  \/ /\ q.kind \in {"select", "value", "mappings"}
     /\ \E name \in (ValueNames \union FixedNames \union {"user_mappings_path"}) \ {"model_type"} :
          q.key = Of(name)

Incidental(decisive, x) == x \in Seq(Question) /\ \A q \in Elements(x) : IsIncidental(decisive, q)

LEMMA IncidentalTogether ==
  ASSUME NEW decisive, NEW x, NEW y, Incidental(decisive, x), Incidental(decisive, y)
  PROVE  Incidental(decisive, x \o y)
  BY ElementsOfConcat DEF Incidental

LEMMA AskingIsIncidental ==
  ASSUME NEW decisive, NEW kind \in {"select", "value", "mappings"}, NEW S, NEW names \in Seq(S),
         CASE kind = "select" -> S \subseteq FixedNames \ {"model_type"}
           [] kind = "value"  -> S \subseteq ValueNames
           [] OTHER           -> S \subseteq {"user_mappings_path"}
  PROVE  Incidental(decisive, Ask(kind, names))
  <1>1. \A name \in S :
          /\ Q(kind, Of(name)) \in Question
          /\ name \in (ValueNames \union FixedNames \union {"user_mappings_path"}) \ {"model_type"}
    BY DEF Question, SelectNames, ValueNames
  <1>2. /\ Ask(kind, names) \in Seq(Question)
        /\ Elements(Ask(kind, names)) = {Q(kind, Of(name)) : name \in Elements(names)}
    BY <1>1, AskIsASeq
  <1>3. Elements(names) \subseteq S
    BY LenProperties, ElementOfSeq DEF Elements
  <1>4. \A name \in S : IsIncidental(decisive, Q(kind, Of(name)))
    BY <1>1 DEF IsIncidental, Q
  <1> QED
    BY <1>2, <1>3, <1>4 DEF Incidental

LEMMA NothingIsIncidental == \A decisive : Incidental(decisive, << >>)
  BY DEF Incidental, Elements

LEMMA BroughtIsIncidental ==
  ASSUME NEW command, NEW name \in Decisive, NEW v, name \in PipelineNames => v \in DOMAIN Params
  PROVE  Incidental(name, Brought(command, name, v))
  <1>1. CASE name = "pipeline_name"
    <2>1. Incidental(name, Prompts(Params[v].source)) /\ Incidental(name, Prompts(Params[v].others))
      BY <1>1, PromptsAreASeq DEF PipelineNames, Incidental, IsIncidental, PipelineOf
    <2>2. Incidental(name, Ask("mappings", <<"user_mappings_path">>))
      BY AskingIsIncidental, <<"user_mappings_path">> \in Seq({"user_mappings_path"})
    <2>3. Brought(command, name, v) =
            Prompts(Params[v].source)
              \o (IF command = "translate" THEN Prompts(Params[v].others) ELSE << >>)
              \o (IF v \in NeedsMappings[command]
                  THEN Ask("mappings", <<"user_mappings_path">>) ELSE << >>)
      BY <1>1 DEF Brought, Sides
    <2>4. /\ Incidental(name, IF command = "translate" THEN Prompts(Params[v].others) ELSE << >>)
          /\ Incidental(name, IF v \in NeedsMappings[command]
                        THEN Ask("mappings", <<"user_mappings_path">>) ELSE << >>)
      BY <2>1, <2>2, NothingIsIncidental, Zenon
    <2> QED
      BY <2>1, <2>3, <2>4, IncidentalTogether, Zenon
  <1>2. CASE name = "model_type"
    <2> DEFINE paths   == <<"network_path", "output_dir", "start_date", "end_date">>
               modes   == <<"unit_commitment", "solve_window">>
               solvers == <<"network_model", "unit_commitment", "solver", "presolve", "run_crossover">>
               limits  == <<"time_limit_seconds", "output_dir">>
    <2>1. /\ paths \in Seq(ValueNames) /\ limits \in Seq(ValueNames)
          /\ <<"look_ahead_days">> \in Seq(ValueNames) /\ <<"sienna_json_path">> \in Seq(ValueNames)
      BY DEF ValueNames
    <2>2. modes \in Seq(FixedNames \ {"model_type"}) /\ solvers \in Seq(FixedNames \ {"model_type"})
      BY DEF FixedNames
    <2>3. Brought(command, name, v) =
            IF v = "pypsa"
            THEN Ask("value", paths) \o Ask("select", modes) \o Ask("value", <<"look_ahead_days">>)
            ELSE Lookup("provisioned") \o Ask("value", <<"sienna_json_path">>)
                   \o Ask("select", solvers) \o Ask("value", limits)
      BY <1>2 DEF Brought, Sides
    <2>4. Incidental(name, Lookup("provisioned"))
      BY LookupIsASeq DEF LookupNames, Incidental, IsIncidental, Q
    <2> HIDE DEF paths, modes, solvers, limits
    <2>5. /\ Incidental(name, Ask("value", paths)) /\ Incidental(name, Ask("value", limits))
          /\ Incidental(name, Ask("value", <<"look_ahead_days">>))
          /\ Incidental(name, Ask("value", <<"sienna_json_path">>))
      BY <2>1, AskingIsIncidental
    <2>6. Incidental(name, Ask("select", modes)) /\ Incidental(name, Ask("select", solvers))
      BY <2>2, AskingIsIncidental
    <2>7. /\ Incidental(name, Ask("value", paths) \o Ask("select", modes) \o Ask("value", <<"look_ahead_days">>))
          /\ Incidental(name, Lookup("provisioned") \o Ask("value", <<"sienna_json_path">>)
                          \o Ask("select", solvers) \o Ask("value", limits))
      BY <2>4, <2>5, <2>6, IncidentalTogether, Zenon
    <2> QED
      BY <2>3, <2>7, Zenon
  <1>3. CASE name \in Sides
    <2> DEFINE part == Params[v].source
    <2>1. /\ part \in Seq({part[i] : i \in DOMAIN part}) /\ v \in DOMAIN Params
      BY <1>3, ProjectAssumption DEF PipelineNames
    <2>2. Brought(command, name, v) = [i \in DOMAIN part |-> Q("param", <<name, part[i].name>>)]
      BY <1>3 DEF Brought, Sides
    <2>3. DOMAIN part = 1..Len(part) /\ Len(part) \in Nat
      BY <2>1, LenProperties
    <2>4. \A i \in DOMAIN part :
            Q("param", <<name, part[i].name>>) \in Question /\ IsIncidental(name, Q("param", <<name, part[i].name>>))
      <3> TAKE i \in DOMAIN part
      <3>1. part[i] \in AllParams
        BY <2>1 DEF AllParams, PartsOfPipelines, Elements
      <3>2. \A side \in Sides, x \in AllParams : <<side, x.name>> \in ParamKeys
        BY DEF ParamKeys
      <3>3. <<name, part[i].name>> \in ParamKeys /\ name # "command"
        BY <1>3, <3>1, <3>2 DEF Sides
      <3> QED
        BY <1>3, <3>3 DEF Question, IsIncidental, Q, PipelineOf
    <2>5. Brought(command, name, v) \in Seq(Question)
      BY <2>2, <2>3, <2>4, IsASeq
    <2> QED
      BY <2>2, <2>4, <2>5 DEF Incidental, Elements
  <1> QED
    BY <1>1, <1>2, <1>3 DEF Decisive, PipelineNames

LEMMA FollowingIsIncidental ==
  ASSUME NEW command, NEW answers, NEW name \in Decisive, PipelinesKnown(answers)
  PROVE  Incidental(name, Following(command, answers, name))
  BY BroughtIsIncidental, NothingIsIncidental, Zenon DEF Following, PipelinesKnown

\* The questions of a command that its answers do not change.
PipelineOpening ==
  <<Q("lookup", Of("catalog")), Q("select", Of("source_framework")),
    Q("select", Of("destination_framework")), Q("select", Of("pipeline_name")),
    Q("lookup", Of("structure"))>>
CompareOpening ==
  <<Q("lookup", Of("comparable")), Q("select", Of("side_a_framework")),
    Q("select", Of("side_b_framework")), Q("pick", Of("side_a_pipeline")),
    Q("lookup", Of("side_a"))>>
SecondSide == <<Q("pick", Of("side_b_pipeline")), Q("lookup", Of("side_b"))>>
Output     == <<Q("value", Of("output_path"))>>

LEMMA OpeningsAreSeqs ==
  /\ PipelineOpening \in Seq(Question) /\ CompareOpening \in Seq(Question)
  /\ SecondSide \in Seq(Question) /\ Output \in Seq(Question)
  /\ <<Q("select", Of("model_type"))>> \in Seq(Question)
  /\ <<Q("value", Of("target")), Q("select", Of("example"))>> \in Seq(Question)
  <1>1. \A name \in LookupNames : Q("lookup", Of(name)) \in Question
    BY DEF Question
  <1>2. \A name \in SelectNames : Q("select", Of(name)) \in Question
    BY DEF Question
  <1>3. \A name \in Sides : Q("pick", Of(name)) \in Question
    BY DEF Question
  <1>4. \A name \in ValueNames : Q("value", Of(name)) \in Question
    BY DEF Question
  <1>5. /\ Q("lookup", Of("catalog")) \in Question /\ Q("lookup", Of("structure")) \in Question
        /\ Q("lookup", Of("comparable")) \in Question /\ Q("lookup", Of("side_a")) \in Question
        /\ Q("lookup", Of("side_b")) \in Question
    BY <1>1 DEF LookupNames
  <1>6. /\ Q("select", Of("source_framework")) \in Question
        /\ Q("select", Of("destination_framework")) \in Question
        /\ Q("select", Of("pipeline_name")) \in Question /\ Q("select", Of("side_a_framework")) \in Question
        /\ Q("select", Of("side_b_framework")) \in Question /\ Q("select", Of("model_type")) \in Question
        /\ Q("select", Of("example")) \in Question
    BY <1>2 DEF SelectNames, FixedNames
  <1>7. Q("pick", Of("side_a_pipeline")) \in Question /\ Q("pick", Of("side_b_pipeline")) \in Question
    BY <1>3 DEF Sides
  <1>8. Q("value", Of("output_path")) \in Question /\ Q("value", Of("target")) \in Question
    BY <1>4 DEF ValueNames
  <1> QED
    BY <1>5, <1>6, <1>7, <1>8 DEF PipelineOpening, CompareOpening, SecondSide, Output

LEMMA OneAndOne ==
  ASSUME NEW a, NEW b
  PROVE  <<a>> \o <<b>> = <<a, b>>
  <1> DEFINE S == {a, b}
             x == <<a>>
             y == <<b>>
             z == x \o y
  <1>1. x \in Seq(S) /\ Len(x) = 1 /\ y \in Seq(S) /\ Len(y) = 1
    OBVIOUS
  <1>2. /\ z \in Seq(S) /\ Len(z) = 2
        /\ \A i \in 1..2 : z[i] = IF i <= 1 THEN x[i] ELSE y[i - 1]
    BY <1>1, ConcatProperties
  <1>3. /\ z[1] = a
        /\ z[2] = b
    BY <1>2
  <1>4. <<a, b>> \in Seq(S) /\ Len(<<a, b>>) = 2
    OBVIOUS
  <1>5. \A i \in 1..2 : z[i] = <<a, b>>[i]
    BY <1>3
  <1> QED
    BY <1>2, <1>4, <1>5, SeqEqual

LEMMA OneAndTwo ==
  ASSUME NEW a, NEW b, NEW c
  PROVE  <<a>> \o <<b, c>> = <<a, b, c>>
  <1> DEFINE S == {a, b, c}
             x == <<a>>
             y == <<b, c>>
             z == x \o y
  <1>1. x \in Seq(S) /\ Len(x) = 1 /\ y \in Seq(S) /\ Len(y) = 2
    OBVIOUS
  <1>2. /\ z \in Seq(S) /\ Len(z) = 3
        /\ \A i \in 1..3 : z[i] = IF i <= 1 THEN x[i] ELSE y[i - 1]
    BY <1>1, ConcatProperties
  <1>3. /\ z[1] = a
        /\ z[2] = b
        /\ z[3] = c
    BY <1>2
  <1>4. <<a, b, c>> \in Seq(S) /\ Len(<<a, b, c>>) = 3
    OBVIOUS
  <1>5. \A i \in 1..3 : z[i] = <<a, b, c>>[i]
    BY <1>3
  <1> QED
    BY <1>2, <1>4, <1>5, SeqEqual

LEMMA OneAndThree ==
  ASSUME NEW a, NEW b, NEW c, NEW d
  PROVE  <<a>> \o <<b, c, d>> = <<a, b, c, d>>
  <1> DEFINE S == {a, b, c, d}
             x == <<a>>
             y == <<b, c, d>>
             z == x \o y
  <1>1. x \in Seq(S) /\ Len(x) = 1 /\ y \in Seq(S) /\ Len(y) = 3
    OBVIOUS
  <1>2. /\ z \in Seq(S) /\ Len(z) = 4
        /\ \A i \in 1..4 : z[i] = IF i <= 1 THEN x[i] ELSE y[i - 1]
    BY <1>1, ConcatProperties
  <1>3. /\ z[1] = a
        /\ z[2] = b
        /\ z[3] = c
        /\ z[4] = d
    BY <1>2
  <1>4. <<a, b, c, d>> \in Seq(S) /\ Len(<<a, b, c, d>>) = 4
    OBVIOUS
  <1>5. \A i \in 1..4 : z[i] = <<a, b, c, d>>[i]
    BY <1>3
  <1> QED
    BY <1>2, <1>4, <1>5, SeqEqual

LEMMA ThreeAndTwo ==
  ASSUME NEW a, NEW b, NEW c, NEW d, NEW e
  PROVE  <<a, b, c>> \o <<d, e>> = <<a, b, c, d, e>>
  <1> DEFINE S == {a, b, c, d, e}
             x == <<a, b, c>>
             y == <<d, e>>
             z == x \o y
  <1>1. x \in Seq(S) /\ Len(x) = 3 /\ y \in Seq(S) /\ Len(y) = 2
    OBVIOUS
  <1>2. /\ z \in Seq(S) /\ Len(z) = 5
        /\ \A i \in 1..5 : z[i] = IF i <= 3 THEN x[i] ELSE y[i - 3]
    BY <1>1, ConcatProperties
  <1>3. /\ z[1] = a
        /\ z[2] = b
        /\ z[3] = c
        /\ z[4] = d
        /\ z[5] = e
    BY <1>2
  <1>4. <<a, b, c, d, e>> \in Seq(S) /\ Len(<<a, b, c, d, e>>) = 5
    OBVIOUS
  <1>5. \A i \in 1..5 : z[i] = <<a, b, c, d, e>>[i]
    BY <1>3
  <1> QED
    BY <1>2, <1>4, <1>5, SeqEqual

LEMMA FourAndOne ==
  ASSUME NEW a, NEW b, NEW c, NEW d, NEW e
  PROVE  <<a, b, c, d>> \o <<e>> = <<a, b, c, d, e>>
  <1> DEFINE S == {a, b, c, d, e}
             x == <<a, b, c, d>>
             y == <<e>>
             z == x \o y
  <1>1. x \in Seq(S) /\ Len(x) = 4 /\ y \in Seq(S) /\ Len(y) = 1
    OBVIOUS
  <1>2. /\ z \in Seq(S) /\ Len(z) = 5
        /\ \A i \in 1..5 : z[i] = IF i <= 4 THEN x[i] ELSE y[i - 4]
    BY <1>1, ConcatProperties
  <1>3. /\ z[1] = a
        /\ z[2] = b
        /\ z[3] = c
        /\ z[4] = d
        /\ z[5] = e
    BY <1>2
  <1>4. <<a, b, c, d, e>> \in Seq(S) /\ Len(<<a, b, c, d, e>>) = 5
    OBVIOUS
  <1>5. \A i \in 1..5 : z[i] = <<a, b, c, d, e>>[i]
    BY <1>3
  <1> QED
    BY <1>2, <1>4, <1>5, SeqEqual

LEMMA PartsOfAPipelinesQuestions ==
  ASSUME NEW command \in {"validate", "translate"}, NEW answers
  PROVE  Questions(command, answers) = PipelineOpening \o Following(command, answers, "pipeline_name")
  <1> DEFINE a == Q("lookup", Of("catalog"))
             b == Q("select", Of("source_framework"))
             c == Q("select", Of("destination_framework"))
             d == Q("select", Of("pipeline_name"))
             e == Q("lookup", Of("structure"))
  <1>1. Ask("select", <<"source_framework", "destination_framework", "pipeline_name">>) = <<b, c, d>>
    BY DEF Ask
  <1>2. Lookup("catalog") = <<a>> /\ Lookup("structure") = <<e>> /\ PipelineOpening = <<a, b, c, d, e>>
    BY DEF Lookup, PipelineOpening
  <1> HIDE DEF a, b, c, d, e
  <1>3. <<a>> \o <<b, c, d>> = <<a, b, c, d>>
    BY OneAndThree, Zenon
  <1>4. <<a, b, c, d>> \o <<e>> = <<a, b, c, d, e>>
    BY FourAndOne, Zenon
  <1> QED
    BY <1>1, <1>2, <1>3, <1>4 DEF Questions, PipelineQuestions

LEMMA PartsOfSolvesQuestions ==
  ASSUME NEW answers
  PROVE  Questions("solve", answers) =
           <<Q("select", Of("model_type"))>> \o Following("solve", answers, "model_type")
  <1>1. Ask("select", <<"model_type">>) = <<Q("select", Of("model_type"))>>
    BY DEF Ask
  <1> QED
    BY <1>1 DEF Questions, SolveQuestions

LEMMA PartsOfInitsQuestions ==
  ASSUME NEW answers
  PROVE  Questions("init", answers) = <<Q("value", Of("target")), Q("select", Of("example"))>>
  <1> DEFINE a == Q("value", Of("target"))
             b == Q("select", Of("example"))
  <1>1. Ask("value", <<"target">>) = <<a>> /\ Ask("select", <<"example">>) = <<b>>
    BY DEF Ask
  <1>2. Questions("init", answers) = Ask("value", <<"target">>) \o Ask("select", <<"example">>)
    BY DEF Questions
  <1> HIDE DEF a, b
  <1>3. <<a>> \o <<b>> = <<a, b>>
    BY OneAndOne, Zenon
  <1> QED
    BY <1>1, <1>2, <1>3 DEF a, b

LEMMA PartsOfComparesQuestions ==
  ASSUME NEW answers
  PROVE  Questions("compare", answers) =
           CompareOpening \o Following("compare", answers, "side_a_pipeline") \o SecondSide
             \o Following("compare", answers, "side_b_pipeline") \o Output
  <1> DEFINE a == Q("lookup", Of("comparable"))
             b == Q("select", Of("side_a_framework"))
             c == Q("select", Of("side_b_framework"))
             d == Q("pick", Of("side_a_pipeline"))
             e == Q("lookup", Of("side_a"))
             f == Q("pick", Of("side_b_pipeline"))
             g == Q("lookup", Of("side_b"))
  <1>1. /\ Ask("select", <<"side_a_framework", "side_b_framework">>) = <<b, c>>
        /\ Ask("pick", <<"side_a_pipeline">>) = <<d>> /\ Ask("pick", <<"side_b_pipeline">>) = <<f>>
        /\ Ask("value", <<"output_path">>) = Output
    BY DEF Ask, Output
  <1>2. /\ Lookup("comparable") = <<a>> /\ Lookup("side_a") = <<e>> /\ Lookup("side_b") = <<g>>
        /\ CompareOpening = <<a, b, c, d, e>> /\ SecondSide = <<f, g>>
    BY DEF Lookup, CompareOpening, SecondSide
  <1> HIDE DEF a, b, c, d, e, f, g
  <1>3. <<a>> \o <<b, c>> = <<a, b, c>> /\ <<d>> \o <<e>> = <<d, e>> /\ <<f>> \o <<g>> = <<f, g>>
    BY OneAndTwo, OneAndOne
  <1>4. <<a, b, c>> \o <<d, e>> = <<a, b, c, d, e>>
    BY ThreeAndTwo, Zenon
  <1>5. Side("side_a_pipeline", "side_a") = <<d, e>> /\ Side("side_b_pipeline", "side_b") = SecondSide
    BY <1>1, <1>2, <1>3 DEF Side
  <1>6. Questions("compare", answers) = CompareQuestions(answers)
    BY DEF Questions
  <1> QED
    BY <1>1, <1>2, <1>3, <1>4, <1>5, <1>6, Zenon DEF CompareQuestions

LEMMA PartsAreSeqs ==
  ASSUME NEW answers, PipelinesKnown(answers)
  PROVE  /\ \A command : \A name \in Decisive :
              Following(command, answers, name) \in Seq(Question)
         /\ CompareOpening \o Following("compare", answers, "side_a_pipeline") \in Seq(Question)
         /\ CompareOpening \o Following("compare", answers, "side_a_pipeline") \o SecondSide
              \in Seq(Question)
         /\ CompareOpening \o Following("compare", answers, "side_a_pipeline") \o SecondSide
              \o Following("compare", answers, "side_b_pipeline") \in Seq(Question)
  <1>1. \A command : \A name \in Decisive : Following(command, answers, name) \in Seq(Question)
    BY FollowingIsIncidental DEF Incidental
  <1>2. /\ Following("compare", answers, "side_a_pipeline") \in Seq(Question)
        /\ Following("compare", answers, "side_b_pipeline") \in Seq(Question)
    BY <1>1 DEF Decisive, PipelineNames, Sides
  <1>3. CompareOpening \o Following("compare", answers, "side_a_pipeline") \in Seq(Question)
    BY <1>2, OpeningsAreSeqs, ConcatProperties
  <1>4. CompareOpening \o Following("compare", answers, "side_a_pipeline") \o SecondSide
          \in Seq(Question)
    BY <1>3, OpeningsAreSeqs, ConcatProperties
  <1>5. CompareOpening \o Following("compare", answers, "side_a_pipeline") \o SecondSide
          \o Following("compare", answers, "side_b_pipeline") \in Seq(Question)
    BY <1>2, <1>4, ConcatProperties
  <1> QED
    BY <1>1, <1>3, <1>4, <1>5

LEMMA QuestionsAreASeq ==
  ASSUME NEW command \in Commands, NEW answers, PipelinesKnown(answers)
  PROVE  Questions(command, answers) \in Seq(Question)
  <1>1. CASE command \in {"validate", "translate"}
    <2>1. Following(command, answers, "pipeline_name") \in Seq(Question)
      BY PartsAreSeqs DEF Decisive, PipelineNames
    <2> QED
      BY <1>1, <2>1, PartsOfAPipelinesQuestions, OpeningsAreSeqs, ConcatProperties
  <1>2. CASE command = "solve"
    <2>1. Following("solve", answers, "model_type") \in Seq(Question)
      BY PartsAreSeqs DEF Decisive
    <2> QED
      BY <1>2, <2>1, PartsOfSolvesQuestions, OpeningsAreSeqs, ConcatProperties
  <1>3. CASE command = "compare"
    <2> DEFINE z == CompareOpening \o Following("compare", answers, "side_a_pipeline") \o SecondSide
                      \o Following("compare", answers, "side_b_pipeline")
    <2>1. z \in Seq(Question) /\ Output \in Seq(Question)
      BY PartsAreSeqs, OpeningsAreSeqs
    <2>2. Questions(command, answers) = z \o Output
      BY <1>3, PartsOfComparesQuestions
    <2> HIDE DEF z
    <2> QED
      BY <2>1, <2>2, ConcatProperties
  <1>4. CASE command = "init"
    BY <1>4, PartsOfInitsQuestions, OpeningsAreSeqs
  <1> QED
    BY <1>1, <1>2, <1>3, <1>4 DEF Commands

LEMMA IncidentalIsNotDecisive ==
  ASSUME NEW name, NEW q, IsIncidental(name, q), q.kind # "lookup", NEW d \in Decisive
  PROVE  q.key # Of(d)
  <1>1. CASE q.kind = "param" /\ q.key[1] # "command"
    BY <1>1 DEF Of
  <1>2. CASE \E n \in (ValueNames \union FixedNames \union {"user_mappings_path"}) \ {"model_type"} :
               q.key = Of(n)
    BY <1>2 DEF Of, ValueNames, FixedNames, Decisive, PipelineNames, Sides
  <1> QED
    BY <1>1, <1>2 DEF IsIncidental

LEMMA FollowingStays ==
  ASSUME NEW command, NEW answers, NEW name, NEW key, key # Of(name), NEW w
  PROVE  Following(command, With(answers, key, w), name) = Following(command, answers, name)
  <1> DEFINE with == With(answers, key, w)
  <1>1. /\ Of(name) \in DOMAIN with <=> Of(name) \in DOMAIN answers
        /\ Of(name) \in DOMAIN answers => with[Of(name)] = answers[Of(name)]
    BY DEF With
  <1> HIDE DEF with
  <1> QED
    BY <1>1, Zenon DEF Following, with

SameUpTo(m, z, other) == m <= Len(other) /\ \A i \in 1..m : other[i] = z[i]

LEMMA BeginningsAreTheSame ==
  ASSUME NEW S, NEW x \in Seq(S), NEW z \in Seq(S), NEW other \in Seq(S),
         Begins(x, z), Begins(x, other), NEW m \in 1..Len(x)
  PROVE  SameUpTo(m, z, other)
  <1>1. Len(x) \in Nat /\ Len(other) \in Nat
    BY LenProperties
  <1> QED
    BY <1>1 DEF Begins, SameUpTo

\* An answer leaves the questions up to the one it answers as they were.
LEMMA QuestionsStay ==
  ASSUME NEW command \in Commands, NEW answers, NEW m \in 1..Len(Questions(command, answers)),
         Questions(command, answers)[m].kind # "lookup", NEW w, PipelinesKnown(answers),
         PipelinesKnown(With(answers, Questions(command, answers)[m].key, w))
  PROVE  SameUpTo(m, Questions(command, answers),
                  Questions(command, With(answers, Questions(command, answers)[m].key, w)))
  <1> DEFINE q == Questions(command, answers)[m]
             with == With(answers, q.key, w)
             old == Questions(command, answers)
             new == Questions(command, with)
  <1>0. old \in Seq(Question) /\ new \in Seq(Question) /\ PipelinesKnown(with)
    BY QuestionsAreASeq
  <1>s. ASSUME new = old PROVE SameUpTo(m, old, new)
    <2>1. Len(old) \in Nat
      BY <1>0, LenProperties
    <2> QED
      BY <1>s, <2>1 DEF SameUpTo
  <1>f. ASSUME NEW name, q.key # Of(name), NEW c
        PROVE  Following(c, with, name) = Following(c, answers, name)
    BY <1>f, FollowingStays DEF with
  <1>i. ASSUME NEW c, NEW name \in Decisive, NEW d \in Decisive,
               q \in Elements(Following(c, answers, name))
        PROVE  q.key # Of(d)
    BY <1>i, FollowingIsIncidental, IncidentalIsNotDecisive DEF Incidental
  <1> SUFFICES SameUpTo(m, old, new)
    OBVIOUS
  <1> HIDE DEF with
  <1>1. CASE command \in {"validate", "translate"}
    <2> DEFINE x == PipelineOpening
               y == Following(command, answers, "pipeline_name")
               z == Following(command, with, "pipeline_name")
    <2>1. old = x \o y /\ new = x \o z
      BY <1>1, PartsOfAPipelinesQuestions
    <2>2. x \in Seq(Question) /\ y \in Seq(Question) /\ z \in Seq(Question)
      BY <1>0, OpeningsAreSeqs, PartsAreSeqs DEF Decisive, PipelineNames
    <2>3. CASE q.key # Of("pipeline_name")
      BY <1>f, <1>s, <2>1, <2>3
    <2>4. CASE q.key = Of("pipeline_name")
      <3>1. q \notin Elements(y)
        BY <1>i, <2>4 DEF Decisive, PipelineNames
      <3>2. m \in 1..Len(x)
        BY <2>1, <2>2, <3>1, WhereItIs
      <3>3. Begins(x, old) /\ Begins(x, new)
        BY <2>1, <2>2, BeginsItself, BeginsLonger
      <3> QED
        BY <1>0, <2>2, <3>2, <3>3, BeginningsAreTheSame
    <2> QED
      BY <2>3, <2>4
  <1>2. CASE command = "solve"
    <2> DEFINE x == <<Q("select", Of("model_type"))>>
               y == Following("solve", answers, "model_type")
               z == Following("solve", with, "model_type")
    <2>1. old = x \o y /\ new = x \o z
      BY <1>2, PartsOfSolvesQuestions
    <2>2. x \in Seq(Question) /\ y \in Seq(Question) /\ z \in Seq(Question)
      BY <1>0, OpeningsAreSeqs, PartsAreSeqs DEF Decisive
    <2>3. CASE q.key # Of("model_type")
      BY <1>f, <1>s, <2>1, <2>3
    <2>4. CASE q.key = Of("model_type")
      <3>1. q \notin Elements(y)
        BY <1>i, <2>4 DEF Decisive
      <3>2. m \in 1..Len(x)
        BY <2>1, <2>2, <3>1, WhereItIs
      <3>3. Begins(x, old) /\ Begins(x, new)
        BY <2>1, <2>2, BeginsItself, BeginsLonger
      <3> QED
        BY <1>0, <2>2, <3>2, <3>3, BeginningsAreTheSame
    <2> QED
      BY <2>3, <2>4
  <1>3. CASE command = "compare"
    <2> DEFINE x  == CompareOpening
               a  == Following("compare", answers, "side_a_pipeline")
               b  == Following("compare", answers, "side_b_pipeline")
               a2 == Following("compare", with, "side_a_pipeline")
               b2 == Following("compare", with, "side_b_pipeline")
    <2>1. old = x \o a \o SecondSide \o b \o Output /\ new = x \o a2 \o SecondSide \o b2 \o Output
      BY <1>3, PartsOfComparesQuestions
    <2>2. /\ x \in Seq(Question) /\ a \in Seq(Question) /\ b \in Seq(Question)
          /\ a2 \in Seq(Question) /\ b2 \in Seq(Question)
          /\ SecondSide \in Seq(Question) /\ Output \in Seq(Question)
          /\ x \o a \in Seq(Question) /\ x \o a2 \in Seq(Question)
          /\ x \o a \o SecondSide \in Seq(Question) /\ x \o a2 \o SecondSide \in Seq(Question)
          /\ x \o a \o SecondSide \o b \in Seq(Question) /\ x \o a2 \o SecondSide \o b2 \in Seq(Question)
      BY <1>0, OpeningsAreSeqs, PartsAreSeqs DEF Decisive, PipelineNames, Sides
    <2>3. ASSUME q.key \in {Of("side_a_pipeline"), Of("side_b_pipeline")}
          PROVE  q \notin Elements(Output) /\ q \notin Elements(a) /\ q \notin Elements(b)
      <3>1. q \notin Elements(a) /\ q \notin Elements(b)
        BY <1>i, <2>3 DEF Decisive, PipelineNames, Sides
      <3>2. \A e \in Elements(Output) : e.key = Of("output_path")
        BY DEF Output, Elements, Q
      <3> QED
        BY <2>3, <3>1, <3>2 DEF Of
    <2>4. CASE q.key \notin {Of("side_a_pipeline"), Of("side_b_pipeline")}
      <3>1. a2 = a /\ b2 = b
        BY <1>f, <2>4
      <3> QED
        BY <1>s, <2>1, <3>1
    <2>5. CASE q.key = Of("side_a_pipeline")
      <3>1. \A e \in Elements(SecondSide) : e.kind = "lookup" \/ e.key = Of("side_b_pipeline")
        BY DEF SecondSide, Elements, Q
      <3>2. q \notin Elements(SecondSide)
        BY <2>5, <3>1 DEF Of
      <3>3. m \in 1..Len(x \o a \o SecondSide \o b) /\ (x \o a \o SecondSide \o b)[m] = q
        BY <2>1, <2>2, <2>3, <2>5, WhereItIs
      <3>4. m \in 1..Len(x \o a \o SecondSide) /\ (x \o a \o SecondSide)[m] = q
        BY <2>2, <2>3, <2>5, <3>3, WhereItIs
      <3>5. m \in 1..Len(x \o a) /\ (x \o a)[m] = q
        <4> DEFINE y == x \o a
        <4>1. y \in Seq(Question) /\ SecondSide \in Seq(Question) /\ m \in 1..Len(y \o SecondSide)
          BY <2>2, <3>4
        <4>2. (y \o SecondSide)[m] = q /\ q \notin Elements(SecondSide)
          BY <3>2, <3>4
        <4> HIDE DEF y
        <4>3. m \in 1..Len(y) /\ y[m] = q
          BY <4>1, <4>2, WhereItIs
        <4> QED
          BY <4>3 DEF y
      <3>6. m \in 1..Len(x)
        BY <2>2, <2>3, <2>5, <3>5, WhereItIs
      <3>7. Begins(x, x \o a) /\ Begins(x, x \o a2)
        BY <2>2, BeginsItself, BeginsLonger
      <3>8. Begins(x, x \o a \o SecondSide) /\ Begins(x, x \o a2 \o SecondSide)
        BY <2>2, <3>7, BeginsLonger
      <3>9. Begins(x, x \o a \o SecondSide \o b) /\ Begins(x, x \o a2 \o SecondSide \o b2)
        BY <2>2, <3>8, BeginsLonger
      <3>10. Begins(x, old) /\ Begins(x, new)
        BY <2>1, <2>2, <3>9, BeginsLonger
      <3> QED
        BY <1>0, <2>2, <3>6, <3>10, BeginningsAreTheSame
    <2>6. CASE q.key = Of("side_b_pipeline")
      <3> DEFINE y == x \o a \o SecondSide
      <3>1. a2 = a
        BY <1>f, <2>6 DEF Of
      <3>2. m \in 1..Len(y \o b) /\ (y \o b)[m] = q
        BY <2>1, <2>2, <2>3, <2>6, WhereItIs
      <3>3. m \in 1..Len(y)
        BY <2>2, <2>3, <2>6, <3>2, WhereItIs
      <3>4. Begins(y, y \o b) /\ Begins(y, y \o b2)
        BY <2>2, BeginsItself, BeginsLonger
      <3>5. Begins(y, old) /\ Begins(y, new)
        BY <2>1, <2>2, <3>1, <3>4, BeginsLonger
      <3> QED
        BY <1>0, <2>2, <3>3, <3>5, BeginningsAreTheSame
    <2> QED
      BY <2>4, <2>5, <2>6
  <1>4. CASE command = "init"
    BY <1>4, <1>s, PartsOfInitsQuestions
  <1> QED
    BY <1>1, <1>2, <1>3, <1>4 DEF Commands

DecisiveOf(command) ==
  CASE command \in {"validate", "translate"} -> {"pipeline_name"}
    [] command = "solve"   -> {"model_type"}
    [] command = "compare" -> Sides
    [] OTHER               -> {}

\* The questions of a command whatever is answered.
FixedQuestions(command) ==
  CASE command \in {"validate", "translate"} -> Elements(PipelineOpening)
    [] command = "solve"   -> {Q("select", Of("model_type"))}
    [] command = "compare" -> Elements(CompareOpening) \union Elements(SecondSide) \union Elements(Output)
    [] OTHER               -> {Q("value", Of("target")), Q("select", Of("example"))}

LEMMA ElementsOfQuestions ==
  ASSUME NEW command \in Commands, NEW answers, PipelinesKnown(answers), NEW q
  PROVE  q \in Elements(Questions(command, answers)) <=>
           \/ q \in FixedQuestions(command)
           \/ \E name \in DecisiveOf(command) : q \in Elements(Following(command, answers, name))
  <1> DEFINE E(name) == Elements(Following(command, answers, name))
  <1>1. CASE command \in {"validate", "translate"}
    <2>1. DecisiveOf(command) = {"pipeline_name"} /\ FixedQuestions(command) = Elements(PipelineOpening)
      BY <1>1 DEF DecisiveOf, FixedQuestions
    <2>2. Following(command, answers, "pipeline_name") \in Seq(Question)
      BY PartsAreSeqs DEF Decisive, PipelineNames
    <2>3. Elements(Questions(command, answers)) = Elements(PipelineOpening) \union E("pipeline_name")
      BY <1>1, <2>2, OpeningsAreSeqs, PartsOfAPipelinesQuestions, ElementsOfConcat
    <2> HIDE DEF E
    <2>4. q \in Elements(Questions(command, answers)) <=>
            q \in FixedQuestions(command) \/ \E name \in DecisiveOf(command) : q \in E(name)
      BY <2>1, <2>3
    <2> QED
      BY <2>4 DEF E
  <1>2. CASE command = "solve"
    <2> DEFINE x == <<Q("select", Of("model_type"))>>
    <2>1. Elements(x) = {Q("select", Of("model_type"))}
      BY DEF Elements
    <2>2. DecisiveOf(command) = {"model_type"} /\ FixedQuestions(command) = Elements(x)
      BY <1>2, <2>1 DEF DecisiveOf, FixedQuestions
    <2>3. Following(command, answers, "model_type") \in Seq(Question) /\ x \in Seq(Question)
      BY PartsAreSeqs, OpeningsAreSeqs DEF Decisive
    <2>4. Elements(Questions(command, answers)) = Elements(x) \union E("model_type")
      <3>1. Questions(command, answers) = x \o Following(command, answers, "model_type")
        BY <1>2, PartsOfSolvesQuestions
      <3> HIDE DEF x
      <3> QED
        BY <2>3, <3>1, ElementsOfConcat
    <2> HIDE DEF E, x
    <2>5. q \in Elements(Questions(command, answers)) <=>
            q \in FixedQuestions(command) \/ \E name \in DecisiveOf(command) : q \in E(name)
      BY <2>2, <2>4
    <2> QED
      BY <2>5 DEF E
  <1>3. CASE command = "compare"
    <2> DEFINE x == CompareOpening
               a == Following("compare", answers, "side_a_pipeline")
               b == Following("compare", answers, "side_b_pipeline")
               v == x \o a
               w == v \o SecondSide
               z == w \o b
    <2>1. /\ x \in Seq(Question) /\ a \in Seq(Question) /\ b \in Seq(Question)
          /\ SecondSide \in Seq(Question) /\ Output \in Seq(Question)
          /\ v \in Seq(Question) /\ w \in Seq(Question) /\ z \in Seq(Question)
      BY OpeningsAreSeqs, PartsAreSeqs DEF Decisive, PipelineNames, Sides
    <2>2. Elements(z \o Output) = Elements(z) \union Elements(Output)
      <3> HIDE DEF z
      <3> QED
        BY <2>1, ElementsOfConcat
    <2>3. Elements(z) = Elements(w) \union Elements(b)
      <3> HIDE DEF w
      <3> QED
        BY <2>1, ElementsOfConcat
    <2>4. Elements(w) = Elements(v) \union Elements(SecondSide)
      <3> HIDE DEF v
      <3> QED
        BY <2>1, ElementsOfConcat
    <2>5. Elements(v) = Elements(x) \union Elements(a)
      BY <2>1, ElementsOfConcat
    <2>6. Questions(command, answers) = z \o Output
      BY <1>3, PartsOfComparesQuestions
    <2>7. /\ DecisiveOf(command) = {"side_a_pipeline", "side_b_pipeline"}
          /\ FixedQuestions(command) = Elements(x) \union Elements(SecondSide) \union Elements(Output)
      BY <1>3 DEF DecisiveOf, FixedQuestions, Sides
    <2>8. E("side_a_pipeline") = Elements(a) /\ E("side_b_pipeline") = Elements(b)
      BY <1>3
    <2> HIDE DEF x, a, b, v, w, z, E
    <2>9. q \in Elements(Questions(command, answers)) <=>
            \/ q \in Elements(x) \/ q \in Elements(SecondSide) \/ q \in Elements(Output)
            \/ q \in Elements(a) \/ q \in Elements(b)
      BY <2>2, <2>3, <2>4, <2>5, <2>6
    <2>10. q \in Elements(Questions(command, answers)) <=>
             q \in FixedQuestions(command) \/ \E name \in DecisiveOf(command) : q \in E(name)
      BY <2>7, <2>8, <2>9
    <2> QED
      BY <2>10 DEF E
  <1>4. CASE command = "init"
    <2>1. DecisiveOf(command) = {}
          /\ FixedQuestions(command) = {Q("value", Of("target")), Q("select", Of("example"))}
      BY <1>4 DEF DecisiveOf, FixedQuestions
    <2>2. Elements(Questions(command, answers)) = {Q("value", Of("target")), Q("select", Of("example"))}
      BY <1>4, PartsOfInitsQuestions DEF Elements
    <2> QED
      BY <2>1, <2>2
  <1> QED
    BY <1>1, <1>2, <1>3, <1>4 DEF Commands

\* A param is asked for once the answer that tells its pipeline is there.
LEMMA ParamsAreOfAnAnswer ==
  ASSUME NEW command \in Commands, NEW answers, PipelinesKnown(answers),
         NEW q \in Elements(Questions(command, answers)), q.kind = "param"
  PROVE  Of(PipelineOf(q.key)) \in DOMAIN answers /\ q.key[1] # "command"
  <1>1. q \notin FixedQuestions(command)
    <2>1. q \notin Elements(PipelineOpening)
      BY DEF PipelineOpening, Elements, Q
    <2>2. q \notin Elements(CompareOpening) /\ q \notin Elements(SecondSide) /\ q \notin Elements(Output)
      BY DEF CompareOpening, SecondSide, Output, Elements, Q
    <2>3. /\ q # Q("select", Of("model_type")) /\ q # Q("value", Of("target"))
          /\ q # Q("select", Of("example"))
      BY DEF Q
    <2> QED
      BY <2>1, <2>2, <2>3 DEF FixedQuestions
  <1>2. PICK name \in DecisiveOf(command) : q \in Elements(Following(command, answers, name))
    BY <1>1, ElementsOfQuestions
  <1>3. name \in Decisive
    BY DEF DecisiveOf, Decisive, PipelineNames, Commands
  <1>4. IsIncidental(name, q)
    BY <1>2, <1>3, FollowingIsIncidental DEF Incidental
  <1>5. PipelineOf(q.key) = name /\ q.key[1] # "command"
    BY <1>4 DEF IsIncidental
  <1>6. Of(name) \in DOMAIN answers
    BY <1>2 DEF Following, Elements
  <1> QED
    BY <1>5, <1>6

\* The answers there are decide as the recorded ones did.
DecideAlike(answers, replay) ==
  \A name \in Decisive : Of(name) \in DOMAIN answers =>
    Of(name) \in DOMAIN replay /\ replay[Of(name)] = answers[Of(name)]

LEMMA FewerQuestions ==
  ASSUME NEW command \in Commands, NEW answers, NEW replay, PipelinesKnown(answers),
         PipelinesKnown(replay), DecideAlike(answers, replay)
  PROVE  Elements(Questions(command, answers)) \subseteq Elements(Questions(command, replay))
  <1>1. DecisiveOf(command) \subseteq Decisive
    BY DEF DecisiveOf, Decisive, PipelineNames, Commands
  <1>2. \A name \in DecisiveOf(command) :
          Elements(Following(command, answers, name)) \subseteq Elements(Following(command, replay, name))
    BY <1>1 DEF DecideAlike, Following, Elements
  <1> QED
    BY <1>2, ElementsOfQuestions

LEMMA SameQuestions ==
  ASSUME NEW command \in Commands, NEW answers, NEW replay,
         \A name \in DecisiveOf(command) :
           /\ Of(name) \in DOMAIN answers /\ Of(name) \in DOMAIN replay
           /\ answers[Of(name)] = replay[Of(name)]
  PROVE  Questions(command, answers) = Questions(command, replay)
  <1>1. \A name \in DecisiveOf(command) :
          Following(command, answers, name) = Following(command, replay, name)
    BY DEF Following
  <1>2. CASE command \in {"validate", "translate"}
    BY <1>1, <1>2, PartsOfAPipelinesQuestions DEF DecisiveOf
  <1>3. CASE command = "solve"
    BY <1>1, <1>3, PartsOfSolvesQuestions DEF DecisiveOf
  <1>4. CASE command = "compare"
    BY <1>1, <1>4, PartsOfComparesQuestions DEF DecisiveOf, Sides
  <1>5. CASE command = "init"
    BY <1>5, PartsOfInitsQuestions
  <1> QED
    BY <1>2, <1>3, <1>4, <1>5 DEF Commands

LEMMA DecisiveQuestionsAreAsked ==
  ASSUME NEW command \in Commands, NEW answers, PipelinesKnown(answers),
         NEW name \in DecisiveOf(command)
  PROVE  \E q \in Elements(Questions(command, answers)) :
           q.key = Of(name) /\ q.kind \in {"select", "pick"}
  <1>1. CASE command \in {"validate", "translate"}
    <2>1. Q("select", Of("pipeline_name")) \in Elements(PipelineOpening) /\ name = "pipeline_name"
      <3>1. PipelineOpening[4] = Q("select", Of("pipeline_name")) /\ 4 \in DOMAIN PipelineOpening
        BY DEF PipelineOpening
      <3> QED
        BY <1>1, <3>1 DEF Elements, DecisiveOf
    <2>2. Q("select", Of("pipeline_name")) \in Elements(Questions(command, answers))
      BY <1>1, <2>1, ElementsOfQuestions DEF FixedQuestions
    <2> QED
      BY <2>1, <2>2 DEF Q
  <1>2. CASE command = "solve"
    <2>1. Q("select", Of("model_type")) \in Elements(Questions(command, answers))
      BY <1>2, ElementsOfQuestions DEF FixedQuestions
    <2>2. name = "model_type"
      BY <1>2 DEF DecisiveOf
    <2> QED
      BY <2>1, <2>2 DEF Q
  <1>3. CASE command = "compare"
    <2>1. Q("pick", Of("side_a_pipeline")) \in Elements(CompareOpening)
      <3>1. CompareOpening[4] = Q("pick", Of("side_a_pipeline")) /\ 4 \in DOMAIN CompareOpening
        BY DEF CompareOpening
      <3> QED
        BY <3>1 DEF Elements
    <2>2. Q("pick", Of("side_b_pipeline")) \in Elements(SecondSide)
      <3>1. SecondSide[1] = Q("pick", Of("side_b_pipeline")) /\ 1 \in DOMAIN SecondSide
        BY DEF SecondSide
      <3> QED
        BY <3>1 DEF Elements
    <2>3. /\ Q("pick", Of("side_a_pipeline")) \in Elements(Questions(command, answers))
          /\ Q("pick", Of("side_b_pipeline")) \in Elements(Questions(command, answers))
      BY <1>3, <2>1, <2>2, ElementsOfQuestions DEF FixedQuestions
    <2> QED
      BY <1>3, <2>3 DEF DecisiveOf, Sides, Q
  <1>4. CASE command = "init"
    BY <1>4 DEF DecisiveOf
  <1> QED
    BY <1>1, <1>2, <1>3, <1>4 DEF Commands

(* ------------------------------ the answers ----------------------------- *)

LEMMA QuestionsByKind ==
  ASSUME NEW q \in Question
  PROVE  /\ q.kind = "select" => \E name \in SelectNames : q.key = Of(name)
         /\ q.kind = "pick" => \E name \in Sides : q.key = Of(name)
         /\ q.kind = "value" => \E name \in ValueNames : q.key = Of(name)
         /\ q.kind = "mappings" => q.key = Of("user_mappings_path")
         /\ q.kind = "lookup" => \E name \in LookupNames : q.key = Of(name)
         /\ q.kind \in {"select", "pick", "value", "mappings", "lookup", "param"}
  BY DEF Question, Q

LEMMA NextIsAQuestion ==
  ASSUME NEW command \in Commands, NEW answers, NEW n, AnsweredSoFar(command, answers, n),
         n < Len(Questions(command, answers))
  PROVE  /\ n \in Nat /\ n + 1 \in 1..Len(Questions(command, answers))
         /\ Questions(command, answers)[n + 1] \in Question
         /\ Questions(command, answers)[n + 1] \in Elements(Questions(command, answers))
  <1>1. Questions(command, answers) \in Seq(Question)
    BY QuestionsAreASeq DEF AnsweredSoFar
  <1>2. /\ Len(Questions(command, answers)) \in Nat
        /\ DOMAIN Questions(command, answers) = 1..Len(Questions(command, answers))
    BY <1>1, LenProperties
  <1>3. n \in Nat /\ n + 1 \in 1..Len(Questions(command, answers))
    BY <1>2 DEF AnsweredSoFar
  <1> QED
    BY <1>1, <1>2, <1>3, ElementOfSeq DEF Elements

\* A question passed without an answer.
LEMMA PassingAQuestion ==
  ASSUME NEW command \in Commands, NEW answers, NEW n, AnsweredSoFar(command, answers, n),
         n < Len(Questions(command, answers))
  PROVE  /\ Asked(command, answers, n + 1) =
              Asked(command, answers, n) \union {Questions(command, answers)[n + 1]}
         /\ Questions(command, answers)[n + 1].kind \in {"lookup", "param"} =>
              AnsweredSoFar(command, answers, n + 1)
  <1>1. n \in Nat /\ n + 1 \in 1..Len(Questions(command, answers))
    BY NextIsAQuestion
  <1>2. 1..n+1 = 1..n \union {n + 1}
    BY <1>1
  <1>3. Asked(command, answers, n + 1) =
          Asked(command, answers, n) \union {Questions(command, answers)[n + 1]}
    BY <1>2 DEF Asked
  <1>4. n + 1 \in 0..Len(Questions(command, answers))
    BY <1>1
  <1> QED
    BY <1>3, <1>4 DEF AnsweredSoFar

\* The next question after the first n.
ComesNext(command, answers, n, q) ==
  n < Len(Questions(command, answers)) /\ q = Questions(command, answers)[n + 1]

LEMMA AnsweringAQuestion ==
  ASSUME NEW command \in Commands, NEW answers, NEW n, AnsweredSoFar(command, answers, n),
         NEW q, ComesNext(command, answers, n, q), q.kind # "lookup", NEW w, Shows(q.key, w),
         \A name \in PipelineNames : q.key = Of(name) => w \in DOMAIN Params
  PROVE  /\ AnsweredSoFar(command, With(answers, q.key, w), n + 1)
         /\ Asked(command, With(answers, q.key, w), n + 1) = Asked(command, answers, n) \union {q}
         /\ Asked(command, With(answers, q.key, w), n + 1) \subseteq Elements(Questions(command, answers))
  <1> DEFINE with == With(answers, q.key, w)
             old  == Questions(command, answers)
             new  == Questions(command, with)
  <1>0. n < Len(old) /\ q = old[n + 1]
    BY DEF ComesNext
  <1>1. /\ n \in Nat /\ n + 1 \in 1..Len(old)
        /\ PipelinesKnown(answers) /\ ShowsAll(answers)
    BY <1>0, NextIsAQuestion DEF AnsweredSoFar
  <1>2. /\ DOMAIN with = DOMAIN answers \union {q.key}
        /\ \A k \in DOMAIN with : with[k] = IF k = q.key THEN w ELSE answers[k]
    BY DEF With
  <1>3. PipelinesKnown(with) /\ ShowsAll(with)
    <2> HIDE DEF with
    <2> QED
      BY <1>1, <1>2 DEF PipelinesKnown, ShowsAll
  <1>4. SameUpTo(n + 1, old, new)
    BY <1>0, <1>1, <1>3, QuestionsStay
  <1>5. Len(new) \in Nat /\ Len(old) \in Nat /\ DOMAIN old = 1..Len(old)
    BY <1>1, <1>3, QuestionsAreASeq, LenProperties
  <1>6. n + 1 \in 0..Len(new)
    BY <1>1, <1>4, <1>5 DEF SameUpTo
  <1>7. \A i \in 1..n+1 : new[i] = old[i]
    BY <1>4 DEF SameUpTo
  <1>8. Asked(command, with, n + 1) = Asked(command, answers, n + 1)
    BY <1>7 DEF Asked
  <1>9. Asked(command, answers, n + 1) = Asked(command, answers, n) \union {q}
    BY <1>0, PassingAQuestion
  <1>10. Asked(command, answers, n + 1) \subseteq Elements(old)
    <2>1. 1..n+1 \subseteq DOMAIN old
      BY <1>1, <1>5
    <2> QED
      BY <2>1 DEF Asked, Elements
  <1> HIDE DEF with, new, old
  <1>11. \A k \in DOMAIN with : \E e \in Asked(command, with, n + 1) : e.kind # "lookup" /\ e.key = k
    BY <1>2, <1>8, <1>9 DEF AnsweredSoFar
  <1>12. \A e \in Asked(command, with, n + 1) : e.kind \notin {"lookup", "param"} => e.key \in DOMAIN with
    BY <1>2, <1>8, <1>9 DEF AnsweredSoFar
  <1>13. AnsweredSoFar(command, with, n + 1)
    BY <1>3, <1>6, <1>11, <1>12 DEF AnsweredSoFar, new
  <1> QED
    BY <1>8, <1>9, <1>10, <1>13, Zenon DEF with, old

\* What may be chosen is an answer, and of a pipeline one of the project.
LEMMA ChoicesAreAnswers ==
  ASSUME NEW d, d.catalog \in Catalogs \union {{}}, NEW name \in SelectNames \union Sides
  PROVE  /\ NoValue \notin Choices(name, d)
         /\ name \in PipelineNames => Choices(name, d) \subseteq DOMAIN Params
         /\ name \in Sides => IsFiniteSet(Choices(name, d))
  <1>1. /\ IsFiniteSet(d.catalog)
        /\ \A e \in d.catalog : /\ e.pipeline \in DOMAIN Params
                                /\ NoValue \notin {e.source, e.destination, e.pipeline}
    BY ProjectAssumption, AnswersAssumption, FS_EmptySet
  <1>2. \A framework : /\ NoValue \notin ResultsOf(d.catalog, framework)
                       /\ ResultsOf(d.catalog, framework) \subseteq DOMAIN Params
    BY <1>1 DEF ResultsOf
  <1>3. \A framework : IsFiniteSet(ResultsOf(d.catalog, framework))
    <2> TAKE framework
    <2> DEFINE kept == {e \in d.catalog : e.source = framework /\ e.destination = "results"}
               f == [e \in kept |-> e.pipeline]
    <2>1. IsFiniteSet(kept)
      BY <1>1, FS_Subset
    <2>2. ResultsOf(d.catalog, framework) = {f[e] : e \in kept}
      BY DEF ResultsOf
    <2>3. f \in Surjection(kept, {f[e] : e \in kept})
      <3> HIDE DEF kept
      <3> QED
        BY DEF Surjection
    <2> QED
      BY <2>1, <2>2, <2>3, FS_Surjection
  <1>4. NoValue \notin Comparable(d.catalog)
    BY <1>1 DEF Comparable
  <1>5. CASE name = "source_framework"
    BY <1>1, <1>5 DEF Choices, PipelineNames, Sides
  <1>6. CASE name = "destination_framework"
    BY <1>1, <1>6 DEF Choices, PipelineNames, Sides
  <1>7. CASE name = "pipeline_name"
    BY <1>1, <1>7 DEF Choices, Sides
  <1>8. CASE name \in {"side_a_framework", "side_b_framework"}
    BY <1>4, <1>8 DEF Choices, PipelineNames, Sides
  <1>9. CASE name \in Sides
    BY <1>2, <1>3, <1>9 DEF Choices, Sides
  <1>10. CASE name \in FixedNames
    <2>1. Choices(name, d) = Options[name]
      BY <1>10 DEF Choices, FixedNames
    <2>2. name \notin PipelineNames \union Sides
      BY <1>10 DEF FixedNames, PipelineNames, Sides
    <2> QED
      BY <1>10, <2>1, <2>2, AnswersAssumption DEF PipelineNames
  <1> QED
    BY <1>5, <1>6, <1>7, <1>8, <1>9, <1>10 DEF SelectNames

\* What a dialog that is being asked holds.
InOrder(d) ==
  /\ d.command \in Commands /\ d.catalog \in Catalogs \union {{}}
  /\ AnsweredSoFar(d.command, d.answers, d.asked) /\ ShowsAll(d.replay)

Given(q, v) == IF q.kind = "value" THEN Normal(v) ELSE v

FitsTheQuestion(q, w) ==
  Shows(q.key, w) /\ \A name \in PipelineNames : q.key = Of(name) => w \in DOMAIN Params

LEMMA NextOfADialog ==
  ASSUME NEW d, InOrder(d), HasNext(d)
  PROVE  /\ Next1(d) \in Question /\ Next1(d) = Questions(d.command, d.answers)[d.asked + 1]
         /\ d.asked < Len(Questions(d.command, d.answers))
         /\ Next1(d) \in Elements(Questions(d.command, d.answers))
         /\ Next1(d).kind = "param" =>
              Of(PipelineOf(Next1(d).key)) \in DOMAIN d.answers /\ Next1(d).key[1] # "command"
  <1>1. /\ Next1(d) = Questions(d.command, d.answers)[d.asked + 1]
        /\ d.asked < Len(Questions(d.command, d.answers))
    BY DEF Next1, Script, HasNext
  <1>2. Next1(d) \in Question /\ Next1(d) \in Elements(Questions(d.command, d.answers))
    BY <1>1, NextIsAQuestion DEF InOrder
  <1> QED
    BY <1>1, <1>2, ParamsAreOfAnAnswer DEF InOrder, AnsweredSoFar

LEMMA ValueKeysByKind ==
  ASSUME NEW q \in Question, q.kind = "param" => q.key[1] # "command", q.kind # "lookup"
  PROVE  /\ q.key \in ValueKeys <=> q.kind = "value"
         /\ \A name \in PipelineNames : q.key = Of(name) => q.kind \in {"select", "pick"} /\ q.key[2] = name
  <1>1. \A k \in ValueKeys : k[1] = "command" /\ k[2] \in ValueNames
    BY DEF ValueKeys, Of
  <1>2. CASE q.kind = "param"
    BY <1>1, <1>2 DEF Of
  <1>3. CASE q.kind = "select"
    <2>1. PICK name \in SelectNames : q.key = Of(name)
      BY <1>3, QuestionsByKind
    <2>2. name \notin ValueNames
      BY DEF SelectNames, FixedNames, ValueNames
    <2> QED
      BY <1>1, <1>3, <2>1, <2>2 DEF Of
  <1>4. CASE q.kind = "pick"
    <2>1. PICK name \in Sides : q.key = Of(name)
      BY <1>4, QuestionsByKind
    <2>2. name \notin ValueNames
      BY DEF Sides, ValueNames
    <2> QED
      BY <1>1, <1>4, <2>1, <2>2 DEF Of
  <1>5. CASE q.kind = "value"
    <2>1. PICK name \in ValueNames : q.key = Of(name)
      BY <1>5, QuestionsByKind
    <2>2. name \notin PipelineNames
      BY DEF PipelineNames, Sides, ValueNames
    <2> QED
      BY <1>5, <2>1, <2>2 DEF ValueKeys, Of
  <1>6. CASE q.kind = "mappings"
    <2>1. q.key = Of("user_mappings_path")
      BY <1>6, QuestionsByKind
    <2> QED
      BY <1>1, <1>6, <2>1 DEF Of, ValueNames, PipelineNames, Sides
  <1> QED
    BY <1>2, <1>3, <1>4, <1>5, <1>6, QuestionsByKind

\* A choice fits the question, and so does a typed value in its normal form.
LEMMA ChosenFits ==
  ASSUME NEW d, InOrder(d), HasNext(d), NEW q, q = Next1(d), q.kind \in {"select", "pick"},
         NEW v \in Choices(q.key[2], d)
  PROVE  v # NoValue /\ FitsTheQuestion(q, Given(q, v))
  <1>1. q \in Question
    BY NextOfADialog
  <1>2. PICK name \in SelectNames \union Sides : q.key = Of(name)
    BY <1>1, QuestionsByKind
  <1>3. q.key[2] = name
    BY <1>2 DEF Of
  <1>4. v # NoValue /\ (name \in PipelineNames => v \in DOMAIN Params)
    BY <1>3, ChoicesAreAnswers DEF InOrder
  <1>5. q.key \notin ValueKeys /\ Given(q, v) = v
    BY <1>1, ValueKeysByKind DEF Given
  <1>6. \A n \in PipelineNames : q.key = Of(n) => n = name
    BY <1>2 DEF Of
  <1> QED
    BY <1>4, <1>5, <1>6 DEF FitsTheQuestion, Shows

LEMMA TypedFits ==
  ASSUME NEW d, InOrder(d), HasNext(d), NEW q, q = Next1(d),
         q.kind \in {"value", "param", "mappings"}, NEW v,
         q.kind = "value" => v \in Typed[q.key[2]] \union {Prefilled[q.key[2]]},
         v # NoValue
  PROVE  FitsTheQuestion(q, Given(q, v))
  <1>1. q \in Question /\ (q.kind = "param" => q.key[1] # "command")
    BY NextOfADialog
  <1>2. /\ q.key \in ValueKeys <=> q.kind = "value"
        /\ \A name \in PipelineNames : q.key # Of(name)
    BY <1>1, ValueKeysByKind
  <1>3. CASE q.kind = "value"
    <2>1. q.key[2] \in ValueNames
      BY <1>1, <1>3, QuestionsByKind DEF Of
    <2>2. Normal(Normal(v)) = Normal(v)
      BY <1>3, <2>1, NormalAssumption
    <2> QED
      BY <1>2, <1>3, <2>2 DEF FitsTheQuestion, Shows, Given
  <1>4. CASE q.kind # "value"
    BY <1>2, <1>4 DEF FitsTheQuestion, Shows, Given
  <1> QED
    BY <1>3, <1>4

\* What a question shows fits it, accepted as it is.
LEMMA ShownFits ==
  ASSUME NEW d, InOrder(d), HasNext(d), NEW q, q = Next1(d), q.kind # "lookup",
         NEW v, v = Default(d, q), v # NoValue
  PROVE  FitsTheQuestion(q, Given(q, v))
  <1>1. q \in Question
    BY NextOfADialog
  <1>2. CASE q.kind \in {"select", "pick"}
    <2>1. v \in Choices(q.key[2], d)
      BY <1>2 DEF Default, ChoiceShown
    <2> QED
      BY <1>2, <2>1, ChosenFits
  <1>3. CASE q.kind \in {"value", "mappings"} /\ q.key \in DOMAIN d.replay
    <2>1. v = d.replay[q.key]
      BY <1>3 DEF Default
    <2>2. Shows(q.key, v)
      BY <1>3, <2>1 DEF InOrder, ShowsAll
    <2>3. q.key \in ValueKeys <=> q.kind = "value"
      BY <1>1, <1>3, ValueKeysByKind
    <2>4. Shows(q.key, Given(q, v))
      BY <2>2, <2>3 DEF Shows, Given
    <2>5. \A name \in PipelineNames : q.key # Of(name)
      BY <1>1, <1>3, ValueKeysByKind
    <2> QED
      BY <2>4, <2>5 DEF FitsTheQuestion
  <1>4. CASE q.kind \in {"value", "mappings"} /\ q.key \notin DOMAIN d.replay
    <2>1. v = Prefilled[q.key[2]]
      BY <1>4 DEF Default
    <2> QED
      BY <1>4, <2>1, TypedFits
  <1>5. CASE q.kind = "param"
    BY <1>5, TypedFits
  <1> QED
    BY <1>1, <1>2, <1>3, <1>4, <1>5, QuestionsByKind

(* ------------------------- a replay that is accepted -------------------- *)

LEMMA YamlIsOfThePipeline ==
  ASSUME NEW answers, NEW replay, NEW key,
         answers[Of(PipelineOf(key))] = replay[Of(PipelineOf(key))]
  PROVE  Yaml(answers, key) = Yaml(replay, key)
  BY Zenon DEF Yaml, PipelineOf

\* The answers to anything but a param are the recorded ones.
LEMMA AgreedAnswers ==
  ASSUME NEW command, NEW answers, NEW replay, NEW n, Agree(command, answers, replay, n)
  PROVE  /\ \A name : Of(name) \in DOMAIN answers =>
              Of(name) \in DOMAIN replay /\ answers[Of(name)] = replay[Of(name)]
         /\ DecideAlike(answers, replay)
  BY DEF Agree, DecideAlike, Of

\* A question with a recorded answer that is still a choice shows it.
LEMMA TheRecordedIsShown ==
  ASSUME NEW d, InOrder(d), HasNext(d), NEW q, q = Next1(d), q.kind # "lookup", ~ IsGone(d, q),
         q.key \in DOMAIN d.replay, NEW v, v = Default(d, q), v # NoValue
  PROVE  Given(q, v) = d.replay[q.key]
  <1>1. q \in Question
    BY NextOfADialog
  <1>2. CASE q.kind \in {"select", "pick"}
    BY <1>2 DEF IsGone, Default, ChoiceShown, Given
  <1>3. CASE q.kind \in {"value", "param", "mappings"}
    <2>1. v = d.replay[q.key]
      BY <1>3 DEF Default
    <2>2. CASE q.kind = "value"
      <3>1. q.key \in ValueKeys
        BY <1>1, <2>2, ValueKeysByKind
      <3> QED
        BY <2>1, <2>2, <3>1 DEF InOrder, ShowsAll, Shows, Given
    <2>3. CASE q.kind # "value"
      BY <2>1, <2>3 DEF Given
    <2> QED
      BY <2>2, <2>3
  <1> QED
    BY <1>1, <1>2, <1>3, QuestionsByKind

\* Only a param has no recorded answer, and it shows what the pipeline says.
LEMMA TheUnrecordedIsOfThePipeline ==
  ASSUME NEW d, InOrder(d), HasNext(d), NEW q, q = Next1(d), q.kind # "lookup",
         Complete(d.command, d.replay), Agree(d.command, d.answers, d.replay, d.asked),
         q.key \notin DOMAIN d.replay, NEW v, v = Default(d, q), v # NoValue
  PROVE  q.key[1] # "command" /\ Given(q, v) = Yaml(d.replay, q.key)
  <1>1. q \in Elements(Questions(d.command, d.replay))
    <2>1. PipelinesKnown(d.answers) /\ PipelinesKnown(d.replay) /\ DecideAlike(d.answers, d.replay)
      BY AgreedAnswers DEF InOrder, Complete, AnsweredSoFar
    <2> QED
      BY <2>1, NextOfADialog, FewerQuestions DEF InOrder
  <1>2. Elements(Questions(d.command, d.replay)) =
          Asked(d.command, d.replay, Len(Questions(d.command, d.replay)))
    <2>1. Questions(d.command, d.replay) \in Seq(Question)
      BY QuestionsAreASeq DEF InOrder, Complete, AnsweredSoFar
    <2>2. DOMAIN Questions(d.command, d.replay) = 1..Len(Questions(d.command, d.replay))
      BY <2>1, LenProperties
    <2> QED
      BY <2>2 DEF Elements, Asked
  <1>3. q.kind = "param"
    BY <1>1, <1>2 DEF Complete, AnsweredSoFar
  <1>4. Of(PipelineOf(q.key)) \in DOMAIN d.answers /\ q.key[1] # "command"
    BY <1>3, NextOfADialog
  <1>5. v = Yaml(d.answers, q.key)
    BY <1>3, Zenon DEF Default
  <1>6. Yaml(d.answers, q.key) = Yaml(d.replay, q.key)
    BY <1>4, AgreedAnswers, YamlIsOfThePipeline
  <1> QED
    BY <1>3, <1>4, <1>5, <1>6 DEF Given

\* Accepting what a question shows keeps a replay in agreement with what it repeats.
LEMMA AcceptingAgrees ==
  ASSUME NEW d, InOrder(d), HasNext(d), NEW q, q = Next1(d), q.kind # "lookup",
         ~ IsGone(d, q), Complete(d.command, d.replay),
         Agree(d.command, d.answers, d.replay, d.asked), NEW v, v = Default(d, q), v # NoValue
  PROVE  Agree(d.command, With(d.answers, q.key, Given(q, v)), d.replay, d.asked + 1)
  <1> DEFINE w == Given(q, v)
             with == With(d.answers, q.key, w)
  <1>1. IF q.key \in DOMAIN d.replay THEN w = d.replay[q.key]
        ELSE q.key[1] # "command" /\ w = Yaml(d.replay, q.key)
    BY TheRecordedIsShown, TheUnrecordedIsOfThePipeline
  <1>2. /\ DOMAIN with = DOMAIN d.answers \union {q.key}
        /\ \A k \in DOMAIN with : with[k] = IF k = q.key THEN w ELSE d.answers[k]
    BY DEF With
  <1>3. Asked(d.command, with, d.asked + 1) = Asked(d.command, d.answers, d.asked) \union {q}
    <2>1. FitsTheQuestion(q, w)
      BY ShownFits
    <2>2. /\ d.command \in Commands /\ AnsweredSoFar(d.command, d.answers, d.asked)
          /\ ComesNext(d.command, d.answers, d.asked, q)
      BY NextOfADialog DEF InOrder, ComesNext
    <2>3. Shows(q.key, w) /\ \A name \in PipelineNames : q.key = Of(name) => w \in DOMAIN Params
      BY <2>1 DEF FitsTheQuestion
    <2> HIDE DEF w
    <2> QED
      BY <2>2, <2>3, AnsweringAQuestion
  <1> HIDE DEF with, w
  <1>4. \A k \in DOMAIN with :
          IF k \in DOMAIN d.replay THEN with[k] = d.replay[k]
          ELSE k[1] # "command" /\ with[k] = Yaml(d.replay, k)
    BY <1>1, <1>2 DEF Agree
  <1>5. \A e \in Asked(d.command, with, d.asked + 1) :
          e.kind = "param" /\ e.key \in DOMAIN d.replay => e.key \in DOMAIN with
    BY <1>2, <1>3 DEF Agree
  <1>6. Agree(d.command, with, d.replay, d.asked + 1)
    BY <1>4, <1>5 DEF Agree
  <1> QED
    BY <1>6 DEF with, w

\* A param that shows nothing was left out of the recorded answers.
LEMMA LeavingOutAgrees ==
  ASSUME NEW d, InOrder(d), HasNext(d), Next1(d).kind = "param",
         Agree(d.command, d.answers, d.replay, d.asked), Default(d, Next1(d)) = NoValue
  PROVE  Agree(d.command, d.answers, d.replay, d.asked + 1)
  <1> DEFINE q == Next1(d)
  <1>1. Asked(d.command, d.answers, d.asked + 1) = Asked(d.command, d.answers, d.asked) \union {q}
    BY NextOfADialog, PassingAQuestion DEF InOrder
  <1>2. q \in Question /\ q.key \notin ValueKeys
    BY NextOfADialog, ValueKeysByKind
  <1>3. q.key \notin DOMAIN d.replay
    BY <1>2 DEF InOrder, ShowsAll, Shows, Default
  <1> QED
    BY <1>1, <1>3 DEF Agree

\* Looking something up keeps it too.
LEMMA LookingUpAgrees ==
  ASSUME NEW d, InOrder(d), HasNext(d), Next1(d).kind = "lookup",
         Agree(d.command, d.answers, d.replay, d.asked)
  PROVE  Agree(d.command, d.answers, d.replay, d.asked + 1)
  <1>1. Asked(d.command, d.answers, d.asked + 1) =
          Asked(d.command, d.answers, d.asked) \union {Next1(d)}
    BY NextOfADialog, PassingAQuestion DEF InOrder
  <1> QED
    BY <1>1 DEF Agree

LEMMA AskedIsAll ==
  ASSUME NEW command \in Commands, NEW answers, PipelinesKnown(answers)
  PROVE  /\ Asked(command, answers, Len(Questions(command, answers))) =
              Elements(Questions(command, answers))
         /\ Len(Questions(command, answers)) \in Nat
  <1>1. Questions(command, answers) \in Seq(Question)
    BY QuestionsAreASeq
  <1>2. /\ DOMAIN Questions(command, answers) = 1..Len(Questions(command, answers))
        /\ Len(Questions(command, answers)) \in Nat
    BY <1>1, LenProperties
  <1> QED
    BY <1>2 DEF Elements, Asked

\* What a use case is called with when every question is answered, in two parts.
Answerable(questions) == {q.key : q \in {e \in questions : e.kind # "lookup"}}
Omissible(questions)  == {q.key : q \in {e \in questions : e.kind = "param"}}

LEMMA RequestOfQuestions ==
  ASSUME NEW command, NEW answers
  PROVE  LET all == Elements(Questions(command, answers))
         IN  Request(command, answers) =
               [command |-> command,
                values |-> [k \in Answerable(all) |->
                              IF k \in Omissible(all) /\ k \notin DOMAIN answers
                              THEN Yaml(answers, k) ELSE answers[k]]]
  <1> DEFINE script == Questions(command, answers)
             all == Elements(script)
  <1>1. {script[i].key : i \in {j \in DOMAIN script : script[j].kind # "lookup"}} = Answerable(all)
    <2> HIDE DEF script
    <2> QED
      BY DEF Elements, Answerable
  <1>2. {script[i].key : i \in {j \in DOMAIN script : script[j].kind = "param"}} = Omissible(all)
    <2> HIDE DEF script
    <2> QED
      BY DEF Elements, Omissible
  <1> QED
    BY <1>1, <1>2, Zenon DEF Request

\* A replay that agreed to its last question calls its use case as it was called.
LEMMA ACallRepeats ==
  ASSUME NEW d, InOrder(d), ~ HasNext(d), Complete(d.command, d.replay),
         Agree(d.command, d.answers, d.replay, d.asked)
  PROVE  Called(d.command, d.answers) = Called(d.command, d.replay)
  <1> DEFINE c == d.command
             a == d.answers
             r == d.replay
             all == Elements(Questions(c, a))
  <1>1. c \in Commands /\ PipelinesKnown(a) /\ PipelinesKnown(r)
    BY DEF InOrder, Complete, AnsweredSoFar
  <1>2. d.asked = Len(Questions(c, a))
    <2>1. Len(Questions(c, a)) \in Nat
      BY <1>1, AskedIsAll
    <2> QED
      BY <2>1 DEF InOrder, AnsweredSoFar, HasNext, Script
  <1>3. Asked(c, a, d.asked) = all /\ AnsweredSoFar(c, a, d.asked)
    BY <1>1, <1>2, AskedIsAll DEF InOrder
  <1>4. \A name \in DecisiveOf(c) :
          /\ Of(name) \in DOMAIN a /\ Of(name) \in DOMAIN r /\ a[Of(name)] = r[Of(name)]
    <2> TAKE name \in DecisiveOf(c)
    <2>1. PICK q \in all : q.key = Of(name) /\ q.kind \in {"select", "pick"}
      BY <1>1, DecisiveQuestionsAreAsked
    <2>2. Of(name) \in DOMAIN a
      BY <1>3, <2>1 DEF AnsweredSoFar
    <2> QED
      BY <2>2, AgreedAnswers
  <1>5. Questions(c, a) = Questions(c, r)
    BY <1>1, <1>4, SameQuestions
  <1>6. \A q \in all : q.kind \notin {"lookup", "param"} => q.key \in DOMAIN r
    BY <1>1, <1>5, AskedIsAll DEF Complete, AnsweredSoFar
  <1> DEFINE value(answers) ==
               [k \in Answerable(all) |-> IF k \in Omissible(all) /\ k \notin DOMAIN answers
                                          THEN Yaml(answers, k) ELSE answers[k]]
  <1>7. \A k \in Answerable(all) :
          (IF k \in Omissible(all) /\ k \notin DOMAIN a THEN Yaml(a, k) ELSE a[k]) =
          (IF k \in Omissible(all) /\ k \notin DOMAIN r THEN Yaml(r, k) ELSE r[k])
    <2> TAKE k \in Answerable(all)
    <2>1. PICK q \in all : q.key = k /\ q.kind # "lookup"
      BY DEF Answerable
    <2>2. CASE k \in DOMAIN a
      <3>1. CASE k \in DOMAIN r
        BY <2>2, <3>1 DEF Agree
      <3>2. CASE k \notin DOMAIN r
        <4>1. q.kind = "param"
          BY <1>6, <2>1, <3>2
        <4>2. k \in Omissible(all)
          BY <2>1, <4>1 DEF Omissible
        <4>3. a[k] = Yaml(r, k)
          BY <2>2, <3>2 DEF Agree
        <4> QED
          BY <2>2, <3>2, <4>2, <4>3
      <3> QED
        BY <3>1, <3>2
    <2>3. CASE k \notin DOMAIN a
      <3>1. q.kind = "param"
        BY <1>3, <2>1, <2>3 DEF AnsweredSoFar
      <3>2. k \in Omissible(all)
        BY <2>1, <3>1 DEF Omissible
      <3>3. k \notin DOMAIN r
        BY <1>3, <2>1, <2>3, <3>1 DEF Agree
      <3>4. Of(PipelineOf(k)) \in DOMAIN a
        BY <1>1, <2>1, <3>1, ParamsAreOfAnAnswer
      <3>5. Yaml(a, k) = Yaml(r, k)
        BY <3>4, AgreedAnswers, YamlIsOfThePipeline
      <3> QED
        BY <2>3, <3>2, <3>3, <3>5
    <2> QED
      BY <2>2, <2>3
  <1>8. value(a) = value(r)
    BY <1>7, Zenon
  <1>9. /\ Request(c, a) = [command |-> c, values |-> value(a)]
        /\ Request(c, r) = [command |-> c, values |-> value(r)]
    BY <1>5, RequestOfQuestions, Zenon
  <1> QED
    BY <1>8, <1>9, Zenon DEF Called

(* -------------------- what the other sessions are told ------------------- *)

\* A step of one session opens a dialog of a new identity, calls the use case of the dialog
\* it is asking, or leaves the requests alone.
ActsAlone(s) ==
  /\ \A t \in Sessions \ {s} : stage'[t] = stage[t] /\ dialog'[t] = dialog[t] /\ mine'[t] = mine[t]
  /\ DOMAIN stage' = Sessions /\ DOMAIN mine' = Sessions /\ DOMAIN dialog' = Sessions
  /\ DOMAIN dialog'[s] = DOMAIN Fresh
  /\ requests' \in Seq(Elements(requests'))
  /\ \A id \in DOMAIN requests :
       /\ id \in DOMAIN requests'
       /\ requests'[id] = requests[id] \/ (stage[s] = "asking" /\ id = dialog[s].id)
  /\ stage'[s] = "asking" =>
       \/ stage[s] = "asking" /\ dialog'[s].id = dialog[s].id
       \/ dialog'[s].id \notin DOMAIN requests

\* A command that was asked for once stays what it was.
LEMMA PastStays ==
  ASSUME Faithful, NEW s \in Sessions, ActsAlone(s), NEW id, NEW command, NEW details,
         Past(id, command, details)
  PROVE  Past(id, command, details)' /\ requests'[id] = requests[id]
  <1>1. id \in DOMAIN requests /\ \A t \in Sessions : stage[t] = "asking" => dialog[t].id # id
    BY DEF Past
  <1>2. requests'[id] = requests[id] /\ id \in DOMAIN requests'
    BY <1>1 DEF ActsAlone
  <1>3. \A t \in Sessions : stage'[t] = "asking" => dialog'[t].id # id
    BY <1>1 DEF ActsAlone
  <1> QED
    BY <1>2, <1>3 DEF Past

LEMMA HistoriesStay ==
  ASSUME Faithful, NEW s \in Sessions, ActsAlone(s), NEW h, IsHistory(h)
  PROVE  IsHistory(h)'
  <1>1. \A i \in DOMAIN h : Past(h[i].id, h[i].command, h[i].details)'
    BY PastStays DEF IsHistory
  <1> QED
    BY <1>1 DEF IsHistory

\* What a dialog repeats stays repeated.
LEMMA ReplaysStay ==
  ASSUME Faithful, NEW s \in Sessions, ActsAlone(s), NEW d, Replays(d)
  PROVE  /\ Replays(d)'
         /\ d.of # 0 => requests'[d.of] = requests[d.of]
         /\ IsReplay(d)' <=> IsReplay(d)
  <1>1. CASE d.of = 0
    BY <1>1 DEF Replays, IsReplay
  <1>2. CASE d.of # 0
    <2>1. Past(d.of, d.command, [found |-> TRUE, answers |-> d.replay])
      BY <1>2 DEF Replays
    <2>2. /\ Past(d.of, d.command, [found |-> TRUE, answers |-> d.replay])'
          /\ requests'[d.of] = requests[d.of]
      BY <2>1, PastStays
    <2> QED
      BY <1>2, <2>2 DEF Replays, IsReplay
  <1> QED
    BY <1>1, <1>2

LEMMA OthersAskAsTheyDid ==
  ASSUME Faithful, NEW s \in Sessions, ActsAlone(s), NEW t \in Sessions \ {s}
  PROVE  AsksAsItDid(t)'
  <1>1. PICK d : d = dialog[t]
    OBVIOUS
  <1>2. dialog'[t] = d /\ stage'[t] = stage[t]
    BY <1>1 DEF ActsAlone
  <1>3. AsksAsItDid(t)
    BY DEF Faithful
  <1>4. CASE stage[t] = "asking"
    <2>1. /\ d.command \in Commands /\ d.id \in DOMAIN requests /\ ~ requests[d.id].found
          /\ d.catalog \in Catalogs \union {{}}
          /\ AnsweredSoFar(d.command, d.answers, d.asked) /\ ShowsAll(d.replay)
          /\ Replays(d)
          /\ IsReplay(d) => Agree(d.command, d.answers, d.replay, d.asked)
      BY <1>1, <1>3, <1>4 DEF AsksAsItDid
    <2>2. stage[s] = "asking" => dialog[s].id # d.id
      BY <1>1, <1>4 DEF Faithful
    <2>3. d.id \in DOMAIN requests' /\ ~ requests'[d.id].found
      BY <2>1, <2>2 DEF ActsAlone
    <2>4. Replays(d)' /\ (IsReplay(d)' <=> IsReplay(d))
      BY <2>1, ReplaysStay
    <2> QED
      BY <1>2, <1>4, <2>1, <2>3, <2>4 DEF AsksAsItDid
  <1>5. CASE stage[t] = "recording"
    <2>1. /\ Past(d.id, d.command, d.details) /\ Replays(d)
          /\ IsReplay(d) /\ requests[d.id].found => requests[d.id] = requests[d.of]
      BY <1>1, <1>3, <1>5 DEF AsksAsItDid
    <2>2. Past(d.id, d.command, d.details)' /\ requests'[d.id] = requests[d.id]
      BY <2>1, PastStays
    <2>3. /\ Replays(d)' /\ (IsReplay(d)' <=> IsReplay(d))
          /\ d.of # 0 => requests'[d.of] = requests[d.of]
      BY <2>1, ReplaysStay
    <2>4. IsReplay(d) => d.of # 0
      BY DEF IsReplay
    <2> QED
      BY <1>2, <1>5, <2>1, <2>2, <2>3, <2>4 DEF AsksAsItDid
  <1>6. CASE stage[t] \notin {"asking", "recording"}
    BY <1>2, <1>6 DEF AsksAsItDid
  <1> QED
    BY <1>4, <1>5, <1>6

\* What is left of a step is what the acting session does: what it asks, what it remembers
\* and what it writes.
LEMMA ActingAlone ==
  ASSUME Faithful, NEW s \in Sessions, ActsAlone(s), AsksAsItDid(s)', offered' \in Catalogs,
         IsHistory(mine'[s]), IsHistory(file'.entries)
  PROVE  Faithful'
  <1>1. \A t \in Sessions : AsksAsItDid(t)'
    BY OthersAskAsTheyDid
  <1>2. IsHistory(mine[s]) /\ \A t \in Sessions \ {s} : IsHistory(mine[t])
    BY DEF Faithful
  <1>3. \A t \in Sessions : IsHistory(mine[t])'
    <2> TAKE t \in Sessions
    <2>1. PICK h : h = mine'[t] /\ IsHistory(h)
      BY <1>2 DEF ActsAlone
    <2>2. IsHistory(h)'
      BY <2>1, HistoriesStay
    <2> QED
      BY <2>1, <2>2 DEF IsHistory
  <1>4. IsHistory(file.entries)'
    <2>1. PICK h : h = file'.entries /\ IsHistory(h)
      OBVIOUS
    <2>2. IsHistory(h)'
      BY <2>1, HistoriesStay
    <2> QED
      BY <2>1, <2>2 DEF IsHistory
  <1>5. \A t \in Sessions : DOMAIN dialog'[t] = DOMAIN Fresh
    BY DEF ActsAlone, Faithful
  <1>6. ASSUME NEW t \in Sessions, NEW u \in Sessions, stage'[t] = "asking", stage'[u] = "asking",
               dialog'[t].id = dialog'[u].id
        PROVE  t = u
    <2>1. \A x \in Sessions : stage[x] = "asking" => dialog[x].id \in DOMAIN requests
      BY DEF Faithful, AsksAsItDid
    <2> QED
      BY <1>6, <2>1 DEF ActsAlone, Faithful
  <1> QED
    BY <1>1, <1>3, <1>4, <1>5, <1>6 DEF ActsAlone, Faithful

(* ------------------------------- each step ------------------------------ *)

LEMMA FaithfulInit == Init => Faithful
  <1> SUFFICES ASSUME Init PROVE Faithful
    OBVIOUS
  <1>1. requests \in Seq(Elements(requests))
    BY DEF Init
  <1>2. IsHistory(<< >>)
    BY DEF IsHistory
  <1>3. \A s \in Sessions : AsksAsItDid(s)
    BY DEF Init, AsksAsItDid
  <1> QED
    BY <1>1, <1>2, <1>3 DEF Init, Faithful

\* A session that ends, starts, or goes back to its menu asks nothing.
LEMMA AtRestNothingIsAsked ==
  ASSUME Faithful, NEW s \in Sessions, stage'[s] \notin {"asking", "recording"},
         ActsAlone(s), offered' = offered, IsHistory(mine'[s]), IsHistory(file'.entries)
  PROVE  Faithful'
  <1>1. AsksAsItDid(s)'
    BY DEF AsksAsItDid
  <1> QED
    BY <1>1, ActingAlone DEF Faithful

LEMMA EndIsFaithful ==
  ASSUME Faithful, NEW s \in Sessions, NEW how \in Ended, End(s, how),
         UNCHANGED <<offered, file, requests>>
  PROVE  Faithful'
  <1>1. ActsAlone(s)
    BY DEF End, Goto, Ended, ActsAlone, Faithful
  <1>2. IsHistory(mine'[s]) /\ IsHistory(file'.entries) /\ stage'[s] = how
    <2>1. mine'[s] = << >> /\ IsHistory(<< >>)
      BY DEF End, IsHistory, Faithful
    <2> QED
      BY <2>1 DEF End, Goto, Faithful
  <1> QED
    BY <1>1, <1>2, AtRestNothingIsAsked DEF Ended

LEMMA StartIsFaithful ==
  ASSUME Faithful, NEW s \in Sessions, Start(s)
  PROVE  Faithful'
  <1>1. ActsAlone(s) /\ stage'[s] \in {"failed", "menu"}
    BY DEF Start, Goto, ActsAlone, Faithful
  <1>2. IsHistory(mine'[s]) /\ IsHistory(file'.entries)
    BY DEF Start, Faithful
  <1> QED
    BY <1>1, <1>2, AtRestNothingIsAsked DEF Start

\* The last of a history with another command that was recorded is a history.
LEMMA HistoriesGrow ==
  ASSUME NEW h, IsHistory(h), NEW e, Past(e.id, e.command, e.details)
  PROVE  IsHistory(LastOf(Append(h, e)))
  <1> DEFINE S == Elements(h) \union {e}
             a == Append(h, e)
  <1>1. h \in Seq(S) /\ \A x \in S : Past(x.id, x.command, x.details)
    <2>1. h \in Seq(S)
      BY SeqMonotonic DEF IsHistory
    <2> QED
      BY <2>1 DEF IsHistory, Elements
  <1>2. a \in Seq(S)
    BY <1>1, AppendProperties
  <1>3. LastOf(a) \in Seq(S)
    <2> HIDE DEF a, S
    <2>1. Len(a) \in Nat
      BY <1>2, LenProperties
    <2>2. CASE Len(a) <= HistoryLimit
      BY <1>2, <2>2, LastOfAShortLog
    <2>3. CASE Len(a) > HistoryLimit
      BY <1>2, <2>3, LastOfALongLog
    <2> QED
      BY <2>1, <2>2, <2>3, LimitAssumption
  <1>4. \A z \in Seq(S) : IsHistory(z)
    <2> TAKE z \in Seq(S)
    <2> HIDE DEF S
    <2>1. \A i \in DOMAIN z : z[i] \in S
      BY LenProperties, ElementOfSeq
    <2>2. z \in Seq(Elements(z))
      <3>1. Len(z) \in Nat /\ z = [i \in 1..Len(z) |-> z[i]] /\ DOMAIN z = 1..Len(z)
        BY LenProperties
      <3>2. \A i \in 1..Len(z) : z[i] \in Elements(z)
        BY <3>1 DEF Elements
      <3> QED
        BY <3>1, <3>2, IsASeq
    <2> QED
      BY <1>1, <2>1, <2>2 DEF IsHistory
  <1> QED
    BY <1>3, <1>4

LEMMA RecordIsFaithful ==
  ASSUME Faithful, NEW s \in Sessions, Record(s)
  PROVE  Faithful'
  <1>1. ActsAlone(s) /\ stage'[s] = "saving"
    BY DEF Record, Goto, ActsAlone, Faithful
  <1>2. IsHistory(mine'[s])
    <2>1. Past(dialog[s].id, dialog[s].command, dialog[s].details)
      BY DEF Record, Faithful, AsksAsItDid
    <2>2. PICK e : e = Entry(dialog[s])
      OBVIOUS
    <2>3. Past(e.id, e.command, e.details)
      BY <2>1, <2>2 DEF Entry
    <2>4. IsHistory(mine[s]) /\ mine'[s] = LastOf(Append(mine[s], e))
      BY <2>2 DEF Record, Faithful
    <2> QED
      BY <2>3, <2>4, HistoriesGrow
  <1>3. IsHistory(file'.entries)
    BY DEF Record, IsHistory
  <1> QED
    BY <1>1, <1>2, <1>3, AtRestNothingIsAsked DEF Record

LEMMA SaveIsFaithful ==
  ASSUME Faithful, NEW s \in Sessions, Save(s)
  PROVE  Faithful'
  <1>1. ActsAlone(s) /\ stage'[s] = "menu"
    BY DEF Save, Goto, ActsAlone, Faithful
  <1>2. IsHistory(mine'[s]) /\ IsHistory(file'.entries)
    <2>1. IsHistory(<< >>)
      BY DEF IsHistory
    <2> QED
      BY <2>1 DEF Save, Faithful
  <1> QED
    BY <1>1, <1>2, AtRestNothingIsAsked DEF Save

LEMMA NothingIsAnsweredYet ==
  ASSUME NEW command \in Commands
  PROVE  /\ AnsweredSoFar(command, << >>, 0)
         /\ \A replay : Agree(command, << >>, replay, 0)
         /\ ShowsAll(<< >>)
  <1>1. PipelinesKnown(<< >>) /\ ShowsAll(<< >>)
    BY DEF PipelinesKnown, ShowsAll
  <1>2. Asked(command, << >>, 0) = {} /\ Len(Questions(command, << >>)) \in Nat
    BY <1>1, AskedIsAll DEF Asked
  <1> QED
    BY <1>1, <1>2 DEF AnsweredSoFar, Agree

\* A dialog that begins repeats what was recorded, if it repeats anything.
LEMMA OpenIsFaithful ==
  ASSUME Faithful, NEW s \in Sessions, NEW command \in Commands, NEW of, NEW replay,
         Open(s, command, of, replay), ShowsAll(replay),
         of # 0 => Past(of, command, [found |-> TRUE, answers |-> replay])
  PROVE  Faithful'
  <1>1. PICK n : n = Len(requests) + 1
    OBVIOUS
  <1>2. PICK d : d = [Fresh EXCEPT !.command = command, !.id = n, !.of = of, !.replay = replay]
    OBVIOUS
  <1>3. /\ d.command = command /\ d.id = n /\ d.of = of /\ d.replay = replay
        /\ d.catalog = {} /\ d.asked = 0 /\ d.answers = << >> /\ DOMAIN d = DOMAIN Fresh
    BY <1>2 DEF Fresh
  <1>4. /\ stage[s] = "menu" /\ stage'[s] = "asking" /\ dialog'[s] = d
        /\ requests' = Append(requests, None) /\ UNCHANGED <<offered, mine, file>>
        /\ DOMAIN stage' = Sessions /\ DOMAIN dialog' = Sessions
        /\ \A t \in Sessions \ {s} : stage'[t] = stage[t] /\ dialog'[t] = dialog[t]
    BY <1>1, <1>2 DEF Open, Goto, Faithful
  <1>5. /\ requests' \in Seq(Elements(requests')) /\ n \in DOMAIN requests' /\ requests'[n] = None
        /\ n \notin DOMAIN requests
        /\ \A id \in DOMAIN requests : id \in DOMAIN requests' /\ requests'[id] = requests[id]
    <2> DEFINE S == Elements(requests) \union {None}
    <2>1. requests \in Seq(S)
      BY SeqMonotonic DEF Faithful
    <2> HIDE DEF S
    <2>2. /\ requests' \in Seq(S \union {None}) /\ Len(requests') = Len(requests) + 1
          /\ \A i \in 1..Len(requests) : requests'[i] = requests[i]
          /\ requests'[Len(requests) + 1] = None
      <3>1. requests \in Seq(S \union {None})
        BY <2>1, SeqMonotonic
      <3> QED
        BY <1>4, <3>1, AppendProperties
    <2>3. /\ Len(requests) \in Nat /\ DOMAIN requests = 1..Len(requests)
          /\ DOMAIN requests' = 1..Len(requests')
          /\ requests' = [i \in 1..Len(requests') |-> requests'[i]]
      BY <2>1, <2>2, LenProperties
    <2>4. requests' \in Seq(Elements(requests'))
      <3>1. Len(requests') \in Nat /\ \A i \in 1..Len(requests') : requests'[i] \in Elements(requests')
        BY <2>2, <2>3 DEF Elements
      <3> QED
        BY <2>3, <3>1, IsASeq
    <2> QED
      BY <1>1, <2>2, <2>3, <2>4
  <1>6. ActsAlone(s)
    BY <1>3, <1>4, <1>5 DEF ActsAlone, Faithful
  <1>7. Replays(d)'
    <2>1. Replays(d)
      BY <1>3 DEF Replays
    <2> QED
      BY <1>6, <2>1, ReplaysStay
  <1>8. AsksAsItDid(s)'
    BY <1>3, <1>4, <1>5, <1>7, NothingIsAnsweredYet DEF AsksAsItDid, None
  <1> QED
    BY <1>4, <1>6, <1>8, ActingAlone DEF Faithful

LEMMA ChooseIsFaithful ==
  ASSUME Faithful, NEW s \in Sessions, Choose(s)
  PROVE  Faithful'
  <1>1. PICK c \in Commands : Open(s, c, 0, << >>)
    BY DEF Choose
  <1> QED
    BY <1>1, OpenIsFaithful, NothingIsAnsweredYet

LEMMA PickPastIsFaithful ==
  ASSUME Faithful, NEW s \in Sessions, PickPast(s)
  PROVE  Faithful'
  <1>1. PICK i \in DOMAIN mine[s] :
          Open(s, mine[s][i].command, mine[s][i].id,
               IF mine[s][i].details.found THEN mine[s][i].details.answers ELSE << >>)
    BY DEF PickPast
  <1>2. PICK past : past = mine[s][i]
    OBVIOUS
  <1>3. PICK replay : replay = IF past.details.found THEN past.details.answers ELSE << >>
    OBVIOUS
  <1>4. Past(past.id, past.command, past.details)
    BY <1>2 DEF Faithful, IsHistory
  <1>5. past.command \in Commands /\ ShowsAll(replay)
    BY <1>3, <1>4, NothingIsAnsweredYet DEF Past
  <1>6. Past(past.id, past.command, [found |-> TRUE, answers |-> replay])
    BY <1>3, <1>4, <1>5 DEF Past
  <1>7. Open(s, past.command, past.id, replay)
    BY <1>1, <1>2, <1>3
  <1> QED
    BY <1>5, <1>6, <1>7, OpenIsFaithful

\* A question passed leaves the dialog in order.
LEMMA AskingGoesOn ==
  ASSUME Faithful, NEW s \in Sessions, NEW d, d = dialog[s], NEW e, e = dialog'[s],
         stage[s] = "asking", UNCHANGED <<offered, stage, mine, file, requests>>,
         DOMAIN dialog' = Sessions, \A t \in Sessions \ {s} : dialog'[t] = dialog[t],
         DOMAIN e = DOMAIN Fresh,
         e.command = d.command, e.id = d.id, e.of = d.of, e.replay = d.replay,
         e.catalog \in Catalogs \union {{}}, AnsweredSoFar(e.command, e.answers, e.asked),
         IsReplay(e) => Agree(e.command, e.answers, e.replay, e.asked)
  PROVE  Faithful'
  <1>1. ActsAlone(s)
    BY DEF ActsAlone, Faithful
  <1>2. /\ d.command \in Commands /\ d.id \in DOMAIN requests /\ ~ requests[d.id].found
        /\ ShowsAll(d.replay) /\ Replays(e)
    BY DEF Faithful, AsksAsItDid, Replays
  <1>3. Replays(e)' /\ (IsReplay(e)' <=> IsReplay(e))
    BY <1>1, <1>2, ReplaysStay
  <1>4. AsksAsItDid(s)'
    BY <1>2, <1>3 DEF AsksAsItDid
  <1> QED
    BY <1>1, <1>4, ActingAlone DEF Faithful

\* The answers once a question has been answered by v.
Answers(d, q, v) == IF v = NoValue THEN d.answers ELSE With(d.answers, q.key, Given(q, v))

\* A dialog being asked is in order, and its questions go on.
LEMMA AskingIsInOrder ==
  ASSUME Faithful, NEW s \in Sessions, NEW kinds, Asking(s, kinds), NEW d, d = dialog[s]
  PROVE  /\ stage[s] = "asking" /\ InOrder(d) /\ HasNext(d) /\ Next1(d).kind \in kinds
         /\ Replays(d) /\ (IsReplay(d) => Agree(d.command, d.answers, d.replay, d.asked))
  BY DEF Asking, Faithful, AsksAsItDid, InOrder

\* An answer that fits its question leaves the dialog in order.
LEMMA FittingAnswers ==
  ASSUME NEW d, InOrder(d), HasNext(d), NEW q, q = Next1(d), q.kind # "lookup", NEW w,
         FitsTheQuestion(q, w)
  PROVE  AnsweredSoFar(d.command, With(d.answers, q.key, w), d.asked + 1)
  <1>1. /\ d.command \in Commands /\ AnsweredSoFar(d.command, d.answers, d.asked)
        /\ ComesNext(d.command, d.answers, d.asked, q)
    BY NextOfADialog DEF InOrder, ComesNext
  <1>2. Shows(q.key, w) /\ \A name \in PipelineNames : q.key = Of(name) => w \in DOMAIN Params
    BY DEF FitsTheQuestion
  <1> QED
    BY <1>1, <1>2, AnsweringAQuestion

LEMMA PassingOn ==
  ASSUME NEW d, InOrder(d), HasNext(d), Next1(d).kind \in {"lookup", "param"}
  PROVE  AnsweredSoFar(d.command, d.answers, d.asked + 1)
  BY NextOfADialog, PassingAQuestion DEF InOrder

\* A dialog that repeats a call goes on from one that repeats it.
LEMMA ReplaysGoOn ==
  ASSUME NEW d, NEW e, e.of = d.of, e.replay = d.replay,
         e.accepted => d.accepted, IsReplay(e), Replays(d)
  PROVE  IsReplay(d) /\ Complete(d.command, d.replay)
  <1>1. IsReplay(d)
    BY DEF IsReplay
  <1>2. Past(d.of, d.command, [found |-> TRUE, answers |-> d.replay]) /\ requests[d.of].found
    BY <1>1 DEF Replays, IsReplay
  <1> QED
    BY <1>1, <1>2 DEF Past

LEMMA AcceptIsFaithful ==
  ASSUME Faithful, NEW s \in Sessions, Accept(s)
  PROVE  Faithful'
  <1>1. PICK d, e : d = dialog[s] /\ e = dialog'[s]
    OBVIOUS
  <1>2. PICK q, v : q = Next1(d) /\ v = Default(d, q)
    OBVIOUS
  <1>3. /\ stage[s] = "asking" /\ InOrder(d) /\ HasNext(d)
        /\ q.kind \in {"select", "pick", "value", "param", "mappings"}
        /\ Replays(d) /\ (IsReplay(d) => Agree(d.command, d.answers, d.replay, d.asked))
    BY <1>1, <1>2, AskingIsInOrder DEF Accept
  <1>4. /\ v = NoValue => q.kind = "param"
        /\ Answer(s, q.kind, v, ~ IsGone(d, q))
        /\ UNCHANGED <<offered, stage, mine, file, requests>>
    BY <1>1, <1>2 DEF Accept
  <1>5. /\ DOMAIN dialog' = Sessions /\ \A t \in Sessions \ {s} : dialog'[t] = dialog[t]
        /\ DOMAIN e = DOMAIN Fresh
        /\ e.command = d.command /\ e.id = d.id /\ e.of = d.of /\ e.replay = d.replay
        /\ e.catalog = d.catalog /\ e.asked = d.asked + 1
        /\ e.accepted => d.accepted /\ ~ IsGone(d, q)
        /\ e.answers = Answers(d, q, v)
    <2>1. DOMAIN dialog = Sessions /\ DOMAIN d = DOMAIN Fresh
      BY <1>1 DEF Faithful
    <2>2. DOMAIN d = {"command", "id", "of", "replay", "catalog", "asked", "answers", "accepted", "details"}
      BY <2>1 DEF Fresh
    <2>3. PICK w : w = Answers(d, q, v)
      OBVIOUS
    <2>4. dialog' = [dialog EXCEPT ![s].asked = @ + 1, ![s].answers = w,
                                   ![s].accepted = @ /\ ~ IsGone(d, q)]
      BY <1>1, <1>2, <1>4, <2>3 DEF Answer, Answers, Given
    <2>5. e = [d EXCEPT !.asked = @ + 1, !.answers = w, !.accepted = @ /\ ~ IsGone(d, q)]
      BY <1>1, <2>1, <2>4
    <2> QED
      BY <1>1, <2>1, <2>2, <2>3, <2>4, <2>5
  <1>6. AnsweredSoFar(e.command, e.answers, e.asked)
    <2>1. CASE v = NoValue
      BY <1>2, <1>3, <1>4, <1>5, <2>1, PassingOn DEF Answers
    <2>2. CASE v # NoValue
      <3>1. FitsTheQuestion(q, Given(q, v))
        BY <1>2, <1>3, <2>2, ShownFits
      <3> QED
        BY <1>2, <1>3, <1>5, <2>2, <3>1, FittingAnswers DEF Answers
    <2> QED
      BY <2>1, <2>2
  <1>7. ASSUME IsReplay(e) PROVE Agree(e.command, e.answers, e.replay, e.asked)
    <2>1. IsReplay(d) /\ ~ IsGone(d, q) /\ Complete(d.command, d.replay)
      BY <1>3, <1>5, <1>7, ReplaysGoOn DEF IsReplay
    <2>2. Agree(d.command, d.answers, d.replay, d.asked)
      BY <1>3, <2>1
    <2>3. CASE v = NoValue
      BY <1>2, <1>3, <1>4, <1>5, <2>2, <2>3, LeavingOutAgrees DEF Answers
    <2>4. CASE v # NoValue
      BY <1>2, <1>3, <1>5, <2>1, <2>2, <2>4, AcceptingAgrees DEF Answers
    <2> QED
      BY <2>3, <2>4
  <1>8. e.catalog \in Catalogs \union {{}}
    BY <1>3, <1>5 DEF InOrder
  <1> QED
    BY <1>1, <1>3, <1>4, <1>5, <1>6, <1>7, <1>8, AskingGoesOn

\* An answer that is typed or left out is no replay any more.
LEMMA TypeIsFaithful ==
  ASSUME Faithful, NEW s \in Sessions, Type(s) \/ LeaveOut(s)
  PROVE  Faithful'
  <1>1. PICK d, e : d = dialog[s] /\ e = dialog'[s]
    OBVIOUS
  <1>2. PICK q : q = Next1(d)
    OBVIOUS
  <1>3. /\ stage[s] = "asking" /\ InOrder(d) /\ HasNext(d)
        /\ q.kind \in {"select", "pick", "value", "param", "mappings"}
    BY <1>1, <1>2, AskingIsInOrder DEF Type, LeaveOut
  <1>4. PICK v : /\ Answer(s, q.kind, v, FALSE)
                 /\ \/ q.kind = "param" /\ v = NoValue
                    \/ v \in IF q.kind \in {"select", "pick"} THEN Choices(q.key[2], d)
                             ELSE Typed[q.key[2]]
    <2>1. CASE Type(s)
      BY <1>1, <1>2, <2>1 DEF Type
    <2>2. CASE LeaveOut(s)
      <3>1. q.kind = "param" /\ Answer(s, q.kind, NoValue, FALSE)
        BY <1>1, <1>2, <2>2 DEF LeaveOut, Asking
      <3> QED
        BY <3>1
    <2> QED
      BY <2>1, <2>2
  <1>5. UNCHANGED <<offered, stage, mine, file, requests>>
    BY DEF Type, LeaveOut
  <1>6. /\ DOMAIN dialog' = Sessions /\ \A t \in Sessions \ {s} : dialog'[t] = dialog[t]
        /\ DOMAIN e = DOMAIN Fresh
        /\ e.command = d.command /\ e.id = d.id /\ e.of = d.of /\ e.replay = d.replay
        /\ e.catalog = d.catalog /\ e.asked = d.asked + 1
        /\ ~ e.accepted
        /\ e.answers = Answers(d, q, v)
    <2>1. DOMAIN dialog = Sessions /\ DOMAIN d = DOMAIN Fresh
      BY <1>1 DEF Faithful
    <2>2. DOMAIN d = {"command", "id", "of", "replay", "catalog", "asked", "answers", "accepted", "details"}
      BY <2>1 DEF Fresh
    <2>3. PICK w : w = Answers(d, q, v)
      OBVIOUS
    <2>4. dialog' = [dialog EXCEPT ![s].asked = @ + 1, ![s].answers = w,
                                   ![s].accepted = @ /\ FALSE]
      BY <1>1, <1>2, <1>4, <2>3 DEF Answer, Answers, Given
    <2>5. e = [d EXCEPT !.asked = @ + 1, !.answers = w, !.accepted = @ /\ FALSE]
      BY <1>1, <2>1, <2>4
    <2> QED
      BY <1>1, <2>1, <2>2, <2>3, <2>4, <2>5
  <1>7. AnsweredSoFar(e.command, e.answers, e.asked)
    <2>1. CASE q.kind \in {"select", "pick"}
      <3>1. v # NoValue /\ FitsTheQuestion(q, Given(q, v))
        BY <1>2, <1>3, <1>4, <2>1, ChosenFits
      <3> QED
        BY <1>2, <1>3, <1>6, <3>1, FittingAnswers DEF Answers
    <2>2. CASE q.kind = "param" /\ v = NoValue
      BY <1>2, <1>3, <1>6, <2>2, PassingOn DEF Answers
    <2>3. CASE q.kind \in {"value", "param", "mappings"} /\ ~ (q.kind = "param" /\ v = NoValue)
      <3>1. v \in Typed[q.key[2]]
        BY <1>4, <2>3
      <3>2. v # NoValue
        <4>1. CASE q.kind = "param"
          BY <2>3, <4>1
        <4>2. CASE q.kind \in {"value", "mappings"}
          <5>1. q \in Question
            BY <1>2, <1>3, NextOfADialog
          <5>2. \E name \in ValueNames \union {"user_mappings_path"} : q.key = Of(name)
            BY <4>2, <5>1, QuestionsByKind
          <5> QED
            BY <3>1, <5>2, AnswersAssumption DEF Of
        <4> QED
          BY <2>3, <4>1, <4>2
      <3>3. FitsTheQuestion(q, Given(q, v))
        BY <1>2, <1>3, <2>3, <3>1, <3>2, TypedFits
      <3> QED
        BY <1>2, <1>3, <1>6, <3>2, <3>3, FittingAnswers DEF Answers
    <2> QED
      BY <1>3, <2>1, <2>2, <2>3
  <1>8. ~ IsReplay(e) /\ e.catalog \in Catalogs \union {{}}
    BY <1>3, <1>6 DEF InOrder, IsReplay
  <1> QED
    BY <1>1, <1>3, <1>5, <1>6, <1>7, <1>8, AskingGoesOn

\* What the project offers is read before anything is answered.
LEMMA LookUpIsFaithful ==
  ASSUME Faithful, NEW s \in Sessions, LookUp(s)
  PROVE  Faithful'
  <1>1. PICK d, e : d = dialog[s] /\ e = dialog'[s]
    OBVIOUS
  <1>2. PICK q : q = Next1(d)
    OBVIOUS
  <1>3. /\ stage[s] = "asking" /\ InOrder(d) /\ HasNext(d) /\ q.kind = "lookup"
        /\ Replays(d) /\ (IsReplay(d) => Agree(d.command, d.answers, d.replay, d.asked))
    BY <1>1, <1>2, AskingIsInOrder DEF LookUp
  <1>4. UNCHANGED <<offered, stage, mine, file, requests>>
    BY DEF LookUp
  <1>5. PICK catalog : catalog = IF q.key[2] \in {"catalog", "comparable"} THEN offered ELSE d.catalog
    OBVIOUS
  <1>6. /\ DOMAIN dialog' = Sessions /\ \A t \in Sessions \ {s} : dialog'[t] = dialog[t]
        /\ DOMAIN e = DOMAIN Fresh
        /\ e.command = d.command /\ e.id = d.id /\ e.of = d.of /\ e.replay = d.replay
        /\ e.catalog = catalog /\ e.asked = d.asked + 1
        /\ e.accepted = d.accepted /\ e.answers = d.answers
    <2>1. DOMAIN dialog = Sessions /\ DOMAIN d = DOMAIN Fresh
      BY <1>1 DEF Faithful
    <2>2. DOMAIN d = {"command", "id", "of", "replay", "catalog", "asked", "answers", "accepted", "details"}
      BY <2>1 DEF Fresh
    <2>3. dialog' = [dialog EXCEPT ![s].asked = @ + 1, ![s].catalog = catalog]
      BY <1>1, <1>2, <1>5 DEF LookUp
    <2>4. e = [d EXCEPT !.asked = @ + 1, !.catalog = catalog]
      BY <1>1, <2>1, <2>3
    <2> QED
      BY <1>1, <2>1, <2>2, <2>3, <2>4
  <1>7. AnsweredSoFar(e.command, e.answers, e.asked) /\ e.catalog \in Catalogs \union {{}}
    <2>1. AnsweredSoFar(d.command, d.answers, d.asked + 1)
      BY <1>2, <1>3, PassingOn
    <2>2. offered \in Catalogs /\ d.catalog \in Catalogs \union {{}}
      BY <1>3 DEF Faithful, InOrder
    <2> QED
      BY <1>5, <1>6, <2>1, <2>2
  <1>8. ASSUME IsReplay(e) PROVE Agree(e.command, e.answers, e.replay, e.asked)
    <2>1. IsReplay(d)
      BY <1>3, <1>6, <1>8, ReplaysGoOn
    <2> QED
      BY <1>2, <1>3, <1>6, <2>1, LookingUpAgrees
  <1> QED
    BY <1>1, <1>3, <1>4, <1>6, <1>7, <1>8, AskingGoesOn

\* A command abandoned called nothing.
LEMMA AbandonIsFaithful ==
  ASSUME Faithful, NEW s \in Sessions, Abandon(s)
  PROVE  Faithful'
  <1>1. PICK d, e : d = dialog[s] /\ e = dialog'[s]
    OBVIOUS
  <1>2. stage[s] = "asking" /\ InOrder(d) /\ Replays(d)
    BY <1>1, AskingIsInOrder DEF Abandon
  <1>3. PICK details :
          /\ dialog' = [dialog EXCEPT ![s].details = details]
          /\ details = None \/ details = [found |-> TRUE, answers |-> d.answers]
    BY <1>1 DEF Abandon
  <1>4. /\ DOMAIN dialog' = Sessions /\ \A t \in Sessions \ {s} : dialog'[t] = dialog[t]
        /\ DOMAIN e = DOMAIN Fresh
        /\ e.command = d.command /\ e.id = d.id /\ e.of = d.of /\ e.replay = d.replay
        /\ e.details = details
    <2>1. DOMAIN dialog = Sessions /\ DOMAIN d = DOMAIN Fresh
      BY <1>1 DEF Faithful
    <2>2. DOMAIN d = {"command", "id", "of", "replay", "catalog", "asked", "answers", "accepted", "details"}
      BY <2>1 DEF Fresh
    <2>3. e = [d EXCEPT !.details = details]
      BY <1>1, <1>3, <2>1
    <2> QED
      BY <1>1, <1>3, <2>1, <2>2, <2>3
  <1>5. /\ stage'[s] = "recording" /\ DOMAIN stage' = Sessions
        /\ \A t \in Sessions \ {s} : stage'[t] = stage[t]
        /\ UNCHANGED <<offered, mine, file, requests>>
    BY DEF Abandon, Goto, Faithful
  <1>6. ActsAlone(s)
    BY <1>1, <1>4, <1>5 DEF ActsAlone, Faithful
  <1>7. d.id \in DOMAIN requests /\ ~ requests[d.id].found
    BY <1>1, <1>2 DEF Faithful, AsksAsItDid
  <1>8. Past(d.id, d.command, details)'
    <2>1. \A t \in Sessions : stage'[t] = "asking" => dialog'[t].id # d.id
      BY <1>1, <1>2, <1>4, <1>5 DEF Faithful
    <2>2. details.found => ShowsAll(details.answers)
      BY <1>2, <1>3 DEF None, InOrder, AnsweredSoFar
    <2> QED
      BY <1>2, <1>5, <1>7, <2>1, <2>2 DEF Past, InOrder
  <1>9. Replays(e)'
    <2>1. Replays(e)
      BY <1>2, <1>4 DEF Replays
    <2> QED
      BY <1>6, <2>1, ReplaysStay
  <1>10. AsksAsItDid(s)'
    <2>1. Past(e.id, e.command, e.details)'
      BY <1>4, <1>8
    <2> QED
      BY <1>1, <1>4, <1>5, <1>7, <1>9, <2>1 DEF AsksAsItDid
  <1> QED
    BY <1>5, <1>6, <1>10, ActingAlone DEF Faithful

\* A use case called by a replay is called with what it was called with.
LEMMA CallIsFaithful ==
  ASSUME Faithful, NEW s \in Sessions, Call(s)
  PROVE  Faithful'
  <1>1. PICK d, e : d = dialog[s] /\ e = dialog'[s]
    OBVIOUS
  <1>2. /\ stage[s] = "asking" /\ ~ HasNext(d) /\ InOrder(d) /\ Replays(d)
        /\ IsReplay(d) => Agree(d.command, d.answers, d.replay, d.asked)
        /\ d.id \in DOMAIN requests
        /\ \A t \in Sessions \ {s} : stage[t] = "asking" => dialog[t].id # d.id
    BY <1>1 DEF Call, Faithful, AsksAsItDid, InOrder
  <1>3. PICK call : call = Called(d.command, d.answers)
    OBVIOUS
  <1>4. requests' = [requests EXCEPT ![d.id] = call] /\ UNCHANGED <<offered, file>>
    BY <1>1, <1>3 DEF Call, Called
  <1>5. /\ requests' \in Seq(Elements(requests')) /\ DOMAIN requests' = DOMAIN requests
        /\ requests'[d.id] = call
        /\ \A id \in DOMAIN requests : id # d.id => requests'[id] = requests[id]
    <2>1. /\ Len(requests) \in Nat /\ DOMAIN requests = 1..Len(requests)
      BY LenProperties DEF Faithful
    <2>2. /\ requests' = [i \in 1..Len(requests) |-> requests'[i]]
          /\ DOMAIN requests' = 1..Len(requests)
      BY <1>4, <2>1
    <2>3. requests' \in Seq(Elements(requests'))
      <3>1. \A i \in 1..Len(requests) : requests'[i] \in Elements(requests')
        BY <2>2 DEF Elements
      <3> QED
        BY <2>1, <2>2, <3>1, IsASeq
    <2> QED
      BY <1>2, <1>4, <2>1, <2>2, <2>3
  <1>6. CASE /\ Goto(s, "recording") /\ mine' = mine
             /\ dialog' = [dialog EXCEPT ![s].details = [found |-> TRUE, answers |-> d.answers]]
    <2>1. /\ DOMAIN dialog' = Sessions /\ \A t \in Sessions \ {s} : dialog'[t] = dialog[t]
          /\ DOMAIN e = DOMAIN Fresh
          /\ e.command = d.command /\ e.id = d.id /\ e.of = d.of /\ e.replay = d.replay
          /\ e.catalog = d.catalog /\ e.accepted = d.accepted
          /\ e.details = [found |-> TRUE, answers |-> d.answers]
      <3>1. DOMAIN dialog = Sessions /\ DOMAIN d = DOMAIN Fresh
        BY <1>1 DEF Faithful
      <3>2. DOMAIN d = {"command", "id", "of", "replay", "catalog", "asked", "answers", "accepted", "details"}
        BY <3>1 DEF Fresh
      <3>3. e = [d EXCEPT !.details = [found |-> TRUE, answers |-> d.answers]]
        BY <1>1, <1>6, <3>1
      <3> QED
        BY <1>1, <1>6, <3>1, <3>2, <3>3
    <2>2. /\ stage'[s] = "recording" /\ DOMAIN stage' = Sessions
          /\ \A t \in Sessions \ {s} : stage'[t] = stage[t]
      BY <1>6 DEF Goto, Faithful
    <2>3. ActsAlone(s)
      BY <1>1, <1>2, <1>5, <1>6, <2>1, <2>2 DEF ActsAlone, Faithful
    <2>4. Past(d.id, d.command, [found |-> TRUE, answers |-> d.answers])'
      <3>1. \A t \in Sessions : stage'[t] = "asking" => dialog'[t].id # d.id
        BY <1>2, <2>1, <2>2
      <3>2. Complete(d.command, d.answers) /\ ShowsAll(d.answers) /\ d.command \in Commands
        <4>1. d.command \in Commands /\ PipelinesKnown(d.answers)
          BY <1>2 DEF InOrder, AnsweredSoFar
        <4>2. Len(Questions(d.command, d.answers)) \in Nat
          BY <4>1, AskedIsAll
        <4>3. d.asked = Len(Questions(d.command, d.answers))
          BY <1>2, <4>2 DEF InOrder, AnsweredSoFar, HasNext, Script
        <4> QED
          BY <1>2, <4>1, <4>3 DEF InOrder, AnsweredSoFar, Complete
      <3> QED
        BY <1>2, <1>3, <1>5, <3>1, <3>2 DEF Past
    <2>5. Replays(d)' /\ (IsReplay(d)' <=> IsReplay(d)) /\ (d.of # 0 => requests'[d.of] = requests[d.of])
      BY <1>2, <2>3, ReplaysStay
    <2>6. IsReplay(d) => requests'[d.id] = requests'[d.of]
      <3>1. SUFFICES ASSUME IsReplay(d) PROVE requests'[d.id] = requests'[d.of]
        OBVIOUS
      <3>2. /\ d.of # 0 /\ requests[d.of].found
            /\ Past(d.of, d.command, [found |-> TRUE, answers |-> d.replay])
        BY <1>2, <3>1 DEF IsReplay, Replays
      <3>3. Complete(d.command, d.replay) /\ requests[d.of] = Called(d.command, d.replay)
        BY <3>2 DEF Past
      <3>4. call = Called(d.command, d.replay)
        BY <1>2, <1>3, <3>1, <3>3, ACallRepeats
      <3> QED
        BY <1>5, <2>5, <3>2, <3>3, <3>4
    <2>7. AsksAsItDid(s)'
      <3>1. /\ Past(e.id, e.command, e.details)' /\ Replays(e)'
            /\ IsReplay(e)' => requests'[e.id] = requests'[e.of]
        BY <2>1, <2>4, <2>5, <2>6 DEF Replays, IsReplay
      <3> QED
        BY <1>1, <2>2, <3>1 DEF AsksAsItDid
    <2> QED
      BY <1>4, <1>6, <2>3, <2>7, ActingAlone DEF Faithful
  <1>7. CASE End(s, "died")
    <2>1. ActsAlone(s) /\ stage'[s] = "died"
      BY <1>1, <1>2, <1>5, <1>7 DEF End, Goto, ActsAlone, Faithful
    <2>2. IsHistory(mine'[s]) /\ IsHistory(file'.entries)
      BY <1>4, <1>7 DEF End, IsHistory, Faithful
    <2> QED
      BY <1>4, <2>1, <2>2, AtRestNothingIsAsked
  <1> QED
    BY <1>1, <1>6, <1>7 DEF Call

LEMMA FaithfulStep == Faithful /\ [Next]_vars => Faithful'
  <1> SUFFICES ASSUME Faithful, [Next]_vars PROVE Faithful'
    OBVIOUS
  <1>1. ASSUME NEW s \in Sessions, Quit(s) \/ LookUpRaises(s) \/ Kill(s) PROVE Faithful'
    <2>1. PICK how \in Ended : End(s, how) /\ UNCHANGED <<offered, file, requests>>
      BY <1>1 DEF Quit, LookUpRaises, Kill, Ended
    <2> QED
      BY <2>1, EndIsFaithful
  <1>2. CASE EditProject \/ Terminated \/ UNCHANGED vars
    <2>1. UNCHANGED <<stage, mine, dialog, file, requests>> /\ offered' \in Catalogs
      BY <1>2 DEF EditProject, Terminated, vars, Faithful
    <2>2. \A id, command, details : Past(id, command, details)' <=> Past(id, command, details)
      BY <2>1 DEF Past
    <2>3. \A h : IsHistory(h)' <=> IsHistory(h)
      BY <2>2 DEF IsHistory
    <2>4. \A d : (Replays(d)' <=> Replays(d)) /\ (IsReplay(d)' <=> IsReplay(d))
      BY <2>1, <2>2 DEF Replays, IsReplay
    <2> QED
      BY <2>1, <2>2, <2>3, <2>4 DEF Faithful, AsksAsItDid
  <1>3. ASSUME NEW s \in Sessions, Step(s) PROVE Faithful'
    BY <1>1, <1>3, StartIsFaithful, ChooseIsFaithful, PickPastIsFaithful, AcceptIsFaithful,
       TypeIsFaithful, LookUpIsFaithful, AbandonIsFaithful, CallIsFaithful, RecordIsFaithful,
       SaveIsFaithful DEF Step
  <1> QED
    BY <1>2, <1>3 DEF Next

\* A past command picked again, and every question answered by what it shows, calls its use
\* case with what it was called with then, whatever else the project has come to offer: for
\* any project, any limit of the history and any number of sessions beside each other.
THEOREM ReplaysRepeatTheRun == Spec => []AReplayRepeatsTheRun
  <1>1. Faithful => AReplayRepeatsTheRun
    BY DEF Faithful, AsksAsItDid, IsReplay, AReplayRepeatsTheRun
  <1> QED
    BY <1>1, FaithfulInit, FaithfulStep, PTL DEF Spec
=============================================================================
