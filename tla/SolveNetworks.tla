----------------------------- MODULE SolveNetworks -----------------------------
(***************************************************************************)
(* `solve` on PyPSA networks: SolveNetworkUsingPort                        *)
(* (interop/core/use_cases/solve_network.py) over HighsNetworkSolver       *)
(* (interop/adapters/outbound/highs_network_solver.py).                    *)
(*                                                                         *)
(* Each network's range of days is cut into windows; each window is solved *)
(* past its own end, by a look-ahead the next window solves again, and     *)
(* only its own snapshots are to be reported, costed and left with         *)
(* results.  An ensemble goes on past a network whose own data defeats it. *)
(*                                                                         *)
(* Days are counted from 1.  Windows start and end with days, so a         *)
(* snapshot is here the day it lies in.  What the optimiser and the        *)
(* netCDF files do is external: each call may answer or raise.             *)
(***************************************************************************)
EXTENDS Integers, Sequences, FiniteSets

CONSTANTS
  Requests,      (* what solve is called with                                     *)
  Days,          (* network -> the days of its snapshots, in the order of the file *)
  LastDate,      (* the calendar is 1..LastDate                                   *)
  MonthEnd,      (* day -> the last day of its month                              *)
  YearEnd,       (* day -> 31 December of its year                                *)
  Absent         (* a date not given                                              *)

Calendar == 1..LastDate

ASSUME CalendarAssumption ==
  /\ LastDate \in Nat \ {0} /\ Absent \notin Int
  /\ MonthEnd \in [Calendar -> Int] /\ \A d \in Calendar : MonthEnd[d] >= d
  /\ YearEnd \in [Calendar -> Int] /\ \A d \in Calendar : YearEnd[d] >= d

WindowLengths == {"day", "week", "month", "year"}

ASSUME NetworksAssumption ==
  \A n \in DOMAIN Days : Days[n] \in Seq(Calendar)

ASSUME RequestsAssumption ==
  \A r \in Requests :
    /\ r.networks \in Seq(DOMAIN Days)
    /\ \A j, k \in DOMAIN r.networks : r.networks[j] = r.networks[k] => j = k
    /\ r.start \in Calendar \union {Absent} /\ r.end \in Calendar \union {Absent}
    /\ r.length \in WindowLengths /\ r.look_ahead \in Int

VARIABLES
  request,      (* the call; never changes                                      *)
  stage,        (* what is called next                                          *)
  failure,      (* what solve raised, or "nothing"                              *)
  position,     (* of the network being solved                                  *)
  range,        (* its first and last day                                       *)
  cursor,       (* first day no window holds yet                                *)
  windows,      (* [from, to, keep]: solved from..to, reported from..keep       *)
  window,       (* the one solved next                                          *)
  results,      (* snapshot -> the window its results come from                 *)
  conditions,   (* window solved -> the condition it ended in                   *)
  reported,     (* snapshot -> times in reported_snapshots                      *)
  costed,       (* snapshot -> times in the objective                           *)
  files,        (* <directory, network> -> what the file holds                  *)
  outcomes,     (* the status of each network so far, as the set of its parts   *)
  status        (* the status of the whole run, likewise                        *)

windowVars  == <<range, cursor, windows>>
networkVars == <<window, results, conditions, reported, costed>>
resultVars  == <<files, outcomes, status>>
vars == <<request, stage, failure, position, windowVars, networkVars, resultVars>>

Stages     == {"request", "bounds", "windows", "solve", "combine", "done"}
Conditions == {"optimal", "infeasible", "time_limit"}

\* Results a snapshot holds that come from no window of this run.
FromFile == 0
Zeroed   == -1

Name       == request.networks[position]
Snapshots  == DOMAIN Days[Name]
InputPath(n)  == <<request.directory, n>>
OutputPath(n) == <<request.output, n>>

\* What an input file holds, for as long as nothing is written over it.
Original == [by |-> "user"]

MinOf(a, b) == IF a <= b THEN a ELSE b

(* --------------------------------- windows ------------------------------ *)

IsGiven(date) == date # Absent

\* A range with an open end is resolved against the network's own file.
ReadsBounds == ~ (IsGiven(request.start) /\ IsGiven(request.end))

BoundsOf(n) ==
  [start |-> IF IsGiven(request.start) THEN request.start ELSE Days[n][1],
   end   |-> IF IsGiven(request.end) THEN request.end ELSE Days[n][Len(Days[n])]]

LastDayOfWindow(day, length) ==
  CASE length = "day"   -> day
    [] length = "week"  -> day + 6
    [] length = "month" -> MonthEnd[day]
    [] length = "year"  -> YearEnd[day]

\* The window that starts on a day of the range.
WindowFrom(day) ==
  LET stop == MinOf(LastDayOfWindow(day, request.length), range.end)
  IN  [from |-> day, to |-> stop + request.look_ahead, keep |-> stop]

SnapshotsBetween(from, to) == {i \in Snapshots : from <= Days[Name][i] /\ Days[Name][i] <= to}

Reported == SnapshotsBetween(windows[window].from, windows[window].keep)
Solving  == SnapshotsBetween(windows[window].from, windows[window].to)

(* -------------------------------- the call ------------------------------ *)

Init ==
  /\ request \in Requests
  /\ stage = "request" /\ failure = "nothing" /\ position = 1
  /\ range = [start |-> 1, end |-> 0] /\ cursor = 1 /\ windows = << >>
  /\ window = 1
  /\ results = << >> /\ conditions = << >> /\ reported = << >> /\ costed = << >>
  /\ files = [path \in {InputPath(n) : n \in DOMAIN Days} |-> Original]
  /\ outcomes = << >> /\ status = {}

IsBadRequest ==
  \/ request.look_ahead < 0
  \/ IsGiven(request.start) /\ IsGiven(request.end) /\ request.start > request.end
  \/ request.networks = << >>

StartSolving ==
  /\ stage = "request"
  /\ ~ IsBadRequest
  /\ stage' = "bounds"
  /\ UNCHANGED <<request, failure, position, windowVars, networkVars, resultVars>>

RejectBadRequest ==
  /\ stage = "request"
  /\ IsBadRequest
  /\ stage' = "done" /\ failure' = "bad request"
  /\ UNCHANGED <<request, position, windowVars, networkVars, resultVars>>

(* ------------------------------ one network ----------------------------- *)

ResolveBounds ==
  /\ stage = "bounds"
  /\ ReadsBounds => Days[Name] # << >>
  /\ range' = BoundsOf(Name) /\ cursor' = range'.start /\ windows' = << >>
  /\ stage' = "windows"
  /\ UNCHANGED <<request, failure, position, networkVars, resultVars>>

\* solve_windows, one turn of its loop at a time.
CutWindow ==
  /\ stage = "windows"
  /\ cursor <= range.end
  /\ windows' = Append(windows, WindowFrom(cursor))
  /\ cursor' = windows'[Len(windows')].keep + 1
  /\ UNCHANGED <<request, stage, failure, position, range, networkVars, resultVars>>

\* The network as its file holds it.
LoadNetwork ==
  /\ stage = "windows"
  /\ cursor > range.end
  /\ window' = 1
  /\ results' = [i \in Snapshots |-> FromFile]
  /\ conditions' = << >>
  /\ reported' = [i \in Snapshots |-> 0]
  /\ costed' = [i \in Snapshots |-> 0]
  /\ stage' = "solve"
  /\ UNCHANGED <<request, failure, position, windowVars, resultVars>>

\* A window with no snapshots of its own is skipped, whatever its look-ahead holds.
SkipWindow ==
  /\ stage = "solve"
  /\ window <= Len(windows)
  /\ Reported = {}
  /\ window' = window + 1
  /\ UNCHANGED <<request, stage, failure, position, windowVars, results, conditions, reported,
                 costed, resultVars>>

\* network.optimize: only what was solved holds results, an answer cut short included.
Optimised(condition) ==
  [i \in Snapshots |->
     IF i \in Solving /\ condition # "infeasible" THEN window ELSE results[i]]

Counted(count, snapshots) == [i \in Snapshots |-> count[i] + IF i \in snapshots THEN 1 ELSE 0]

\* What is reported of a window: all of it that was solved.
ReportSolved == Counted(reported, Solving)

ReportWindow == Counted(reported, Reported)

\* network.objective, the cost of the whole solved window.
ObjectiveOfSolved(condition) ==
  IF condition = "optimal" THEN Counted(costed, Solving) ELSE costed

\* A window that did not solve has no dispatch to cost.
CostWindow(condition) ==
  IF condition = "optimal" THEN Counted(costed, Reported) ELSE costed

\* The look-ahead taken to begin with the last day reported.
DiscardLastDay(solution) ==
  [i \in Snapshots |->
     IF i \in Solving /\ Days[Name][i] >= windows[window].keep THEN Zeroed ELSE solution[i]]

DiscardLookAhead(solution) ==
  [i \in Snapshots |->
     IF i \in Solving /\ Days[Name][i] > windows[window].keep THEN Zeroed ELSE solution[i]]

SolveWindow ==
  /\ stage = "solve"
  /\ window <= Len(windows)
  /\ Reported # {}
  /\ \E condition \in Conditions :
       /\ conditions' = [w \in DOMAIN conditions \union {window} |->
                           IF w = window THEN condition ELSE conditions[w]]
       /\ costed' = CostWindow(condition)
       /\ results' = DiscardLookAhead(Optimised(condition))
  /\ reported' = ReportWindow
  /\ window' = window + 1
  /\ UNCHANGED <<request, stage, failure, position, windowVars, resultVars>>

\* The next network, forgetting that there may be none.
GoOnWithoutEnd(parts) ==
  /\ outcomes' = Append(outcomes, parts)
  /\ position' = position + 1
  /\ stage' = "bounds"
  /\ UNCHANGED <<request, failure, windowVars, networkVars, status>>

\* The network's outcome is known: on to the next one, or to the whole.
GoOn(parts) ==
  /\ outcomes' = Append(outcomes, parts)
  /\ IF position < Len(request.networks)
       THEN position' = position + 1 /\ stage' = "bounds"
       ELSE stage' = "combine" /\ UNCHANGED position
  /\ UNCHANGED <<request, failure, windowVars, networkVars, status>>

WindowsAreSolved == stage = "solve" /\ window > Len(windows)

NothingSolved ==
  /\ WindowsAreSolved
  /\ DOMAIN conditions = {}
  /\ GoOn({"no snapshots in range"})
  /\ UNCHANGED files

\* What a file holds; written by a solve that was cut off, only part of it.
Written(path, content) ==
  [p \in DOMAIN files \union {path} |-> IF p = path THEN content ELSE files[p]]

ExportNetwork ==
  /\ WindowsAreSolved
  /\ DOMAIN conditions # {}
  /\ files' = Written(OutputPath(Name),
                [by |-> "solve", results |-> results, reported |-> reported, costed |-> costed,
                 conditions |-> conditions])
  /\ GoOn({conditions[w] : w \in DOMAIN conditions})

\* Where this network's own file is read, solved or written.
IsAtTheNetwork ==
  \/ stage = "bounds" /\ ReadsBounds
  \/ stage = "windows" /\ cursor > range.end
  \/ stage = "solve"

IsExporting == WindowsAreSolved /\ DOMAIN conditions # {}

\* A network its own data defeats ends the whole run.
NetworkFailsTheRun ==
  /\ IsAtTheNetwork
  /\ stage' = "done" /\ failure' = "network"
  /\ UNCHANGED <<request, position, windowVars, networkVars, resultVars>>

\* What a call that raises leaves of the output: nothing, or part of what was being written.
IsCutShort ==
  \/ UNCHANGED files
  \/ IsExporting /\ files' = Written(OutputPath(Name), [by |-> "half a solve"])

\* A network its own data defeats is a failed outcome.
NetworkFails ==
  /\ IsAtTheNetwork
  /\ IsCutShort
  /\ GoOn({"failed"})

\* Any other exception is a defect of this code and ends the run.
RaiseDefect ==
  /\ IsAtTheNetwork
  /\ IsCutShort
  /\ stage' = "done" /\ failure' = "defect"
  /\ UNCHANGED <<request, position, windowVars, networkVars, outcomes, status>>

(* ------------------------------- the whole ------------------------------ *)

\* The status of the networks that could be solved.
CombineSolvedOnly == (UNION {outcomes[i] : i \in DOMAIN outcomes}) \ {"failed"}

Combined == UNION {outcomes[i] : i \in DOMAIN outcomes}

CombineOutcomes ==
  /\ stage = "combine"
  /\ status' = Combined
  /\ stage' = "done"
  /\ UNCHANGED <<request, failure, position, windowVars, networkVars, files, outcomes>>

Step ==
  \/ StartSolving \/ RejectBadRequest
  \/ ResolveBounds \/ CutWindow \/ LoadNetwork \/ SkipWindow \/ SolveWindow
  \/ NothingSolved \/ ExportNetwork \/ NetworkFails \/ RaiseDefect \/ CombineOutcomes

\* A call that has returned stays as it is.
Terminated == stage = "done" /\ UNCHANGED vars

Next == Step \/ Terminated

Spec == Init /\ [][Next]_vars

(* ------------------------------- properties ----------------------------- *)

CallTypeOK ==
  /\ request \in Requests
  /\ stage \in Stages
  /\ failure \in {"nothing", "bad request", "network", "defect"}
  /\ stage \in {"bounds", "windows", "solve", "combine"} => position \in DOMAIN request.networks

WindowTypeOK ==
  /\ range \in [start : Calendar, end : Int]
  /\ cursor \in Int
  /\ windows \in Seq([from : Calendar, to : Int, keep : Int])

NetworkTypeOK ==
  /\ window \in Nat \ {0}
  /\ stage = "solve" =>
       /\ results \in [Snapshots -> Int]
       /\ reported \in [Snapshots -> Nat] /\ costed \in [Snapshots -> Nat]
       /\ window <= Len(windows) + 1
       /\ DOMAIN conditions \subseteq 1..(window - 1)
       /\ \A w \in DOMAIN conditions : conditions[w] \in Conditions

\* Type correctness of the state, and that there is a network wherever one is being solved.
TypeOK == CallTypeOK /\ WindowTypeOK /\ NetworkTypeOK

\* The windows of a network lie end to end over its range and nothing else, each within
\* one day, week, month or year, and each is solved exactly the look-ahead further
\* (solve_windows): no day of the range is in two windows or in none.
WindowsTileTheRange ==
  stage \in {"windows", "solve"} =>
    /\ \A w \in DOMAIN windows :
         /\ windows[w].from = IF w = 1 THEN range.start ELSE windows[w - 1].keep + 1
         /\ windows[w].from <= windows[w].keep
         /\ windows[w].keep <= MinOf(LastDayOfWindow(windows[w].from, request.length), range.end)
         /\ windows[w].to = windows[w].keep + request.look_ahead
    /\ cursor = IF windows = << >> THEN range.start ELSE windows[Len(windows)].keep + 1
    /\ stage = "solve" /\ windows # << >> => windows[Len(windows)].keep = range.end
    /\ stage = "solve" /\ windows = << >> => range.start > range.end

InWindow(i, w) == windows[w].from <= Days[Name][i] /\ Days[Name][i] <= windows[w].keep

\* The windows solved so far.
Past == 1..(window - 1)

\* A snapshot of a window the optimiser found no solution for.
IsUnsolved(i) == \E w \in DOMAIN conditions : InWindow(i, w) /\ conditions[w] = "infeasible"

\* A genuine result: what the snapshot holds was found by the window that is to report it.
IsGenuine(i) == \E w \in Past : InWindow(i, w) /\ results[i] = w

\* "which snapshots are genuine results, as opposed to a zeroed-out look-ahead"
\* (_record_reported_snapshots): reported_snapshots lists a snapshot once if its result is
\* genuine and not at all if it is not, and so in the end each snapshot of the range once: none
\* of a look-ahead, none twice where the look-ahead of one window overlaps the next.  Of the
\* snapshots of an infeasible window it says nothing: the code lists those too, before it
\* looks at the condition, though they hold no result or the zeros of a look-ahead.
EveryHourIsReportedOnce ==
  stage = "solve" =>
    \A i \in Snapshots : ~ IsUnsolved(i) =>
      /\ reported[i] = IF IsGenuine(i) THEN 1 ELSE 0
      /\ window > Len(windows) =>
           reported[i] = IF range.start <= Days[Name][i] /\ Days[Name][i] <= range.end
                           THEN 1 ELSE 0

\* "Recomputed per snapshot from the now-solved dispatch instead, so only the reported
\* snapshots are counted": the objective holds each reported snapshot of a window solved to
\* optimality once, and nothing of a look-ahead or of a window that was not.
EveryHourIsCostedOnce ==
  stage = "solve" =>
    \A i \in Snapshots :
      costed[i] = IF \E w \in DOMAIN conditions : InWindow(i, w) /\ conditions[w] = "optimal"
                    THEN 1 ELSE 0

\* A snapshot reported by a window that was solved keeps that window's results, whatever
\* the windows before it left there as look-ahead and the windows after it discard.
ReportedHoursKeepTheirOwnWindow ==
  stage = "solve" =>
    \A w \in DOMAIN conditions : \A i \in Snapshots :
      InWindow(i, w) /\ conditions[w] # "infeasible" => results[i] = w

\* "Results after `keep_to` come from the look-ahead and are discarded once solved": in the
\* network at hand and in every file written, what holds the results of a window is listed
\* as reported.
NothingOfALookAheadSurvives ==
  /\ stage = "solve" => \A i \in Snapshots : results[i] > 0 => reported[i] > 0
  /\ \A p \in DOMAIN files : files[p].by = "solve" =>
       \A i \in DOMAIN files[p].results : files[p].results[i] > 0 => files[p].reported[i] > 0

\* Whether the file a network was solved into covers the range asked for, every snapshot
\* in it with results and counted in the cost.
IsSolved(n) ==
  LET path == OutputPath(n)
      file == files[path]
      InRange(i) == BoundsOf(n).start <= Days[n][i] /\ Days[n][i] <= BoundsOf(n).end
  IN  /\ path \in DOMAIN files
      /\ file.by = "solve"
      /\ \A i \in DOMAIN Days[n] :
           IF InRange(i) THEN file.results[i] > 0 /\ file.reported[i] = 1 /\ file.costed[i] = 1
                         ELSE file.results[i] <= 0 /\ file.reported[i] = 0 /\ file.costed[i] = 0

\* "optimal only if every one was": a run whose status is optimal has written, for every
\* network of the ensemble, a file that holds its whole range and nothing more.
OptimalMeansSolved ==
  stage = "done" /\ status = {"optimal"} =>
    failure = "nothing" /\ \A i \in DOMAIN request.networks : IsSolved(request.networks[i])

\* A network its own data defeats is reported and the run goes on to the next: a run that
\* returns has an outcome for every network, and only a bad request or a defect of this
\* code makes it raise.
EveryNetworkHasAnOutcome ==
  /\ failure \in {"nothing", "bad request", "defect"}
  /\ stage = "done" /\ failure = "nothing" => Len(outcomes) = Len(request.networks)

=============================================================================
