-------------------------- MODULE SolveNetworksProofs --------------------------
(***************************************************************************)
(* Theorems about SolveNetworks, for every calendar, every network, every  *)
(* request and whatever the optimiser answers.                             *)
(***************************************************************************)
EXTENDS SolveNetworks, TLAPS

(* ------------------------ the inductive invariant ----------------------- *)

HasARange == stage \in {"windows", "solve"}

\* A network is only opened for a request that was accepted, and its range is the one
\* asked for, resolved against its own file.
RangeIsResolved ==
  /\ stage \in {"bounds", "windows", "solve"} => request.look_ahead >= 0
  /\ HasARange => range = BoundsOf(Name) /\ range.end \in Calendar

\* The windows cut so far hold each day of the range before the cursor, in one window each.
WindowsPartition ==
  HasARange =>
    /\ cursor >= range.start
    /\ \A w \in DOMAIN windows :
         range.start <= windows[w].from /\ windows[w].keep < cursor
    /\ \A v, w \in DOMAIN windows : v < w => windows[v].keep < windows[w].from
    /\ \A d \in Int : range.start <= d /\ d < cursor =>
         \E w \in DOMAIN windows : windows[w].from <= d /\ d <= windows[w].keep

\* The loop over the windows begins once the range is cut up, and skips only a window
\* without snapshots.
WindowsAreVisited ==
  stage = "solve" =>
    /\ cursor > range.end
    /\ \A w \in Past : w \notin DOMAIN conditions => \A i \in Snapshots : ~ InWindow(i, w)

\* A snapshot is in reported_snapshots once if a window done reports it, and otherwise not.
WindowsReport ==
  stage = "solve" =>
    \A i \in Snapshots : reported[i] = IF \E w \in Past : InWindow(i, w) THEN 1 ELSE 0

\* What holds results of a window of this run is reported: in the network at hand, and in
\* each file written.
NetworkHoldsNoLookAhead ==
  stage = "solve" => \A i \in Snapshots : results[i] > 0 => reported[i] > 0

FilesHoldNoLookAhead ==
  \A p \in DOMAIN files : files[p].by = "solve" =>
    \A i \in DOMAIN files[p].results : files[p].results[i] > 0 => files[p].reported[i] > 0

\* What an outcome may be made of.
OutcomeParts == SUBSET (Conditions \union {"failed", "no snapshots in range"})

\* A network is at hand for as long as an outcome is missing.
OutcomesKeepUp ==
  /\ outcomes \in Seq(OutcomeParts)
  /\ \A k \in DOMAIN outcomes : outcomes[k] # {}
  /\ stage = "request" => outcomes = << >> /\ position = 1
  /\ stage \in {"bounds", "windows", "solve"} => Len(outcomes) = position - 1
  /\ stage = "combine" => Len(outcomes) = Len(request.networks)
  /\ stage # "done" => status = {} /\ failure = "nothing"

\* A network whose outcome is optimal is solved, and no later network touches its file.
OptimalOutcomesAreSolved ==
  \A k \in DOMAIN outcomes :
    outcomes[k] = {"optimal"} => k \in DOMAIN request.networks /\ IsSolved(request.networks[k])

IInv ==
  /\ TypeOK
  /\ RangeIsResolved
  /\ WindowsTileTheRange
  /\ WindowsPartition
  /\ WindowsAreVisited
  /\ WindowsReport
  /\ EveryHourIsCostedOnce
  /\ ReportedHoursKeepTheirOwnWindow
  /\ NetworkHoldsNoLookAhead
  /\ FilesHoldNoLookAhead
  /\ OutcomesKeepUp
  /\ EveryNetworkHasAnOutcome
  /\ OptimalOutcomesAreSolved
  /\ OptimalMeansSolved

(* ------------------------------- operators ------------------------------ *)

\* A window reaches its own first day at least.
LEMMA WindowHoldsItsFirstDay ==
  ASSUME NEW day \in Calendar, NEW length \in WindowLengths
  PROVE  LastDayOfWindow(day, length) \in Int /\ LastDayOfWindow(day, length) >= day
  <1>1. CASE length = "day"
    BY <1>1 DEF LastDayOfWindow, Calendar
  <1>2. CASE length = "week"
    BY <1>2 DEF LastDayOfWindow, Calendar
  <1>3. CASE length = "month"
    BY <1>3, CalendarAssumption DEF LastDayOfWindow
  <1>4. CASE length = "year"
    BY <1>4, CalendarAssumption DEF LastDayOfWindow
  <1> QED
    BY <1>1, <1>2, <1>3, <1>4 DEF WindowLengths

\* The network at hand is one there is.
LEMMA ThereIsANetwork ==
  ASSUME CallTypeOK, stage \in {"bounds", "windows", "solve"}
  PROVE  /\ Name \in DOMAIN Days
         /\ Days[Name] \in Seq(Calendar)
         /\ Snapshots = 1..Len(Days[Name])
         /\ \A i \in Snapshots : Days[Name][i] \in Calendar
  <1>1. position \in DOMAIN request.networks /\ request.networks \in Seq(DOMAIN Days)
    BY RequestsAssumption DEF CallTypeOK
  <1>2. Name \in DOMAIN Days
    BY <1>1 DEF Name
  <1>3. Days[Name] \in Seq(Calendar)
    BY <1>2, NetworksAssumption
  <1> QED
    BY <1>2, <1>3 DEF Snapshots

\* A window begins where it is cut, holds that day, ends with the range at the latest and is
\* solved past its end by the look-ahead.
LEMMA WindowIsCut ==
  ASSUME CallTypeOK, WindowTypeOK, cursor \in Calendar, cursor <= range.end
  PROVE  /\ WindowFrom(cursor) \in [from : Calendar, to : Int, keep : Int]
         /\ WindowFrom(cursor).from = cursor
         /\ cursor <= WindowFrom(cursor).keep
         /\ WindowFrom(cursor).keep <= range.end
         /\ WindowFrom(cursor).keep
              <= MinOf(LastDayOfWindow(WindowFrom(cursor).from, request.length), range.end)
         /\ WindowFrom(cursor).to = WindowFrom(cursor).keep + request.look_ahead
  <1> DEFINE last == LastDayOfWindow(cursor, request.length)
             stop == MinOf(last, range.end)
  <1>1. request.length \in WindowLengths /\ request.look_ahead \in Int
    BY RequestsAssumption DEF CallTypeOK
  <1>2. last \in Int /\ last >= cursor
    BY <1>1, WindowHoldsItsFirstDay
  <1>3. range.end \in Int /\ cursor \in Int
    BY DEF WindowTypeOK
  <1>4. stop \in Int /\ cursor <= stop /\ stop <= range.end
    BY <1>2, <1>3 DEF MinOf
  <1>5. WindowFrom(cursor) = [from |-> cursor, to |-> stop + request.look_ahead, keep |-> stop]
    BY DEF WindowFrom
  <1> HIDE DEF last
  <1>6. stop <= MinOf(last, range.end)
    BY <1>4
  <1> HIDE DEF stop
  <1> QED
    BY <1>1, <1>3, <1>4, <1>5, <1>6 DEF last

(* ---------------------------- type correctness -------------------------- *)

LEMMA InitTypeOK == Init => TypeOK
  BY CalendarAssumption DEF Init, TypeOK, CallTypeOK, WindowTypeOK, NetworkTypeOK, Stages, Calendar

\* An outcome is known of a network that is at hand.
LEMMA GoOnTypes ==
  ASSUME CallTypeOK, NEW parts, GoOn(parts), stage \in {"bounds", "windows", "solve"}
  PROVE  /\ CallTypeOK' /\ stage' \in {"bounds", "combine"}
         /\ UNCHANGED <<request, failure, range, cursor, windows, window>>
  <1>1. request.networks \in Seq(DOMAIN Days)
    BY RequestsAssumption DEF CallTypeOK
  <1>2. DOMAIN request.networks = 1..Len(request.networks) /\ Len(request.networks) \in Nat
    BY <1>1
  <1>3. position \in 1..Len(request.networks)
    BY <1>2 DEF CallTypeOK
  <1>4. CASE position < Len(request.networks)
    <2>1. position + 1 \in DOMAIN request.networks
      BY <1>2, <1>3, <1>4
    <2> QED
      BY <1>4, <2>1 DEF GoOn, CallTypeOK, Stages, windowVars, networkVars
  <1>5. CASE ~ (position < Len(request.networks))
    BY <1>2, <1>3, <1>5 DEF GoOn, CallTypeOK, Stages, windowVars, networkVars
  <1> QED
    BY <1>4, <1>5

\* The ways for an outcome to be known.
LEMMA Outcomes ==
  ASSUME NothingSolved \/ ExportNetwork \/ NetworkFails
  PROVE  \E parts : GoOn(parts) /\ stage \in {"bounds", "windows", "solve"}
  BY DEF NothingSolved, ExportNetwork, NetworkFails, WindowsAreSolved, IsAtTheNetwork

LEMMA StepCallTypeOK ==
  ASSUME CallTypeOK, OutcomesKeepUp, Step
  PROVE  CallTypeOK'
  <1>1. CASE StartSolving
    <2>1. request.networks \in Seq(DOMAIN Days) /\ request.networks # << >>
      BY <1>1, RequestsAssumption DEF StartSolving, IsBadRequest, CallTypeOK
    <2>2. 1 \in DOMAIN request.networks
      BY <2>1
    <2>3. position = 1
      BY <1>1 DEF StartSolving, OutcomesKeepUp
    <2> QED
      BY <1>1, <2>2, <2>3 DEF StartSolving, CallTypeOK, Stages
  <1>2. CASE RejectBadRequest \/ ResolveBounds \/ CutWindow \/ LoadNetwork \/ SkipWindow
               \/ SolveWindow \/ RaiseDefect \/ CombineOutcomes
    BY <1>2 DEF RejectBadRequest, ResolveBounds, CutWindow, LoadNetwork, SkipWindow, SolveWindow,
                RaiseDefect, CombineOutcomes, CallTypeOK, Stages
  <1>3. CASE NothingSolved \/ ExportNetwork \/ NetworkFails
    BY <1>3, Outcomes, GoOnTypes
  <1> QED
    BY <1>1, <1>2, <1>3 DEF Step

\* The range of a network, and where the next window starts.
LEMMA CursorIsADay ==
  ASSUME WindowTypeOK, RangeIsResolved, WindowsPartition, stage = "windows", cursor <= range.end
  PROVE  cursor \in Calendar
  <1>1. range.start \in Calendar /\ range.end \in Calendar /\ cursor >= range.start
    BY DEF WindowTypeOK, RangeIsResolved, WindowsPartition, HasARange
  <1> QED
    BY <1>1, CalendarAssumption DEF WindowTypeOK, Calendar

LEMMA RangeOfANetwork ==
  ASSUME CallTypeOK, ResolveBounds
  PROVE  BoundsOf(Name) \in [start : Calendar, end : Calendar]
  <1>1. Days[Name] \in Seq(Calendar)
    BY ThereIsANetwork DEF ResolveBounds
  <1>2. request.start \in Calendar \union {Absent} /\ request.end \in Calendar \union {Absent}
    BY RequestsAssumption DEF CallTypeOK
  <1>3. ~ (IsGiven(request.start) /\ IsGiven(request.end)) =>
          Days[Name][1] \in Calendar /\ Days[Name][Len(Days[Name])] \in Calendar
    BY <1>1 DEF ResolveBounds, ReadsBounds
  <1> QED
    BY <1>2, <1>3 DEF BoundsOf, IsGiven

LEMMA CutWindowKeepsTypes ==
  ASSUME CallTypeOK, WindowTypeOK, RangeIsResolved, WindowsPartition, CutWindow
  PROVE  /\ windows' = Append(windows, WindowFrom(cursor))
         /\ WindowFrom(cursor) \in [from : Calendar, to : Int, keep : Int]
         /\ windows' \in Seq([from : Calendar, to : Int, keep : Int])
         /\ Len(windows') = Len(windows) + 1
         /\ \A w \in DOMAIN windows : windows'[w] = windows[w]
         /\ windows'[Len(windows')] = WindowFrom(cursor)
         /\ cursor' = WindowFrom(cursor).keep + 1 /\ cursor' \in Int
  <1> DEFINE Window == [from : Calendar, to : Int, keep : Int]
             next == WindowFrom(cursor)
  <1>1. next \in Window
    BY WindowIsCut, CursorIsADay DEF CutWindow
  <1>2. windows \in Seq(Window) /\ windows' = Append(windows, next)
           /\ cursor' = windows'[Len(windows')].keep + 1
    BY DEF WindowTypeOK, CutWindow
  <1>3. next.keep \in Int
    BY <1>1
  <1> HIDE DEF Window, next
  <1>4. /\ windows' \in Seq(Window)
        /\ Len(windows') = Len(windows) + 1
        /\ \A w \in DOMAIN windows : windows'[w] = windows[w]
        /\ windows'[Len(windows')] = next
    BY <1>1, <1>2
  <1>5. cursor' = next.keep + 1
    BY <1>2, <1>4
  <1> QED
    BY <1>1, <1>2, <1>3, <1>4, <1>5 DEF Window, next

LEMMA StepWindowTypeOK ==
  ASSUME CallTypeOK, WindowTypeOK, RangeIsResolved, WindowsPartition, Step
  PROVE  WindowTypeOK'
  <1>1. CASE ResolveBounds
    <2>1. BoundsOf(Name) \in [start : Calendar, end : Calendar]
      BY <1>1, RangeOfANetwork
    <2>2. BoundsOf(Name) \in [start : Calendar, end : Int] /\ BoundsOf(Name).start \in Int
      BY <2>1 DEF Calendar
    <2>3. range' = BoundsOf(Name) /\ cursor' = BoundsOf(Name).start /\ windows' = << >>
      BY <1>1 DEF ResolveBounds
    <2> QED
      BY <2>2, <2>3 DEF WindowTypeOK
  <1>2. CASE CutWindow
    <2>1. range' = range
      BY <1>2 DEF CutWindow
    <2> QED
      BY <1>2, <2>1, CutWindowKeepsTypes DEF WindowTypeOK
  <1>3. CASE NothingSolved \/ ExportNetwork \/ NetworkFails
    BY <1>3, Outcomes, GoOnTypes DEF WindowTypeOK
  <1>4. CASE StartSolving \/ RejectBadRequest \/ LoadNetwork \/ SkipWindow \/ SolveWindow
               \/ RaiseDefect \/ CombineOutcomes
    BY <1>4 DEF StartSolving, RejectBadRequest, LoadNetwork, SkipWindow, SolveWindow,
                RaiseDefect, CombineOutcomes, WindowTypeOK, windowVars
  <1> QED
    BY <1>1, <1>2, <1>3, <1>4 DEF Step

\* What a window solved does to the snapshots of the network.
LEMMA SolveWindowIsAStep ==
  ASSUME CallTypeOK, NetworkTypeOK, SolveWindow
  PROVE  /\ stage = "solve" /\ stage' = "solve" /\ window' = window + 1
         /\ UNCHANGED <<request, position, windows>> /\ Snapshots' = Snapshots
         /\ window <= Len(windows)
         /\ \E condition \in Conditions :
              /\ DOMAIN conditions' = DOMAIN conditions \union {window}
              /\ conditions'[window] = condition
              /\ \A w \in DOMAIN conditions \ {window} : conditions'[w] = conditions[w]
              /\ costed' = CostWindow(condition)
              /\ results' = DiscardLookAhead(Optimised(condition))
         /\ reported' = ReportWindow
  BY DEF SolveWindow, Snapshots, Name, windowVars

LEMMA StepNetworkTypeOK ==
  ASSUME TypeOK, Step
  PROVE  NetworkTypeOK'
  <1> USE DEF TypeOK
  <1>1. CASE LoadNetwork
    <2>1. Snapshots' = Snapshots /\ windows' = windows
      BY <1>1 DEF LoadNetwork, Snapshots, Name, windowVars
    <2>2. Len(windows) \in Nat
      BY DEF WindowTypeOK
    <2>3. DOMAIN conditions' = {}
      BY <1>1 DEF LoadNetwork
    <2> QED
      BY <1>1, <2>1, <2>2, <2>3 DEF LoadNetwork, NetworkTypeOK, FromFile
  <1>2. CASE SkipWindow
    <2>1. Snapshots' = Snapshots /\ windows' = windows
      BY <1>2 DEF SkipWindow, Snapshots, Name, windowVars
    <2>2. Len(windows) \in Nat
      BY DEF WindowTypeOK
    <2> QED
      BY <1>2, <2>1, <2>2 DEF SkipWindow, NetworkTypeOK
  <1>3. CASE SolveWindow
    <2>1. PICK condition \in Conditions :
              /\ DOMAIN conditions' = DOMAIN conditions \union {window}
              /\ conditions'[window] = condition
              /\ \A w \in DOMAIN conditions \ {window} : conditions'[w] = conditions[w]
              /\ costed' = CostWindow(condition)
              /\ results' = DiscardLookAhead(Optimised(condition))
      BY <1>3, SolveWindowIsAStep
    <2>2. /\ stage = "solve" /\ window' = window + 1 /\ windows' = windows
          /\ Snapshots' = Snapshots /\ window <= Len(windows) /\ reported' = ReportWindow
      BY <1>3, SolveWindowIsAStep
    <2>3. /\ window \in Nat \ {0} /\ Len(windows) \in Nat
          /\ results \in [Snapshots -> Int]
          /\ reported \in [Snapshots -> Nat] /\ costed \in [Snapshots -> Nat]
      BY <2>2 DEF NetworkTypeOK, WindowTypeOK
    <2>4. \A s : \A count \in [Snapshots -> Nat] : Counted(count, s) \in [Snapshots -> Nat]
      BY DEF Counted
    <2>5. reported' \in [Snapshots -> Nat] /\ costed' \in [Snapshots -> Nat]
      BY <2>1, <2>2, <2>3, <2>4 DEF ReportWindow, CostWindow
    <2>6. results' \in [Snapshots -> Int]
      BY <2>1, <2>3 DEF DiscardLookAhead, Optimised, Zeroed
    <2>7. /\ DOMAIN conditions' \subseteq 1..(window' - 1)
          /\ \A w \in DOMAIN conditions' : conditions'[w] \in Conditions
      BY <2>1, <2>2, <2>3 DEF NetworkTypeOK
    <2> QED
      BY <2>2, <2>3, <2>5, <2>6, <2>7 DEF NetworkTypeOK
  <1>4. CASE NothingSolved \/ ExportNetwork \/ NetworkFails
    BY <1>4, Outcomes, GoOnTypes DEF NetworkTypeOK
  <1>5. CASE StartSolving \/ RejectBadRequest \/ ResolveBounds \/ CutWindow \/ RaiseDefect
               \/ CombineOutcomes
    BY <1>5 DEF StartSolving, RejectBadRequest, ResolveBounds, CutWindow, RaiseDefect,
                CombineOutcomes, NetworkTypeOK, networkVars
  <1> QED
    BY <1>1, <1>2, <1>3, <1>4, <1>5 DEF Step

LEMMA StepTypeOK ==
  ASSUME TypeOK, RangeIsResolved, WindowsPartition, OutcomesKeepUp, Step
  PROVE  TypeOK'
  BY StepCallTypeOK, StepWindowTypeOK, StepNetworkTypeOK DEF TypeOK

(* ------------------------- the windows of a network --------------------- *)

LEMMA StepRangeIsResolved ==
  ASSUME TypeOK, RangeIsResolved, Step
  PROVE  RangeIsResolved'
  <1> USE DEF RangeIsResolved, HasARange
  <1>1. CASE StartSolving
    <2>1. request.look_ahead \in Int
      BY RequestsAssumption DEF TypeOK, CallTypeOK
    <2> QED
      BY <1>1, <2>1 DEF StartSolving, IsBadRequest
  <1>2. CASE ResolveBounds
    <2>1. BoundsOf(Name) \in [start : Calendar, end : Calendar]
      BY <1>2, RangeOfANetwork DEF TypeOK
    <2>2. BoundsOf(Name)' = BoundsOf(Name)
      BY <1>2 DEF ResolveBounds, BoundsOf, Name
    <2> QED
      BY <1>2, <2>1, <2>2 DEF ResolveBounds
  <1>3. CASE CutWindow \/ LoadNetwork \/ SkipWindow \/ SolveWindow
    <2>1. BoundsOf(Name)' = BoundsOf(Name) /\ UNCHANGED <<request, range>>
      BY <1>3 DEF CutWindow, LoadNetwork, SkipWindow, SolveWindow, BoundsOf, Name, windowVars
    <2> QED
      BY <1>3, <2>1 DEF CutWindow, LoadNetwork, SkipWindow, SolveWindow
  <1>4. CASE NothingSolved \/ ExportNetwork \/ NetworkFails
    BY <1>4, Outcomes, GoOnTypes DEF TypeOK
  <1>5. CASE RejectBadRequest \/ RaiseDefect \/ CombineOutcomes
    BY <1>5 DEF RejectBadRequest, RaiseDefect, CombineOutcomes
  <1> QED
    BY <1>1, <1>2, <1>3, <1>4, <1>5 DEF Step

\* A step that leaves the windows of a network alone, or the network.
LEMMA OtherStepsKeepWindows ==
  ASSUME CallTypeOK, Step, ~ ResolveBounds, ~ CutWindow, ~ LoadNetwork
  PROVE  HasARange' =>
           /\ HasARange /\ stage' = "solve" /\ stage = "solve"
           /\ UNCHANGED <<request, range, cursor, windows, position>>
           /\ Snapshots' = Snapshots /\ Name' = Name
  <1>1. CASE StartSolving \/ RejectBadRequest \/ RaiseDefect \/ CombineOutcomes
    BY <1>1 DEF StartSolving, RejectBadRequest, RaiseDefect, CombineOutcomes, HasARange
  <1>2. CASE SkipWindow \/ SolveWindow
    BY <1>2 DEF SkipWindow, SolveWindow, HasARange, windowVars, Snapshots, Name
  <1>3. CASE NothingSolved \/ ExportNetwork \/ NetworkFails
    BY <1>3, Outcomes, GoOnTypes DEF HasARange
  <1> QED
    BY <1>1, <1>2, <1>3 DEF Step

LEMMA StepWindowsTileTheRange ==
  ASSUME TypeOK, RangeIsResolved, WindowsPartition, WindowsTileTheRange, Step
  PROVE  WindowsTileTheRange'
  <1> USE DEF TypeOK
  <1>1. CASE ResolveBounds
    <2>1. windows' = << >> /\ cursor' = range'.start /\ stage' = "windows"
      BY <1>1 DEF ResolveBounds
    <2> QED
      BY <2>1 DEF WindowsTileTheRange
  <1>2. CASE CutWindow
    <2> DEFINE n == Len(windows)
    <2>1. UNCHANGED <<request, range, stage>> /\ stage = "windows" /\ cursor <= range.end
      BY <1>2 DEF CutWindow
    <2>2. /\ windows \in Seq([from : Calendar, to : Int, keep : Int])
          /\ windows' \in Seq([from : Calendar, to : Int, keep : Int])
          /\ Len(windows') = n + 1
          /\ \A w \in DOMAIN windows : windows'[w] = windows[w]
          /\ windows'[n + 1] = WindowFrom(cursor)
          /\ cursor' = WindowFrom(cursor).keep + 1
      BY <1>2, CutWindowKeepsTypes DEF WindowTypeOK
    <2>3. /\ WindowFrom(cursor).from = cursor
          /\ cursor <= WindowFrom(cursor).keep
          /\ WindowFrom(cursor).keep
               <= MinOf(LastDayOfWindow(WindowFrom(cursor).from, request.length), range.end)
          /\ WindowFrom(cursor).to = WindowFrom(cursor).keep + request.look_ahead
      BY <2>1, WindowIsCut, CursorIsADay
    <2>4. DOMAIN windows = 1..n /\ DOMAIN windows' = 1..(n + 1) /\ n \in Nat
      BY <2>2
    <2>5. cursor = IF n = 0 THEN range.start ELSE windows[n].keep + 1
      BY <2>1, <2>2 DEF WindowsTileTheRange
    <2> HIDE DEF n
    <2> DEFINE Tiles(w) ==
          /\ windows[w].from = IF w = 1 THEN range.start ELSE windows[w - 1].keep + 1
          /\ windows[w].from <= windows[w].keep
          /\ windows[w].keep <= MinOf(LastDayOfWindow(windows[w].from, request.length), range.end)
          /\ windows[w].to = windows[w].keep + request.look_ahead
    <2>6. ASSUME NEW w \in DOMAIN windows'
          PROVE  Tiles(w)'
      <3>1. CASE w \in DOMAIN windows
        <4>1. Tiles(w)
          BY <2>1, <3>1 DEF WindowsTileTheRange
        <4>2. w # 1 => w - 1 \in DOMAIN windows
          BY <2>4, <3>1
        <4>3. windows'[w] = windows[w] /\ (w # 1 => windows'[w - 1] = windows[w - 1])
          BY <2>2, <3>1, <4>2
        <4> QED
          BY <2>1, <4>1, <4>3 DEF LastDayOfWindow
      <3>2. CASE w \notin DOMAIN windows
        <4>1. w = n + 1
          BY <2>4, <3>2
        <4>2. n # 0 => n \in DOMAIN windows
          BY <2>4
        <4>3. n # 0 => windows'[n] = windows[n]
          BY <2>2, <4>2
        <4>4. windows'[w].from = IF w = 1 THEN range.start ELSE windows'[w - 1].keep + 1
          BY <2>2, <2>3, <2>4, <2>5, <4>1, <4>3
        <4>5. windows'[w] = WindowFrom(cursor)
          BY <2>2, <4>1
        <4> QED
          BY <2>1, <2>3, <4>4, <4>5 DEF LastDayOfWindow
      <3> QED
        BY <3>1, <3>2
    <2>7. windows' # << >> /\ cursor' = windows'[Len(windows')].keep + 1
      BY <2>2, <2>4
    <2> QED
      BY <2>1, <2>6, <2>7 DEF WindowsTileTheRange
  <1>3. CASE LoadNetwork
    <2>1. UNCHANGED <<request, range, cursor, windows>> /\ stage = "windows" /\ cursor > range.end
      BY <1>3 DEF LoadNetwork, windowVars
    <2>2. /\ windows \in Seq([from : Calendar, to : Int, keep : Int])
          /\ range.end \in Int /\ cursor \in Int
      BY DEF WindowTypeOK
    <2>3. ASSUME windows # << >>
          PROVE  windows[Len(windows)].keep = range.end
      <3> DEFINE Window == [from : Calendar, to : Int, keep : Int]
      <3>0. windows[Len(windows)] \in Window
        <4>1. windows \in Seq(Window) /\ windows # << >>
          BY <2>2, <2>3
        <4> HIDE DEF Window
        <4> QED
          BY <4>1
      <3>1. Len(windows) \in DOMAIN windows /\ windows[Len(windows)].keep \in Int
        BY <2>2, <2>3, <3>0
      <3>2. /\ cursor = windows[Len(windows)].keep + 1
            /\ windows[Len(windows)].keep
                 <= MinOf(LastDayOfWindow(windows[Len(windows)].from, request.length), range.end)
        BY <2>1, <2>3, <3>1 DEF WindowsTileTheRange
      <3>3. LastDayOfWindow(windows[Len(windows)].from, request.length) \in Int
        <4>1. windows[Len(windows)].from \in Calendar
          BY <3>0
        <4>2. request.length \in WindowLengths
          BY RequestsAssumption DEF CallTypeOK
        <4> QED
          BY <4>1, <4>2, WindowHoldsItsFirstDay
      <3> HIDE DEF TypeOK
      <3> QED
        BY <2>1, <2>2, <3>1, <3>2, <3>3 DEF MinOf
    <2>4. windows = << >> => range.start > range.end
      BY <2>1 DEF WindowsTileTheRange
    <2> QED
      BY <2>1, <2>3, <2>4 DEF WindowsTileTheRange, LastDayOfWindow
  <1>4. CASE ~ ResolveBounds /\ ~ CutWindow /\ ~ LoadNetwork
    BY <1>4, OtherStepsKeepWindows DEF WindowsTileTheRange, HasARange, LastDayOfWindow
  <1> QED
    BY <1>1, <1>2, <1>3, <1>4

LEMMA StepWindowsPartition ==
  ASSUME TypeOK, RangeIsResolved, WindowsPartition, Step
  PROVE  WindowsPartition'
  <1> USE DEF TypeOK
  <1>1. CASE ResolveBounds
    <2>1. BoundsOf(Name).start \in Int
      BY <1>1, RangeOfANetwork DEF Calendar
    <2>2. windows' = << >> /\ cursor' = range'.start /\ range'.start \in Int
      BY <1>1, <2>1 DEF ResolveBounds
    <2>3. DOMAIN windows' = {}
      BY <2>2
    <2> QED
      BY <2>2, <2>3 DEF WindowsPartition
  <1>2. CASE CutWindow
    <2> DEFINE n == Len(windows)
               next == WindowFrom(cursor)
    <2>1. UNCHANGED <<request, range, stage>> /\ stage = "windows" /\ cursor <= range.end
      BY <1>2 DEF CutWindow
    <2>2. /\ windows \in Seq([from : Calendar, to : Int, keep : Int])
          /\ windows' \in Seq([from : Calendar, to : Int, keep : Int])
          /\ Len(windows') = n + 1
          /\ \A w \in DOMAIN windows : windows'[w] = windows[w]
          /\ windows'[n + 1] = next
          /\ next \in [from : Calendar, to : Int, keep : Int]
          /\ cursor' = next.keep + 1
      BY <1>2, CutWindowKeepsTypes DEF WindowTypeOK
    <2>3. next.from = cursor /\ cursor <= next.keep
      BY <2>1, WindowIsCut, CursorIsADay
    <2>4. DOMAIN windows = 1..n /\ DOMAIN windows' = 1..(n + 1) /\ n \in Nat
      BY <2>2
    <2>5. \A w \in DOMAIN windows' : w \in DOMAIN windows \/ w = n + 1
      BY <2>4
    <2>6. \A w \in DOMAIN windows' : windows'[w].from \in Int /\ windows'[w].keep \in Int
      <3> DEFINE Window == [from : Calendar, to : Int, keep : Int]
      <3>1. \A w \in DOMAIN windows' : windows'[w] \in Window
        <4>1. windows' \in Seq(Window)
          BY <2>2
        <4> HIDE DEF Window
        <4> QED
          BY <4>1
      <3> QED
        BY <3>1 DEF Calendar
    <2>7. range.start \in Int /\ cursor \in Int /\ next.keep \in Int
      BY <2>2 DEF WindowTypeOK, Calendar
    <2>8. /\ cursor >= range.start
          /\ \A w \in DOMAIN windows : range.start <= windows[w].from /\ windows[w].keep < cursor
          /\ \A v, w \in DOMAIN windows : v < w => windows[v].keep < windows[w].from
          /\ \A d \in Int : range.start <= d /\ d < cursor =>
               \E w \in DOMAIN windows : windows[w].from <= d /\ d <= windows[w].keep
      BY <2>1 DEF WindowsPartition, HasARange
    <2> HIDE DEF n, next
    <2>9. cursor' >= range'.start
      BY <2>1, <2>2, <2>3, <2>7, <2>8
    <2>10. ASSUME NEW w \in DOMAIN windows'
           PROVE  range'.start <= windows'[w].from /\ windows'[w].keep < cursor'
      <3>1. CASE w \in DOMAIN windows
        <4>1. range.start <= windows'[w].from /\ windows'[w].keep < cursor
          BY <2>2, <2>8, <3>1
        <4> QED
          BY <2>1, <2>2, <2>3, <2>6, <2>7, <4>1
      <3>2. CASE w = n + 1
        BY <2>1, <2>2, <2>3, <2>7, <2>8, <3>2
      <3> QED
        BY <2>5, <3>1, <3>2
    <2>11. ASSUME NEW v \in DOMAIN windows', NEW w \in DOMAIN windows', v < w
           PROVE  windows'[v].keep < windows'[w].from
      <3>1. v \in DOMAIN windows
        BY <2>4, <2>11
      <3>2. CASE w \in DOMAIN windows
        BY <2>2, <2>8, <2>11, <3>1, <3>2
      <3>3. CASE w = n + 1
        BY <2>2, <2>3, <2>8, <3>1, <3>3
      <3> QED
        BY <2>5, <3>2, <3>3
    <2>12. ASSUME NEW d \in Int, range'.start <= d, d < cursor'
           PROVE  \E w \in DOMAIN windows' : windows'[w].from <= d /\ d <= windows'[w].keep
      <3>1. CASE d < cursor
        <4>1. PICK w \in DOMAIN windows : windows[w].from <= d /\ d <= windows[w].keep
          BY <2>1, <2>8, <2>12, <3>1
        <4>2. w \in DOMAIN windows' /\ windows'[w] = windows[w]
          BY <2>2, <2>4
        <4> QED
          BY <4>1, <4>2
      <3>2. CASE ~ (d < cursor)
        <4>1. n + 1 \in DOMAIN windows' /\ windows'[n + 1] = next
          BY <2>2, <2>4
        <4>2. next.from <= d /\ d <= next.keep
          BY <2>2, <2>3, <2>7, <2>12, <3>2
        <4> QED
          BY <4>1, <4>2
      <3> QED
        BY <3>1, <3>2
    <2> QED
      BY <2>9, <2>10, <2>11, <2>12 DEF WindowsPartition
  <1>3. CASE LoadNetwork
    BY <1>3 DEF LoadNetwork, WindowsPartition, HasARange, windowVars
  <1>4. CASE ~ ResolveBounds /\ ~ CutWindow /\ ~ LoadNetwork
    BY <1>4, OtherStepsKeepWindows DEF WindowsPartition, HasARange
  <1> QED
    BY <1>1, <1>2, <1>3, <1>4

\* The snapshots a window reports are those its days hold.
LEMMA ReportedIsInWindow ==
  \A i : i \in Reported <=> i \in Snapshots /\ InWindow(i, window)
  BY DEF Reported, SnapshotsBetween, InWindow

\* The ways the loop over the windows goes on.
LEMMA OtherStepsLeaveTheLoop ==
  ASSUME CallTypeOK, Step, ~ LoadNetwork, ~ SkipWindow, ~ SolveWindow
  PROVE  stage' # "solve"
  <1>1. CASE NothingSolved \/ ExportNetwork \/ NetworkFails
    BY <1>1, Outcomes, GoOnTypes
  <1>2. CASE StartSolving \/ RejectBadRequest \/ ResolveBounds \/ CutWindow \/ RaiseDefect
               \/ CombineOutcomes
    BY <1>2 DEF StartSolving, RejectBadRequest, ResolveBounds, CutWindow, RaiseDefect,
                CombineOutcomes
  <1> QED
    BY <1>1, <1>2 DEF Step

LEMMA StepWindowsAreVisited ==
  ASSUME TypeOK, WindowsAreVisited, Step
  PROVE  WindowsAreVisited'
  <1> USE DEF TypeOK
  <1>1. CASE LoadNetwork
    <2>1. cursor' > range'.end /\ Past' = {}
      BY <1>1 DEF LoadNetwork, windowVars, Past
    <2> QED
      BY <2>1 DEF WindowsAreVisited
  <1>2. CASE SkipWindow
    <2>1. /\ stage = "solve" /\ Reported = {} /\ window' = window + 1
          /\ UNCHANGED <<cursor, range, windows, conditions, request, position>>
          /\ Snapshots' = Snapshots
      BY <1>2 DEF SkipWindow, windowVars, Snapshots, Name
    <2>2. ASSUME NEW w \in Past', w \notin DOMAIN conditions, NEW i \in Snapshots
          PROVE  ~ InWindow(i, w)
      <3>1. w \in Past \/ w = window
        BY <2>1 DEF Past, NetworkTypeOK
      <3>2. CASE w \in Past
        BY <2>1, <2>2, <3>2 DEF WindowsAreVisited
      <3>3. CASE w = window
        BY <2>1, <3>3, ReportedIsInWindow
      <3> QED
        BY <3>1, <3>2, <3>3
    <2> QED
      BY <2>1, <2>2 DEF WindowsAreVisited, InWindow, Name
  <1>3. CASE SolveWindow
    <2>1. /\ stage = "solve" /\ window' = window + 1
          /\ UNCHANGED <<cursor, range, windows, request, position>>
          /\ Snapshots' = Snapshots
          /\ DOMAIN conditions' = DOMAIN conditions \union {window}
      BY <1>3, SolveWindowIsAStep DEF SolveWindow, windowVars
    <2>2. ASSUME NEW w \in Past', w \notin DOMAIN conditions', NEW i \in Snapshots
          PROVE  ~ InWindow(i, w)
      <3>1. w \in Past
        BY <2>1, <2>2 DEF Past, NetworkTypeOK
      <3> QED
        BY <2>1, <2>2, <3>1 DEF WindowsAreVisited
    <2> QED
      BY <2>1, <2>2 DEF WindowsAreVisited, InWindow, Name
  <1>4. CASE ~ LoadNetwork /\ ~ SkipWindow /\ ~ SolveWindow
    BY <1>4, OtherStepsLeaveTheLoop DEF WindowsAreVisited
  <1> QED
    BY <1>1, <1>2, <1>3, <1>4

(* --------------------------- the loop over windows ---------------------- *)

\* A snapshot of a window done lies before the window solved next: it is not in it, and
\* not solved with it.
LEMMA DoneWindowsAreBehind ==
  ASSUME TypeOK, WindowsPartition, stage = "solve", window <= Len(windows),
         NEW i \in Snapshots, NEW w \in Past, InWindow(i, w)
  PROVE  ~ InWindow(i, window) /\ i \notin Solving
  <1> DEFINE Window == [from : Calendar, to : Int, keep : Int]
  <1>1. windows \in Seq(Window) /\ window \in Nat \ {0} /\ w \in 1..(window - 1)
    BY DEF TypeOK, WindowTypeOK, NetworkTypeOK, Past
  <1>2. w \in DOMAIN windows /\ window \in DOMAIN windows /\ w < window
    BY <1>1
  <1>3. windows[w] \in Window /\ windows[window] \in Window
    <2> HIDE DEF Window
    <2> QED
      BY <1>1, <1>2
  <1>4. windows[w].keep < windows[window].from
    BY <1>2 DEF WindowsPartition, HasARange
  <1>5. Days[Name][i] \in Int
    BY ThereIsANetwork DEF TypeOK, Calendar
  <1>6. windows[w].keep \in Int /\ windows[window].from \in Int
    BY <1>3 DEF Calendar
  <1>7. Days[Name][i] < windows[window].from
    BY <1>4, <1>5, <1>6 DEF InWindow
  <1> QED
    BY <1>5, <1>6, <1>7 DEF InWindow, Solving, SnapshotsBetween

\* What the loop over the windows leaves alone, and that one more window is done.
LEMMA OneMoreWindow ==
  ASSUME TypeOK, SkipWindow \/ SolveWindow
  PROVE  /\ stage = "solve" /\ window <= Len(windows) /\ window \notin Past
         /\ Snapshots' = Snapshots /\ Past' = Past \union {window}
         /\ \A i, w : InWindow(i, w)' <=> InWindow(i, w)
  <1>1. /\ stage = "solve" /\ window' = window + 1 /\ window <= Len(windows)
        /\ UNCHANGED <<request, position, windows>>
    BY DEF SkipWindow, SolveWindow, windowVars
  <1>2. window \in Nat \ {0}
    BY DEF TypeOK, NetworkTypeOK
  <1> QED
    BY <1>1, <1>2 DEF Past, Snapshots, Name, InWindow

LEMMA StepWindowsReport ==
  ASSUME TypeOK, WindowsPartition, WindowsReport, Step
  PROVE  WindowsReport'
  <1>1. CASE LoadNetwork
    <2>1. Past' = {} /\ reported' = [i \in Snapshots' |-> 0]
      BY <1>1 DEF LoadNetwork, Past, Snapshots, Name
    <2> QED
      BY <2>1 DEF WindowsReport
  <1>2. CASE SkipWindow
    <2>1. reported' = reported /\ Reported = {}
      BY <1>2 DEF SkipWindow
    <2>2. \A i \in Snapshots : ~ InWindow(i, window)
      BY <2>1, ReportedIsInWindow
    <2> QED
      BY <1>2, <2>1, <2>2, OneMoreWindow DEF WindowsReport
  <1>3. CASE SolveWindow
    <2>1. reported' = Counted(reported, Reported)
      BY <1>3, SolveWindowIsAStep DEF ReportWindow, TypeOK
    <2>2. ASSUME NEW i \in Snapshots
          PROVE  reported'[i] = IF \E w \in Past' : InWindow(i, w)' THEN 1 ELSE 0
      <3>1. reported[i] = IF \E w \in Past : InWindow(i, w) THEN 1 ELSE 0
        BY <1>3, OneMoreWindow DEF WindowsReport
      <3>2. reported'[i] = reported[i] + IF i \in Reported THEN 1 ELSE 0
        BY <2>1 DEF Counted
      <3>3. CASE InWindow(i, window)
        <4>1. i \in Reported /\ \E w \in Past' : InWindow(i, w)'
          BY <1>3, <3>3, ReportedIsInWindow, OneMoreWindow
        <4>2. ~ \E w \in Past : InWindow(i, w)
          BY <1>3, <3>3, DoneWindowsAreBehind, OneMoreWindow
        <4> QED
          BY <3>1, <3>2, <4>1, <4>2
      <3>4. CASE ~ InWindow(i, window)
        <4>1. i \notin Reported
          BY <3>4, ReportedIsInWindow
        <4>2. (\E w \in Past' : InWindow(i, w)') <=> (\E w \in Past : InWindow(i, w))
          BY <1>3, <3>4, OneMoreWindow
        <4> QED
          BY <3>1, <3>2, <4>1, <4>2
      <3> QED
        BY <3>3, <3>4
    <2> QED
      BY <1>3, <2>2, OneMoreWindow DEF WindowsReport
  <1>4. CASE ~ LoadNetwork /\ ~ SkipWindow /\ ~ SolveWindow
    BY <1>4, OtherStepsLeaveTheLoop DEF WindowsReport, TypeOK
  <1> QED
    BY <1>1, <1>2, <1>3, <1>4

LEMMA StepEveryHourIsCostedOnce ==
  ASSUME TypeOK, WindowsPartition, EveryHourIsCostedOnce, Step
  PROVE  EveryHourIsCostedOnce'
  <1>1. CASE LoadNetwork
    <2>1. DOMAIN conditions' = {} /\ costed' = [i \in Snapshots' |-> 0]
      BY <1>1 DEF LoadNetwork, Snapshots, Name
    <2> QED
      BY <2>1 DEF EveryHourIsCostedOnce
  <1>2. CASE SkipWindow
    <2>1. costed' = costed /\ conditions' = conditions
      BY <1>2 DEF SkipWindow
    <2> QED
      BY <1>2, <2>1, OneMoreWindow DEF EveryHourIsCostedOnce
  <1>3. CASE SolveWindow
    <2> DEFINE Costs(i, w) == InWindow(i, w) /\ conditions[w] = "optimal"
    <2>1. PICK condition \in Conditions :
              /\ DOMAIN conditions' = DOMAIN conditions \union {window}
              /\ conditions'[window] = condition
              /\ \A w \in DOMAIN conditions \ {window} : conditions'[w] = conditions[w]
              /\ costed' = CostWindow(condition)
      BY <1>3, SolveWindowIsAStep DEF TypeOK
    <2>2. stage = "solve" /\ window \notin DOMAIN conditions /\ DOMAIN conditions \subseteq Past
      BY <1>3, OneMoreWindow DEF TypeOK, NetworkTypeOK, Past
    <2>3. costed \in [Snapshots -> Nat]
      BY <2>2 DEF TypeOK, NetworkTypeOK
    <2>4. ASSUME NEW i \in Snapshots
          PROVE  costed'[i] = IF \E w \in DOMAIN conditions' : Costs(i, w)' THEN 1 ELSE 0
      <3>1. costed[i] = IF \E w \in DOMAIN conditions : Costs(i, w) THEN 1 ELSE 0
        BY <2>2 DEF EveryHourIsCostedOnce
      <3>2. \A w \in DOMAIN conditions : Costs(i, w)' <=> Costs(i, w)
        BY <1>3, <2>1, <2>2, OneMoreWindow
      <3>3. \A w : w = window => (Costs(i, w)' <=> InWindow(i, w) /\ condition = "optimal")
        BY <1>3, <2>1, OneMoreWindow
      <3>4. CASE InWindow(i, window) /\ condition = "optimal"
        <4>1. i \in Reported /\ \E w \in DOMAIN conditions' : Costs(i, w)'
          BY <2>1, <3>3, <3>4, ReportedIsInWindow
        <4>2. ~ \E w \in DOMAIN conditions : Costs(i, w)
          BY <1>3, <2>2, <3>4, DoneWindowsAreBehind, OneMoreWindow
        <4>3. costed'[i] = costed[i] + 1
          BY <2>1, <3>4, <4>1 DEF CostWindow, Counted
        <4> QED
          BY <3>1, <4>1, <4>2, <4>3
      <3>5. CASE ~ (InWindow(i, window) /\ condition = "optimal")
        <4>1. costed'[i] = costed[i]
          BY <2>1, <2>3, <3>5, ReportedIsInWindow DEF CostWindow, Counted
        <4>2. (\E w \in DOMAIN conditions' : Costs(i, w)') <=> (\E w \in DOMAIN conditions : Costs(i, w))
          BY <2>1, <3>2, <3>3, <3>5
        <4> QED
          BY <3>1, <4>1, <4>2
      <3> QED
        BY <3>4, <3>5
    <2> QED
      BY <1>3, <2>4, OneMoreWindow DEF EveryHourIsCostedOnce
  <1>4. CASE ~ LoadNetwork /\ ~ SkipWindow /\ ~ SolveWindow
    BY <1>4, OtherStepsLeaveTheLoop DEF EveryHourIsCostedOnce, TypeOK
  <1> QED
    BY <1>1, <1>2, <1>3, <1>4

\* Solving a window leaves the snapshots before it as they are, gives its own the results
\* found for them, and leaves none after it.
LEMMA ResultsOfAWindow ==
  ASSUME TypeOK, RangeIsResolved, WindowsTileTheRange, SolveWindow, NEW condition \in Conditions,
         results' = DiscardLookAhead(Optimised(condition)), NEW i \in Snapshots
  PROVE  /\ i \notin Solving => results'[i] = results[i]
         /\ InWindow(i, window) /\ condition # "infeasible" => results'[i] = window
         /\ results'[i] > 0 => results'[i] = results[i] \/ InWindow(i, window)
  <1> DEFINE w == windows[window]
  <1>1. stage = "solve" /\ window \in DOMAIN windows
    BY DEF SolveWindow, TypeOK, WindowTypeOK, NetworkTypeOK
  <1>2. w \in [from : Calendar, to : Int, keep : Int]
    <2> DEFINE Window == [from : Calendar, to : Int, keep : Int]
    <2>1. windows \in Seq(Window)
      BY DEF TypeOK, WindowTypeOK
    <2> HIDE DEF Window
    <2>2. w \in Window
      BY <1>1, <2>1
    <2> QED
      BY <2>2 DEF Window
  <1>3. Days[Name][i] \in Int
    BY <1>1, ThereIsANetwork DEF TypeOK, Calendar
  <1>4. i \in Solving <=> w.from <= Days[Name][i] /\ Days[Name][i] <= w.to
    BY DEF Solving, SnapshotsBetween
  <1>5. InWindow(i, window) <=> w.from <= Days[Name][i] /\ Days[Name][i] <= w.keep
    BY DEF InWindow
  <1>6. results'[i] = IF i \in Solving /\ Days[Name][i] > w.keep THEN -1
                      ELSE IF i \in Solving /\ condition # "infeasible" THEN window ELSE results[i]
    BY DEF DiscardLookAhead, Optimised, Zeroed
  <1>7. w.to = w.keep + request.look_ahead /\ request.look_ahead >= 0
    BY <1>1 DEF WindowsTileTheRange, RangeIsResolved
  <1>8. request.look_ahead \in Int
    BY RequestsAssumption DEF TypeOK, CallTypeOK
  <1>9. w.from \in Int /\ w.to \in Int /\ w.keep \in Int
    BY <1>2 DEF Calendar
  <1> HIDE DEF w
  <1>10. /\ InWindow(i, window) => i \in Solving /\ ~ (Days[Name][i] > w.keep)
         /\ i \in Solving => InWindow(i, window) \/ Days[Name][i] > w.keep
    BY <1>3, <1>4, <1>5, <1>7, <1>8, <1>9
  <1> QED
    BY <1>6, <1>10

LEMMA StepReportedHoursKeepTheirOwnWindow ==
  ASSUME TypeOK, RangeIsResolved, WindowsTileTheRange, WindowsPartition,
         ReportedHoursKeepTheirOwnWindow, Step
  PROVE  ReportedHoursKeepTheirOwnWindow'
  <1>1. CASE LoadNetwork
    <2>1. DOMAIN conditions' = {}
      BY <1>1 DEF LoadNetwork
    <2> QED
      BY <2>1 DEF ReportedHoursKeepTheirOwnWindow
  <1>2. CASE SkipWindow
    <2>1. results' = results /\ conditions' = conditions
      BY <1>2 DEF SkipWindow
    <2> QED
      BY <1>2, <2>1, OneMoreWindow DEF ReportedHoursKeepTheirOwnWindow
  <1>3. CASE SolveWindow
    <2>1. PICK condition \in Conditions :
              /\ DOMAIN conditions' = DOMAIN conditions \union {window}
              /\ conditions'[window] = condition
              /\ \A w \in DOMAIN conditions \ {window} : conditions'[w] = conditions[w]
              /\ results' = DiscardLookAhead(Optimised(condition))
      BY <1>3, SolveWindowIsAStep DEF TypeOK
    <2>2. /\ stage = "solve" /\ window <= Len(windows)
          /\ window \notin DOMAIN conditions /\ DOMAIN conditions \subseteq Past
      BY <1>3, OneMoreWindow DEF TypeOK, NetworkTypeOK, Past
    <2>3. ASSUME NEW w \in DOMAIN conditions', NEW i \in Snapshots,
                 InWindow(i, w), conditions'[w] # "infeasible"
          PROVE  results'[i] = w
      <3>1. CASE w = window
        BY <1>3, <2>1, <2>3, <3>1, ResultsOfAWindow
      <3>2. CASE w \in DOMAIN conditions
        <4>1. conditions'[w] = conditions[w]
          BY <2>1, <2>2, <3>2
        <4>2. results[i] = w
          BY <2>2, <2>3, <3>2, <4>1 DEF ReportedHoursKeepTheirOwnWindow
        <4>3. i \notin Solving
          BY <2>2, <2>3, <3>2, DoneWindowsAreBehind
        <4> QED
          BY <1>3, <2>1, <4>2, <4>3, ResultsOfAWindow
      <3> QED
        BY <2>1, <3>1, <3>2
    <2> QED
      BY <1>3, <2>3, OneMoreWindow DEF ReportedHoursKeepTheirOwnWindow
  <1>4. CASE ~ LoadNetwork /\ ~ SkipWindow /\ ~ SolveWindow
    BY <1>4, OtherStepsLeaveTheLoop DEF ReportedHoursKeepTheirOwnWindow, TypeOK
  <1> QED
    BY <1>1, <1>2, <1>3, <1>4

LEMMA StepNetworkHoldsNoLookAhead ==
  ASSUME TypeOK, RangeIsResolved, WindowsTileTheRange, NetworkHoldsNoLookAhead, Step
  PROVE  NetworkHoldsNoLookAhead'
  <1>1. CASE LoadNetwork
    <2>1. results' = [i \in Snapshots' |-> 0]
      BY <1>1 DEF LoadNetwork, Snapshots, Name, FromFile
    <2> QED
      BY <2>1 DEF NetworkHoldsNoLookAhead
  <1>2. CASE SkipWindow
    <2>1. results' = results /\ reported' = reported
      BY <1>2 DEF SkipWindow
    <2> QED
      BY <1>2, <2>1, OneMoreWindow DEF NetworkHoldsNoLookAhead
  <1>3. CASE SolveWindow
    <2>1. PICK condition \in Conditions : results' = DiscardLookAhead(Optimised(condition))
      BY <1>3, SolveWindowIsAStep DEF TypeOK
    <2>2. reported' = Counted(reported, Reported) /\ stage = "solve"
      BY <1>3, SolveWindowIsAStep DEF ReportWindow, TypeOK
    <2>3. ASSUME NEW i \in Snapshots, results'[i] > 0
          PROVE  reported'[i] > 0
      <3>1. reported[i] \in Nat
        BY <2>2 DEF TypeOK, NetworkTypeOK
      <3>2. reported'[i] = reported[i] + IF i \in Reported THEN 1 ELSE 0
        BY <2>2 DEF Counted
      <3>3. CASE InWindow(i, window)
        BY <3>1, <3>2, <3>3, ReportedIsInWindow
      <3>4. CASE results'[i] = results[i]
        <4>1. reported[i] > 0
          BY <2>2, <2>3, <3>4 DEF NetworkHoldsNoLookAhead
        <4> QED
          BY <3>1, <3>2, <4>1
      <3> QED
        BY <1>3, <2>1, <2>3, <3>3, <3>4, ResultsOfAWindow
    <2> QED
      BY <1>3, <2>3, OneMoreWindow DEF NetworkHoldsNoLookAhead
  <1>4. CASE ~ LoadNetwork /\ ~ SkipWindow /\ ~ SolveWindow
    BY <1>4, OtherStepsLeaveTheLoop DEF NetworkHoldsNoLookAhead, TypeOK
  <1> QED
    BY <1>1, <1>2, <1>3, <1>4

\* A file written is the network solved; every other file stays as it is.
LEMMA FileWritten ==
  ASSUME NEW path, NEW content, files' = Written(path, content)
  PROVE  /\ DOMAIN files' = DOMAIN files \union {path}
         /\ files'[path] = content
         /\ \A p \in DOMAIN files \ {path} : files'[p] = files[p]
  BY DEF Written

\* The steps that write a file, or part of one.
LEMMA FilesChange ==
  ASSUME CallTypeOK, Step
  PROVE  \/ files' = files
         \/ files' = Written(OutputPath(Name), [by |-> "half a solve"])
              /\ (NetworkFails \/ RaiseDefect)
         \/ ExportNetwork
  BY DEF Step, StartSolving, RejectBadRequest, ResolveBounds, CutWindow, LoadNetwork, SkipWindow,
         SolveWindow, NothingSolved, ExportNetwork, NetworkFails, RaiseDefect, CombineOutcomes,
         IsCutShort, resultVars

LEMMA StepFilesHoldNoLookAhead ==
  ASSUME TypeOK, NetworkHoldsNoLookAhead, FilesHoldNoLookAhead, Step
  PROVE  FilesHoldNoLookAhead'
  <1> DEFINE NoLookAhead(file) ==
               file.by = "solve" => \A i \in DOMAIN file.results : file.results[i] > 0 => file.reported[i] > 0
  <1>1. \A p \in DOMAIN files : NoLookAhead(files[p])
    BY DEF FilesHoldNoLookAhead
  <1>2. CASE files' = files
    BY <1>2 DEF FilesHoldNoLookAhead
  <1>3. ASSUME NEW content, files' = Written(OutputPath(Name), content), NoLookAhead(content)
        PROVE  FilesHoldNoLookAhead'
    <2>1. \A p \in DOMAIN files' : NoLookAhead(files'[p])
      <3>1. ASSUME NEW p \in DOMAIN files'
            PROVE  NoLookAhead(files'[p])
        <4>1. \/ p \in DOMAIN files /\ files'[p] = files[p]
              \/ files'[p] = content
          BY <1>3, FileWritten
        <4> QED
          BY <1>1, <1>3, <4>1
      <3> QED
        BY <3>1
    <2> QED
      BY <2>1 DEF FilesHoldNoLookAhead
  <1>4. NoLookAhead([by |-> "half a solve"])
    OBVIOUS
  <1>5. CASE ExportNetwork
    <2> DEFINE content == [by |-> "solve", results |-> results, reported |-> reported,
                           costed |-> costed, conditions |-> conditions]
    <2>1. files' = Written(OutputPath(Name), content)
      BY <1>5 DEF ExportNetwork
    <2>2. stage = "solve" /\ DOMAIN results = Snapshots
      BY <1>5 DEF ExportNetwork, WindowsAreSolved, TypeOK, NetworkTypeOK
    <2>3. NoLookAhead(content)
      BY <2>2 DEF NetworkHoldsNoLookAhead
    <2> HIDE DEF content, NoLookAhead
    <2> QED
      BY <1>3, <2>1, <2>3
  <1> QED
    BY <1>2, <1>3, <1>4, <1>5, FilesChange DEF TypeOK

\* Once every window is done, the snapshots in a window are those of the range.
LEMMA WindowsHoldTheRange ==
  ASSUME TypeOK, RangeIsResolved, WindowsTileTheRange, WindowsPartition, WindowsAreVisited,
         stage = "solve", window > Len(windows), NEW i \in Snapshots
  PROVE  (\E w \in Past : InWindow(i, w))
           <=> range.start <= Days[Name][i] /\ Days[Name][i] <= range.end
  <1> DEFINE Window == [from : Calendar, to : Int, keep : Int]
  <1>1. windows \in Seq(Window) /\ window \in Nat \ {0} /\ window <= Len(windows) + 1
    BY DEF TypeOK, WindowTypeOK, NetworkTypeOK
  <1>2. DOMAIN windows = 1..Len(windows) /\ Len(windows) \in Nat
    BY <1>1
  <1>3. Past = DOMAIN windows
    BY <1>1, <1>2 DEF Past
  <1>4. \A w \in DOMAIN windows : windows[w] \in Window
    <2> HIDE DEF Window
    <2> QED
      BY <1>1
  <1>5. \A w \in DOMAIN windows : windows[w].from \in Int /\ windows[w].keep \in Int
    BY <1>4 DEF Calendar
  <1>6. Days[Name][i] \in Int /\ range.start \in Int /\ range.end \in Int /\ cursor \in Int
    BY ThereIsANetwork DEF TypeOK, WindowTypeOK, Calendar
  <1>7. \A w \in DOMAIN windows : range.start <= windows[w].from /\ windows[w].keep <= range.end
    <2> TAKE w \in DOMAIN windows
    <2>1. range.start <= windows[w].from
      BY DEF WindowsPartition, HasARange
    <2>2. windows[w].keep <= MinOf(LastDayOfWindow(windows[w].from, request.length), range.end)
      BY DEF WindowsTileTheRange
    <2>3. windows[w].from \in Calendar /\ request.length \in WindowLengths
      BY <1>4, RequestsAssumption DEF TypeOK, CallTypeOK
    <2>4. LastDayOfWindow(windows[w].from, request.length) \in Int
      BY <2>3, WindowHoldsItsFirstDay
    <2>5. windows[w].keep <= range.end
      BY <1>5, <1>6, <2>2, <2>4 DEF MinOf
    <2> QED
      BY <2>1, <2>5
  <1>8. ASSUME NEW w \in Past, InWindow(i, w)
        PROVE  range.start <= Days[Name][i] /\ Days[Name][i] <= range.end
    BY <1>3, <1>5, <1>6, <1>7, <1>8 DEF InWindow
  <1>9. ASSUME range.start <= Days[Name][i], Days[Name][i] <= range.end
        PROVE  \E w \in Past : InWindow(i, w)
    <2>1. Days[Name][i] < cursor
      BY <1>6, <1>9 DEF WindowsAreVisited
    <2> QED
      BY <1>3, <1>6, <1>9, <2>1 DEF WindowsPartition, HasARange, InWindow
  <1> QED
    BY <1>8, <1>9

\* A window done either found what its snapshots hold, or was infeasible.
LEMMA ResultsAreGenuine ==
  ASSUME TypeOK, WindowsAreVisited, ReportedHoursKeepTheirOwnWindow, stage = "solve",
         NEW i \in Snapshots, ~ IsUnsolved(i)
  PROVE  IsGenuine(i) <=> \E w \in Past : InWindow(i, w)
  <1>1. ASSUME NEW w \in Past, InWindow(i, w)
        PROVE  results[i] = w
    <2>1. w \in DOMAIN conditions
      BY <1>1 DEF WindowsAreVisited
    <2>2. conditions[w] # "infeasible"
      BY <1>1, <2>1 DEF IsUnsolved
    <2> QED
      BY <1>1, <2>1, <2>2 DEF ReportedHoursKeepTheirOwnWindow
  <1> QED
    BY <1>1 DEF IsGenuine

LEMMA EveryHourIsReported ==
  ASSUME TypeOK, RangeIsResolved, WindowsTileTheRange, WindowsPartition, WindowsAreVisited,
         WindowsReport, ReportedHoursKeepTheirOwnWindow
  PROVE  EveryHourIsReportedOnce
  BY WindowsHoldTheRange, ResultsAreGenuine DEF WindowsReport, EveryHourIsReportedOnce

(* ------------------------------- the ensemble --------------------------- *)

\* Each outcome known is one more, until there is one for every network.
LEMMA GoOnKeepsUp ==
  ASSUME CallTypeOK, OutcomesKeepUp, stage \in {"bounds", "windows", "solve"},
         NEW parts, parts \in OutcomeParts, parts # {}, GoOn(parts)
  PROVE  /\ OutcomesKeepUp'
         /\ outcomes' = Append(outcomes, parts) /\ Len(outcomes) = position - 1
         /\ position \in DOMAIN request.networks /\ UNCHANGED <<request, failure, status>>
         /\ stage' \in {"bounds", "combine"}
  <1> DEFINE n == Len(request.networks)
  <1>1. request.networks \in Seq(DOMAIN Days)
    BY RequestsAssumption DEF CallTypeOK
  <1>2. n \in Nat /\ position \in 1..n /\ position \in DOMAIN request.networks
    <2>1. DOMAIN request.networks = 1..n /\ n \in Nat
      BY <1>1
    <2>2. position \in DOMAIN request.networks
      BY DEF CallTypeOK
    <2> HIDE DEF n
    <2> QED
      BY <2>1, <2>2
  <1>3. /\ outcomes \in Seq(OutcomeParts) /\ \A k \in DOMAIN outcomes : outcomes[k] # {}
        /\ Len(outcomes) = position - 1 /\ status = {} /\ failure = "nothing"
    BY DEF OutcomesKeepUp
  <1>4. outcomes' = Append(outcomes, parts) /\ UNCHANGED <<request, failure, status>>
    BY DEF GoOn
  <1>5. \/ position < n /\ position' = position + 1 /\ stage' = "bounds"
        \/ ~ (position < n) /\ stage' = "combine"
    BY DEF GoOn
  <1> HIDE DEF n
  <1>6. /\ outcomes' \in Seq(OutcomeParts) /\ Len(outcomes') = position
        /\ \A k \in DOMAIN outcomes' : outcomes'[k] # {}
    <2>1. outcomes' \in Seq(OutcomeParts)
      BY <1>3, <1>4
    <2>2. Len(outcomes') = Len(outcomes) + 1
      BY <1>3, <1>4
    <2>3. \A k \in DOMAIN outcomes' :
            (k \in DOMAIN outcomes /\ outcomes'[k] = outcomes[k]) \/ outcomes'[k] = parts
      BY <1>3, <1>4
    <2>4. Len(outcomes') = position
      BY <1>2, <1>3, <2>2
    <2> QED
      BY <1>3, <2>1, <2>3, <2>4
  <1>7. /\ stage' = "bounds" => Len(outcomes') = position' - 1
        /\ stage' = "combine" => Len(outcomes') = n
    <2>1. CASE position < n /\ position' = position + 1 /\ stage' = "bounds"
      BY <1>2, <1>6, <2>1
    <2>2. CASE ~ (position < n) /\ stage' = "combine"
      <3>1. position = n
        BY <1>2, <2>2
      <3> QED
        BY <1>6, <2>2, <3>1
    <2> QED
      BY <1>5, <2>1, <2>2
  <1>8. OutcomesKeepUp'
    BY <1>3, <1>4, <1>5, <1>6, <1>7 DEF OutcomesKeepUp, n
  <1> QED
    BY <1>2, <1>3, <1>4, <1>5, <1>8

\* The outcome a network goes on with.
LEMMA OutcomeIsKnown ==
  ASSUME TypeOK, NothingSolved \/ ExportNetwork \/ NetworkFails
  PROVE  \E parts \in OutcomeParts :
           /\ parts # {} /\ GoOn(parts) /\ stage \in {"bounds", "windows", "solve"}
           /\ parts = {"optimal"} => ExportNetwork /\ parts = {conditions[w] : w \in DOMAIN conditions}
  <1>1. CASE NothingSolved
    BY <1>1 DEF NothingSolved, WindowsAreSolved, OutcomeParts
  <1>2. CASE NetworkFails
    <2>1. GoOn({"failed"}) /\ stage \in {"bounds", "windows", "solve"}
      BY <1>2 DEF NetworkFails, IsAtTheNetwork
    <2>2. {"failed"} # {"optimal"} /\ {"failed"} # {}
      OBVIOUS
    <2> QED
      BY <2>1, <2>2 DEF OutcomeParts
  <1>3. CASE ExportNetwork
    <2> DEFINE parts == {conditions[w] : w \in DOMAIN conditions}
    <2>1. stage = "solve" /\ DOMAIN conditions # {} /\ GoOn(parts)
      BY <1>3 DEF ExportNetwork, WindowsAreSolved
    <2>2. parts # {} /\ parts \subseteq Conditions
      BY <2>1 DEF TypeOK, NetworkTypeOK
    <2> QED
      BY <1>3, <2>1, <2>2 DEF OutcomeParts
  <1> QED
    BY <1>1, <1>2, <1>3

LEMMA StepOutcomesKeepUp ==
  ASSUME TypeOK, OutcomesKeepUp, EveryNetworkHasAnOutcome, Step
  PROVE  OutcomesKeepUp' /\ EveryNetworkHasAnOutcome'
  <1>1. CASE NothingSolved \/ ExportNetwork \/ NetworkFails
    <2>1. OutcomesKeepUp' /\ failure' = failure /\ stage' # "done"
      BY <1>1, OutcomeIsKnown, GoOnKeepsUp DEF TypeOK
    <2> QED
      BY <2>1 DEF EveryNetworkHasAnOutcome
  <1>2. CASE CombineOutcomes
    BY <1>2 DEF CombineOutcomes, OutcomesKeepUp, EveryNetworkHasAnOutcome
  <1>3. CASE StartSolving
    <2>1. outcomes' = << >> /\ position' = 1 /\ status' = status /\ failure' = failure /\ stage' = "bounds"
      BY <1>3 DEF StartSolving, OutcomesKeepUp, resultVars
    <2>2. Len(<< >>) = 0
      OBVIOUS
    <2> QED
      BY <1>3, <2>1, <2>2 DEF StartSolving, OutcomesKeepUp, EveryNetworkHasAnOutcome
  <1>4. CASE RejectBadRequest \/ RaiseDefect
    BY <1>4 DEF RejectBadRequest, RaiseDefect, OutcomesKeepUp, EveryNetworkHasAnOutcome, resultVars
  <1>5. CASE ResolveBounds \/ CutWindow \/ LoadNetwork \/ SkipWindow \/ SolveWindow
    BY <1>5 DEF ResolveBounds, CutWindow, LoadNetwork, SkipWindow, SolveWindow, OutcomesKeepUp,
                EveryNetworkHasAnOutcome, resultVars
  <1> QED
    BY <1>1, <1>2, <1>3, <1>4, <1>5 DEF Step

\* What holds of the network at hand, and of its range, once all its windows are optimal.
LEMMA AllOptimal ==
  ASSUME TypeOK, RangeIsResolved, WindowsTileTheRange, WindowsPartition, WindowsAreVisited,
         WindowsReport, EveryHourIsCostedOnce, ReportedHoursKeepTheirOwnWindow,
         NetworkHoldsNoLookAhead, stage = "solve", window > Len(windows),
         \A w \in DOMAIN conditions : conditions[w] = "optimal", NEW i \in Snapshots
  PROVE  IF range.start <= Days[Name][i] /\ Days[Name][i] <= range.end
           THEN results[i] > 0 /\ reported[i] = 1 /\ costed[i] = 1
           ELSE results[i] <= 0 /\ reported[i] = 0 /\ costed[i] = 0
  <1>1. /\ results[i] \in Int /\ window \in Nat \ {0}
        /\ DOMAIN conditions \subseteq Past
    BY DEF TypeOK, NetworkTypeOK, Past
  <1>2. CASE \E w \in Past : InWindow(i, w)
    <2>1. PICK w \in Past : InWindow(i, w)
      BY <1>2
    <2>2. w \in DOMAIN conditions
      BY <2>1 DEF WindowsAreVisited
    <2>3. conditions[w] = "optimal" /\ w > 0
      BY <1>1, <2>1, <2>2 DEF Past
    <2>4. results[i] = w
      BY <2>1, <2>2, <2>3 DEF ReportedHoursKeepTheirOwnWindow
    <2>5. reported[i] = 1 /\ costed[i] = 1
      BY <1>2, <2>1, <2>2, <2>3 DEF WindowsReport, EveryHourIsCostedOnce
    <2> QED
      BY <1>2, <2>3, <2>4, <2>5, WindowsHoldTheRange
  <1>3. CASE ~ \E w \in Past : InWindow(i, w)
    <2>1. reported[i] = 0 /\ costed[i] = 0
      BY <1>1, <1>3 DEF WindowsReport, EveryHourIsCostedOnce
    <2>2. results[i] <= 0
      BY <1>1, <2>1 DEF NetworkHoldsNoLookAhead
    <2> QED
      BY <1>3, <2>1, <2>2, WindowsHoldTheRange
  <1> QED
    BY <1>2, <1>3

LEMMA ExportedIsSolved ==
  ASSUME TypeOK, RangeIsResolved, WindowsTileTheRange, WindowsPartition, WindowsAreVisited,
         WindowsReport, EveryHourIsCostedOnce, ReportedHoursKeepTheirOwnWindow,
         NetworkHoldsNoLookAhead, ExportNetwork,
         \A w \in DOMAIN conditions : conditions[w] = "optimal",
         NEW n, n = Name
  PROVE  IsSolved(n)'
  <1> DEFINE content == [by |-> "solve", results |-> results, reported |-> reported,
                         costed |-> costed, conditions |-> conditions]
  <1>1. /\ stage = "solve" /\ window > Len(windows) /\ request' = request
        /\ files' = Written(OutputPath(n), content)
    BY DEF ExportNetwork, WindowsAreSolved, GoOn
  <1>2. OutputPath(n)' = OutputPath(n) /\ BoundsOf(n)' = BoundsOf(n)
    BY <1>1 DEF OutputPath, BoundsOf
  <1>3. OutputPath(n) \in DOMAIN files' /\ files'[OutputPath(n)] = content
    BY <1>1, FileWritten
  <1>4. range = BoundsOf(n) /\ Snapshots = DOMAIN Days[n]
    BY <1>1 DEF RangeIsResolved, HasARange, Snapshots
  <1>5. \A i \in DOMAIN Days[n] :
          IF BoundsOf(n).start <= Days[n][i] /\ Days[n][i] <= BoundsOf(n).end
            THEN results[i] > 0 /\ reported[i] = 1 /\ costed[i] = 1
            ELSE results[i] <= 0 /\ reported[i] = 0 /\ costed[i] = 0
    BY <1>1, <1>4, AllOptimal
  <1>6. content.by = "solve" /\ content.results = results /\ content.reported = reported
          /\ content.costed = costed
    OBVIOUS
  <1> HIDE DEF content
  <1> QED
    BY <1>2, <1>3, <1>5, <1>6 DEF IsSolved

\* A network solved stays solved for as long as its file is left alone.
LEMMA SolvedStaysSolved ==
  ASSUME NEW n, IsSolved(n), request' = request,
         OutputPath(n) \in DOMAIN files', files'[OutputPath(n)] = files[OutputPath(n)]
  PROVE  IsSolved(n)'
  <1>1. OutputPath(n)' = OutputPath(n) /\ BoundsOf(n)' = BoundsOf(n)
    BY DEF OutputPath, BoundsOf
  <1> QED
    BY <1>1 DEF IsSolved

LEMMA StepOptimalOutcomesAreSolved ==
  ASSUME TypeOK, RangeIsResolved, WindowsTileTheRange, WindowsPartition, WindowsAreVisited,
         WindowsReport, EveryHourIsCostedOnce, ReportedHoursKeepTheirOwnWindow,
         NetworkHoldsNoLookAhead, OutcomesKeepUp, OptimalOutcomesAreSolved, Step
  PROVE  OptimalOutcomesAreSolved'
  <1> DEFINE N(k) == request.networks[k]
  <1>0. request' = request
    <2>1. CASE NothingSolved \/ ExportNetwork \/ NetworkFails
      BY <2>1, Outcomes, GoOnTypes DEF TypeOK
    <2>2. CASE ~ (NothingSolved \/ ExportNetwork \/ NetworkFails)
      BY <2>2 DEF Step, StartSolving, RejectBadRequest, ResolveBounds, CutWindow, LoadNetwork,
                  SkipWindow, SolveWindow, RaiseDefect, CombineOutcomes
    <2> QED
      BY <2>1, <2>2
  <1>1. ASSUME NEW k \in DOMAIN outcomes, outcomes[k] = {"optimal"}
        PROVE  k \in DOMAIN request.networks /\ IsSolved(N(k))'
    <2>1. k \in DOMAIN request.networks /\ IsSolved(N(k))
      BY <1>1 DEF OptimalOutcomesAreSolved
    <2>2. PICK n : n = N(k)
      OBVIOUS
    <2>3. OutputPath(n) \in DOMAIN files
      BY <2>1, <2>2 DEF IsSolved
    <2>4. CASE files' = files
      BY <1>0, <2>1, <2>2, <2>3, <2>4, SolvedStaysSolved
    <2>5. ASSUME NEW content, files' = Written(OutputPath(Name), content),
                 stage \in {"bounds", "windows", "solve"}
          PROVE  IsSolved(n)'
      <3>1. Len(outcomes) = position - 1 /\ outcomes \in Seq(OutcomeParts)
        BY <2>5 DEF OutcomesKeepUp
      <3>2. position \in DOMAIN request.networks /\ request \in Requests
        BY <2>5 DEF TypeOK, CallTypeOK
      <3>3. k # position
        <4>1. k \in 1..Len(outcomes) /\ Len(outcomes) \in Nat
          BY <3>1
        <4>2. position \in Int
          BY <3>2, RequestsAssumption
        <4> QED
          BY <3>1, <4>1, <4>2
      <3>4. n # Name
        BY <2>1, <2>2, <3>2, <3>3, RequestsAssumption DEF Name
      <3>5. OutputPath(n) # OutputPath(Name)
        BY <3>4 DEF OutputPath
      <3>6. OutputPath(n) \in DOMAIN files' /\ files'[OutputPath(n)] = files[OutputPath(n)]
        BY <2>3, <2>5, <3>5, FileWritten
      <3> QED
        BY <1>0, <2>1, <2>2, <3>6, SolvedStaysSolved
    <2>6. CASE files' # files
      <3>1. \E content : files' = Written(OutputPath(Name), content)
        BY <2>6, FilesChange DEF TypeOK, ExportNetwork
      <3>2. stage \in {"bounds", "windows", "solve"}
        BY <2>6, FilesChange DEF TypeOK, ExportNetwork, WindowsAreSolved, NetworkFails, RaiseDefect,
                                 IsAtTheNetwork
      <3> QED
        BY <1>0, <2>1, <2>2, <2>5, <3>1, <3>2
    <2> QED
      BY <2>1, <2>2, <2>4, <2>6
  <1>2. CASE outcomes' = outcomes
    BY <1>0, <1>1, <1>2 DEF OptimalOutcomesAreSolved
  <1>3. CASE outcomes' # outcomes
    <2>1. NothingSolved \/ ExportNetwork \/ NetworkFails
      BY <1>3 DEF Step, StartSolving, RejectBadRequest, ResolveBounds, CutWindow, LoadNetwork,
                  SkipWindow, SolveWindow, RaiseDefect, CombineOutcomes, resultVars
    <2>2. PICK parts \in OutcomeParts :
             /\ parts # {} /\ GoOn(parts) /\ stage \in {"bounds", "windows", "solve"}
             /\ parts = {"optimal"} => ExportNetwork /\ parts = {conditions[w] : w \in DOMAIN conditions}
      BY <2>1, OutcomeIsKnown
    <2>3. /\ outcomes' = Append(outcomes, parts) /\ Len(outcomes) = position - 1
          /\ position \in DOMAIN request.networks
      BY <2>2, GoOnKeepsUp DEF TypeOK
    <2>4. ASSUME NEW k \in DOMAIN outcomes', outcomes'[k] = {"optimal"}
          PROVE  k \in DOMAIN request.networks /\ IsSolved(N(k))'
      <3>1. \/ k \in DOMAIN outcomes /\ outcomes'[k] = outcomes[k]
            \/ k = Len(outcomes) + 1 /\ outcomes'[k] = parts
        BY <2>3 DEF OutcomesKeepUp
      <3>2. CASE k \in DOMAIN outcomes /\ outcomes'[k] = outcomes[k]
        BY <1>1, <2>4, <3>2
      <3>3. CASE k = Len(outcomes) + 1 /\ outcomes'[k] = parts
        <4>1. position \in Int
          <5>1. request \in Requests
            BY DEF TypeOK, CallTypeOK
          <5> QED
            BY <2>3, <5>1, RequestsAssumption
        <4>2. k = position
          BY <2>3, <3>3, <4>1
        <4>3. ExportNetwork /\ \A w \in DOMAIN conditions : conditions[w] = "optimal"
          BY <2>2, <2>4, <3>3
        <4>4. PICK n : n = N(k)
          OBVIOUS
        <4>5. IsSolved(n)'
          BY <4>2, <4>3, <4>4, ExportedIsSolved DEF Name
        <4> QED
          BY <1>0, <2>3, <4>2, <4>4, <4>5
      <3> QED
        BY <3>1, <3>2, <3>3
    <2> QED
      BY <1>0, <2>4 DEF OptimalOutcomesAreSolved
  <1> QED
    BY <1>2, <1>3

\* A status of optimal is put together from nothing else.
LEMMA StepOptimalMeansSolved ==
  ASSUME TypeOK, OutcomesKeepUp, OptimalOutcomesAreSolved, OptimalMeansSolved, Step
  PROVE  OptimalMeansSolved'
  <1>1. CASE CombineOutcomes
    <2>1. /\ status' = Combined /\ UNCHANGED <<request, files, outcomes>> /\ failure' = failure
          /\ stage = "combine"
      BY <1>1 DEF CombineOutcomes
    <2>2. /\ failure = "nothing" /\ Len(outcomes) = Len(request.networks)
          /\ outcomes \in Seq(OutcomeParts) /\ \A k \in DOMAIN outcomes : outcomes[k] # {}
      BY <2>1 DEF OutcomesKeepUp
    <2>3. request.networks \in Seq(DOMAIN Days)
      BY RequestsAssumption DEF TypeOK, CallTypeOK
    <2>4. DOMAIN request.networks = DOMAIN outcomes
      BY <2>2, <2>3
    <2>5. ASSUME status' = {"optimal"}, NEW k \in DOMAIN request.networks
          PROVE  IsSolved(request.networks[k])
      <3>1. outcomes[k] \subseteq {"optimal"}
        BY <2>1, <2>4, <2>5 DEF Combined
      <3>2. outcomes[k] = {"optimal"}
        BY <2>2, <2>4, <3>1
      <3> QED
        BY <2>4, <3>2 DEF OptimalOutcomesAreSolved
    <2>6. \A n : IsSolved(n)' <=> IsSolved(n)
      BY <2>1 DEF IsSolved, OutputPath, BoundsOf
    <2> QED
      BY <2>1, <2>2, <2>5, <2>6 DEF OptimalMeansSolved
  <1>2. CASE RejectBadRequest \/ RaiseDefect
    <2>1. status' = {}
      BY <1>2 DEF RejectBadRequest, RaiseDefect, IsAtTheNetwork, OutcomesKeepUp, resultVars
    <2> QED
      BY <2>1 DEF OptimalMeansSolved
  <1>3. CASE NothingSolved \/ ExportNetwork \/ NetworkFails
    <2>1. stage' # "done"
      BY <1>3, Outcomes, GoOnTypes DEF TypeOK
    <2> QED
      BY <2>1 DEF OptimalMeansSolved
  <1>4. CASE StartSolving \/ ResolveBounds \/ CutWindow \/ LoadNetwork \/ SkipWindow \/ SolveWindow
    <2>1. stage' # "done"
      BY <1>4 DEF StartSolving, ResolveBounds, CutWindow, LoadNetwork, SkipWindow, SolveWindow
    <2> QED
      BY <2>1 DEF OptimalMeansSolved
  <1> QED
    BY <1>1, <1>2, <1>3, <1>4 DEF Step

(* -------------------------------- theorems ------------------------------ *)

LEMMA InitIInv == Init => IInv
  <1> SUFFICES ASSUME Init PROVE IInv
    OBVIOUS
  <1>1. TypeOK
    BY InitTypeOK
  <1>2. stage = "request" /\ failure = "nothing" /\ outcomes = << >> /\ status = {} /\ position = 1
    BY DEF Init
  <1>3. \A p \in DOMAIN files : files[p].by = "user"
    BY DEF Init, Original
  <1>4. FilesHoldNoLookAhead
    BY <1>3 DEF FilesHoldNoLookAhead
  <1>5. outcomes \in Seq(OutcomeParts) /\ DOMAIN outcomes = {}
    BY <1>2
  <1> QED
    BY <1>1, <1>2, <1>4, <1>5
       DEF IInv, RangeIsResolved, HasARange, WindowsTileTheRange, WindowsPartition, WindowsAreVisited,
           WindowsReport, EveryHourIsCostedOnce, ReportedHoursKeepTheirOwnWindow,
           NetworkHoldsNoLookAhead, OutcomesKeepUp, EveryNetworkHasAnOutcome,
           OptimalOutcomesAreSolved, OptimalMeansSolved

LEMMA StepIInv == IInv /\ Step => IInv'
  BY StepTypeOK, StepRangeIsResolved, StepWindowsTileTheRange, StepWindowsPartition,
     StepWindowsAreVisited, StepWindowsReport, StepEveryHourIsCostedOnce,
     StepReportedHoursKeepTheirOwnWindow, StepNetworkHoldsNoLookAhead, StepFilesHoldNoLookAhead,
     StepOutcomesKeepUp, StepOptimalOutcomesAreSolved, StepOptimalMeansSolved
     DEF IInv

LEMMA StutterIInv == IInv /\ UNCHANGED vars => IInv'
  <1> SUFFICES ASSUME IInv, UNCHANGED vars PROVE IInv'
    OBVIOUS
  <1>1. /\ UNCHANGED <<request, stage, failure, position, range, cursor, windows>>
        /\ UNCHANGED <<window, results, conditions, reported, costed, files, outcomes, status>>
    BY DEF vars, windowVars, networkVars, resultVars
  <1>2. Snapshots' = Snapshots /\ Name' = Name /\ Past' = Past
    BY <1>1 DEF Snapshots, Name, Past
  <1>3. \A i, w : InWindow(i, w)' <=> InWindow(i, w)
    BY <1>1 DEF InWindow, Name
  <1>4. \A n : IsSolved(n)' <=> IsSolved(n)
    BY <1>1 DEF IsSolved, OutputPath, BoundsOf
  <1>5. TypeOK' /\ RangeIsResolved'
    BY <1>1, <1>2 DEF IInv, TypeOK, CallTypeOK, WindowTypeOK, NetworkTypeOK, RangeIsResolved, HasARange,
                      BoundsOf
  <1>6. WindowsTileTheRange' /\ WindowsPartition' /\ WindowsAreVisited'
    BY <1>1, <1>2, <1>3 DEF IInv, WindowsTileTheRange, WindowsPartition, WindowsAreVisited, HasARange,
                            LastDayOfWindow
  <1>7. /\ WindowsReport' /\ EveryHourIsCostedOnce' /\ ReportedHoursKeepTheirOwnWindow'
        /\ NetworkHoldsNoLookAhead' /\ FilesHoldNoLookAhead'
    BY <1>1, <1>2, <1>3 DEF IInv, WindowsReport, EveryHourIsCostedOnce, ReportedHoursKeepTheirOwnWindow,
                            NetworkHoldsNoLookAhead, FilesHoldNoLookAhead
  <1>8. OutcomesKeepUp' /\ EveryNetworkHasAnOutcome' /\ OptimalOutcomesAreSolved' /\ OptimalMeansSolved'
    BY <1>1, <1>4 DEF IInv, OutcomesKeepUp, EveryNetworkHasAnOutcome, OptimalOutcomesAreSolved,
                      OptimalMeansSolved
  <1> QED
    BY <1>5, <1>6, <1>7, <1>8 DEF IInv

\* Every call keeps the inductive invariant.
THEOREM IInvHolds == Spec => []IInv
  <1>1. IInv /\ [Next]_vars => IInv'
    BY StepIInv, StutterIInv DEF Next, Terminated
  <1> QED
    BY InitIInv, <1>1, PTL DEF Spec

\* The state of a solve keeps its types, and there is a network wherever one is solved.
THEOREM TypeCorrect == Spec => []TypeOK
  BY IInvHolds, PTL DEF IInv

\* solve_windows cuts any range, for any calendar, window length and look-ahead, into
\* windows that lie end to end over it.
THEOREM WindowsTile == Spec => []WindowsTileTheRange
  BY IInvHolds, PTL DEF IInv

\* reported_snapshots of any network lists each snapshot of the range once, and no other, those
\* of infeasible windows apart.
THEOREM HoursAreReportedOnce == Spec => []EveryHourIsReportedOnce
  <1>1. IInv => EveryHourIsReportedOnce
    BY EveryHourIsReported DEF IInv
  <1> QED
    BY IInvHolds, <1>1, PTL

\* The objective holds each reported snapshot of an optimal window once, and no other.
THEOREM HoursAreCostedOnce == Spec => []EveryHourIsCostedOnce
  BY IInvHolds, PTL DEF IInv

\* No window disturbs the results another one reports.
THEOREM HoursKeepTheirWindow == Spec => []ReportedHoursKeepTheirOwnWindow
  BY IInvHolds, PTL DEF IInv

\* No result of a look-ahead is left, in the network at hand or in a file.
THEOREM LookAheadsAreDiscarded == Spec => []NothingOfALookAheadSurvives
  <1>1. IInv => NothingOfALookAheadSurvives
    BY DEF IInv, NetworkHoldsNoLookAhead, FilesHoldNoLookAhead, NothingOfALookAheadSurvives
  <1> QED
    BY IInvHolds, <1>1, PTL

\* An ensemble goes on past a network its own data defeats, and has an outcome for each.
THEOREM NetworksHaveOutcomes == Spec => []EveryNetworkHasAnOutcome
  BY IInvHolds, PTL DEF IInv

\* A status of optimal means that every network of the ensemble was solved over its range.
THEOREM OptimalIsSolved == Spec => []OptimalMeansSolved
  BY IInvHolds, PTL DEF IInv

=============================================================================
