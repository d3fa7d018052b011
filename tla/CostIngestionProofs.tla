------------------------- MODULE CostIngestionProofs -------------------------
(***************************************************************************)
(* Safety of CostIngestion for every finite set of runs, every windows and *)
(* reported days, and any number of exceptions and deaths: IInv is         *)
(* inductive, one lemma per step, and implies that a day's rows are those  *)
(* of the last run that stored its range, and that users are told what     *)
(* their runs show.  Ordering, inductive with it, says that the finish     *)
(* times order the runs as their commits did; from it, from the one sorted *)
(* list there is and from what the fold over that list leaves of a day,    *)
(* the readers' basis of a day is that of the run whose rows it has.       *)
(***************************************************************************)
EXTENDS CostIngestion, CostLemmas

(***************************************************************************)
(* The invariant                                                           *)
(***************************************************************************)
Windows == ManualWindows \union {DailyWindow}
Bases == AllowedBases \union {Unrecorded}
Steps == {"none", "looked", "scheduled", "visiting", "fetching", "answered",
          "replacing", "stamped", "raised", "aborted", "rereading",
          "closing", "ended", "abandoned", "dead"}
Holding == {"replacing", "stamped"}         \* the advisory lock
Running == {"scheduled", "fetching", "answered"} \union Holding
Rows == [status : Active \union Closed, window : Windows, requested : Nat,
         finished : Nat, basis : Bases]
Minds == [requested : Nat, window : Windows, answer : SUBSET Days,
          basis : Bases, deleted : SUBSET (Days \X RunIds), finished : Nat,
          found : RunIds \union {NoRun}]
Tellings == {<<>>, <<"succeeded">>, <<"failed">>}

Typed ==
    /\ runs \in [RunIds -> Rows \union {Missing}]
    /\ mind \in [RunIds -> Minds] /\ step \in [RunIds -> Steps]
    /\ told \in [RunIds -> Tellings] /\ costs \subseteq Days \X RunIds
    /\ lock \in RunIds \union {NoRun} /\ recent \subseteq ManualRuns
    /\ overrun \subseteq RunIds /\ stored \in Seq(RunIds)

(* While a run is worked on its row is there, for the window in mind, and  *)
(* the answer lies within that; a visit closes a row that is there.        *)
Fits(r) ==
    /\ step[r] \in Running =>
        runs[r] \in Rows /\ runs[r].window = mind[r].window
    /\ step[r] \in {"answered"} \union Holding =>
        mind[r].answer \subseteq DaysOf(mind[r].window)
    /\ step[r] \in {"rereading", "closing"} =>
        mind[r].found \in RunIds /\ runs[mind[r].found] \in Rows

LockFits(r) == lock = r <=> step[r] \in Holding

Within(window) == {c \in costs : c[1] \in DaysOf(window)}

(* Nobody stores what the holder of the lock has not seen and deleted.     *)
Deleting(r) ==
    step[r] \in Holding => mind[r].deleted = Within(mind[r].window)

StoredHaveEnded ==
    \A i \in 1 .. Len(stored) :
        step[stored[i]] = "ended" /\ runs[stored[i]] \in Rows

(* Nothing is told before the end, and what is told then is what the row   *)
(* shows, until a visit takes the row for one it may close.                *)
Telling(r) ==
    /\ step[r] # "ended" =>
        /\ told[r] = <<>>
        /\ runs[r].status \notin {"success", "partial_success"}
    /\ r \notin overrun =>
        /\ runs[r].status = "success" <=> told[r] = <<"succeeded">>
        /\ told[r] = <<"failed">> =>
            runs[r].status \in {"failed", "partial_success"}
    /\ runs[r].status = "partial_success" => told[r] = <<"failed">>

RunInv(r) ==
    /\ Fits(r) /\ LockFits(r) /\ Deleting(r)
    /\ r \in ManualRuns => Telling(r)

IInv ==
    /\ Typed /\ StoredHaveEnded /\ ReplacedWhole
    /\ \A r \in RunIds : RunInv(r)

(***************************************************************************)
(* Facts about the operators                                               *)
(***************************************************************************)

(* The days of every window are days.                                      *)
LEMMA DaysOfWindows == \A w \in Windows : DaysOf(w) \subseteq Days
BY DEF Windows, Days

(* The number after those of two finite families is a number above them.   *)
LEMMA NextRank ==
  ASSUME NEW D, IsFiniteSet(D), D # {}, NEW E \in SUBSET D,
         NEW A \in SUBSET Nat, NEW f \in Surjection(D, A),
         NEW B \in SUBSET Nat, NEW g \in Surjection(E, B)
  PROVE  /\ 1 + Max(A \union B) \in Nat
         /\ \A x \in A \union B : x < 1 + Max(A \union B)
<1>1. IsFiniteSet(A) /\ IsFiniteSet(B) /\ IsFiniteSet(A \union B)
  BY FS_Subset, FS_Surjection, FS_Union
<1>2. A \union B # {} /\ A \union B \in SUBSET Nat
  BY DEF Surjection
<1>3. /\ Max(A \union B) \in A \union B
      /\ \A x \in A \union B : x <= Max(A \union B)
  BY <1>1, <1>2, MaxOfFinite
<1> DEFINE m == Max(A \union B)
<1>4. m \in Nat /\ \A x \in A \union B : x \in Nat /\ x <= m
  BY <1>2, <1>3
<1> HIDE DEF m
<1>5. 1 + m \in Nat /\ \A x \in A \union B : x < 1 + m
  BY <1>4
<1>6. QED
  BY <1>5 DEF m

(* A run is told of by at most one notification.                           *)
LEMMA TellingsAreShort ==
  \A t \in Tellings : t \in Seq({"succeeded", "failed"}) /\ Len(t) <= 1
<1>1. <<>> \in Seq({"succeeded", "failed"}) /\ Len(<<>>) <= 1
  OBVIOUS
<1>2. ASSUME NEW kind \in {"succeeded", "failed"}
      PROVE  <<kind>> \in Seq({"succeeded", "failed"}) /\ Len(<<kind>>) <= 1
  OBVIOUS
<1>3. QED
  BY <1>1, <1>2, Zenon DEF Tellings

(* The rank of a new request.                                              *)
LEMMA RequestRank ==
  ASSUME Typed, NEW r \in RunIds
  PROVE  NextRequested \in Nat
<1> DEFINE A == {mind[q].requested : q \in RunIds}
           B == {runs[q].requested : q \in ActiveRuns}
           f == [q \in RunIds |-> mind[q].requested]
           g == [q \in ActiveRuns |-> runs[q].requested]
<1>1. A \in SUBSET Nat /\ f \in Surjection(RunIds, A)
  BY DEF Typed, Minds, Surjection
<1>2. /\ ActiveRuns \in SUBSET RunIds
      /\ B \in SUBSET Nat /\ g \in Surjection(ActiveRuns, B)
  <2>1. ActiveRuns \in SUBSET RunIds
    BY DEF ActiveRuns
  <2>2. \A q \in ActiveRuns : runs[q].requested \in Nat
    BY DEF ActiveRuns, Active, Typed, Rows, Missing
  <2>3. QED
    BY <2>1, <2>2 DEF Surjection
<1>3. IsFiniteSet(RunIds) /\ RunIds # {}
  BY IngestionAssumption
<1>4. NextRequested = 1 + Max(A \union B)
  BY DEF NextRequested
<1> HIDE DEF A, B, f, g
<1>5. QED
  BY <1>1, <1>2, <1>3, <1>4, NextRank

(* The rank of a finish is above those of the runs that have finished.     *)
LEMMA FinishRank ==
  ASSUME Typed, NEW r \in RunIds
  PROVE  /\ NextFinished \in Nat
         /\ \A q \in RunIds : runs[q].status \in Closed =>
                runs[q].finished < NextFinished
<1> DEFINE E == {s \in RunIds : runs[s].status \in Closed}
           A == {mind[q].finished : q \in RunIds}
           B == {runs[q].finished : q \in E}
           f == [q \in RunIds |-> mind[q].finished]
           g == [q \in E |-> runs[q].finished]
<1>1. A \in SUBSET Nat /\ f \in Surjection(RunIds, A)
  BY DEF Typed, Minds, Surjection
<1>2. /\ E \in SUBSET RunIds /\ B \in SUBSET Nat /\ g \in Surjection(E, B)
  BY DEF Closed, Typed, Rows, Missing, Surjection
<1>3. IsFiniteSet(RunIds) /\ RunIds # {}
  BY IngestionAssumption
<1>4. NextFinished = 1 + Max(A \union B)
  BY DEF NextFinished
<1>5. \A q \in RunIds : runs[q].status \in Closed =>
        runs[q].finished \in A \union B
  OBVIOUS
<1> HIDE DEF A, B, E, f, g
<1>6. QED
  BY <1>1, <1>2, <1>3, <1>4, <1>5, NextRank

(* A visit that looks for an active run finds one whose row is there.      *)
LEMMA FoundIsActive ==
  ASSUME Typed, LastActiveRun # NoRun
  PROVE  LastActiveRun \in RunIds /\ runs[LastActiveRun] \in Rows
<1> DEFINE f == [q \in ActiveRuns |-> runs[q].requested]
<1>1. ActiveRuns # {} /\ ActiveRuns \in SUBSET RunIds
  BY DEF LastActiveRun, ActiveRuns
<1>2. f \in [ActiveRuns -> Nat] /\ \A q \in ActiveRuns : runs[q] \in Rows
  BY DEF ActiveRuns, Active, Typed, Rows, Missing
<1>3. IsFiniteSet(ActiveRuns)
  BY <1>1, FS_Subset, IngestionAssumption
<1> HIDE DEF f
<1>4. PICK q \in ActiveRuns : \A s \in ActiveRuns : f[s] <= f[q]
  BY <1>1, <1>2, <1>3, SomeLatest
<1>5. \A s \in ActiveRuns : runs[s].requested <= runs[q].requested
  BY <1>4 DEF f
<1>6. LastActiveRun \in ActiveRuns
  BY <1>1, <1>4, <1>5 DEF LastActiveRun
<1>7. QED
  BY <1>1, <1>2, <1>6

(***************************************************************************)
(* What the steps have in common                                           *)
(***************************************************************************)
Elsewhere(r) ==
    \A q \in RunIds \ {r} : /\ step'[q] = step[q] /\ mind'[q] = mind[q]
                            /\ runs'[q] = runs[q] /\ told'[q] = told[q]

Moves(r, next, m, row, t) ==
    /\ step' = [step EXCEPT ![r] = next] /\ mind' = [mind EXCEPT ![r] = m]
    /\ runs' = [runs EXCEPT ![r] = row] /\ told' = [told EXCEPT ![r] = t]

(* A step of one run leaves what is known of the others.                   *)
LEMMA OneMoves ==
  ASSUME Typed, NEW r \in RunIds, NEW next \in Steps, NEW m \in Minds,
         NEW row \in Rows \union {Missing}, NEW t \in Tellings,
         Moves(r, next, m, row, t)
  PROVE  /\ step' \in [RunIds -> Steps] /\ mind' \in [RunIds -> Minds]
         /\ runs' \in [RunIds -> Rows \union {Missing}]
         /\ told' \in [RunIds -> Tellings] /\ Elsewhere(r)
         /\ step'[r] = next /\ mind'[r] = m /\ runs'[r] = row
         /\ told'[r] = t
<1>1. step' \in [RunIds -> Steps] /\ step'[r] = next
  BY DEF Typed, Moves
<1>2. mind' \in [RunIds -> Minds] /\ mind'[r] = m
  BY DEF Typed, Moves
<1>3. runs' \in [RunIds -> Rows \union {Missing}] /\ runs'[r] = row
  BY DEF Typed, Moves
<1>4. told' \in [RunIds -> Tellings] /\ told'[r] = t
  BY DEF Typed, Moves
<1>5. Elsewhere(r)
  BY DEF Typed, Moves, Elsewhere
<1>6. QED
  BY <1>1, <1>2, <1>3, <1>4, <1>5

(* What a step leaves alone it sets to what it was.                        *)
LEMMA Unmoved ==
  ASSUME Typed, NEW r \in RunIds
  PROVE  /\ mind[r] \in Minds /\ runs[r] \in Rows \union {Missing}
         /\ told[r] \in Tellings /\ step[r] \in Steps
         /\ mind' = mind => mind' = [mind EXCEPT ![r] = mind[r]]
         /\ runs' = runs => runs' = [runs EXCEPT ![r] = runs[r]]
         /\ told' = told => told' = [told EXCEPT ![r] = told[r]]
<1>1. /\ mind[r] \in Minds /\ runs[r] \in Rows \union {Missing}
      /\ told[r] \in Tellings /\ step[r] \in Steps
  BY DEF Typed
<1>2. mind = [mind EXCEPT ![r] = mind[r]]
  BY DEF Typed
<1>3. runs = [runs EXCEPT ![r] = runs[r]]
  BY DEF Typed
<1>4. told = [told EXCEPT ![r] = told[r]]
  BY DEF Typed
<1>5. QED
  BY <1>1, <1>2, <1>3, <1>4

(* The other runs keep their part of the invariant while r moves, whatever *)
(* becomes of the costs.                                                   *)
LEMMA OthersKeep ==
  ASSUME IInv, NEW r \in RunIds, NEW q \in RunIds \ {r}, Elsewhere(r),
         runs[r] \in Rows => runs'[r] \in Rows,
         lock' = q <=> lock = q, overrun' = overrun
  PROVE  Fits(q)' /\ LockFits(q)' /\ (q \in ManualRuns => Telling(q)')
<1>1. /\ step'[q] = step[q] /\ mind'[q] = mind[q]
      /\ runs'[q] = runs[q] /\ told'[q] = told[q]
  BY DEF Elsewhere
<1>2. Fits(q) /\ LockFits(q) /\ (q \in ManualRuns => Telling(q))
  BY DEF IInv, RunInv
<1>3. Fits(q)'
  <2>1. CASE mind[q].found = r
    BY <1>1, <1>2, <2>1 DEF Fits, Running, Holding
  <2>2. CASE mind[q].found # r
    BY <1>1, <1>2, <2>2 DEF Fits, Elsewhere, Running, Holding
  <2>3. QED
    BY <2>1, <2>2
<1>4. LockFits(q)'
  BY <1>1, <1>2 DEF LockFits
<1>5. q \in ManualRuns => Telling(q)'
  BY <1>1, <1>2 DEF Telling
<1>6. QED
  BY <1>3, <1>4, <1>5

(* A day's last run is the same while no run is stored and no stored one   *)
(* changes its window.                                                     *)
LEMMA LastStoredStays ==
  ASSUME NEW day, stored' = stored,
         \A i \in DOMAIN stored :
            runs'[stored[i]].window = runs[stored[i]].window
  PROVE  LastStored(day)' = LastStored(day)
<1> DEFINE cov == {i \in DOMAIN stored :
                      day \in DaysOf(runs[stored[i]].window)}
           cov2 == {i \in DOMAIN stored' :
                      day \in DaysOf(runs'[stored'[i]].window)}
<1>1. cov2 = cov
  OBVIOUS
<1>2. /\ LastStored(day) = IF cov = {} THEN NoRun ELSE stored[Max(cov)]
      /\ LastStored(day)' = IF cov2 = {} THEN NoRun ELSE stored'[Max(cov2)]
  BY DEF LastStored
<1> HIDE DEF cov, cov2
<1>3. QED
  BY <1>1, <1>2, Zenon

(* The run of a day is the last of those stored that cover it.             *)
LEMMA LastStoredIsLast ==
  ASSUME Typed, NEW day
  PROVE  \/ /\ LastStored(day) = NoRun
            /\ \A k \in 1 .. Len(stored) :
                  day \notin DaysOf(runs[stored[k]].window)
         \/ \E i \in 1 .. Len(stored) :
              /\ LastStored(day) = stored[i]
              /\ day \in DaysOf(runs[stored[i]].window)
              /\ \A k \in 1 .. Len(stored) :
                    day \in DaysOf(runs[stored[k]].window) => k <= i
<1> DEFINE D == 1 .. Len(stored)
           f == [i \in D |-> i]
           cov == {i \in D : day \in DaysOf(runs[stored[i]].window)}
<1>1. Len(stored) \in Nat /\ DOMAIN stored = D
  BY DEF Typed
<1>2. LastStored(day) = IF cov = {} THEN NoRun ELSE stored[Max(cov)]
  BY <1>1 DEF LastStored
<1>3. CASE cov = {}
  BY <1>2, <1>3
<1>4. CASE cov # {}
  <2>1. IsFiniteSet(D) /\ f \in [D -> Nat] /\ cov \in SUBSET D
    BY <1>1, FS_Interval
  <2>2. cov \in SUBSET Nat
    BY <1>1
  <2>3. PICK m \in cov : \A k \in cov : k <= m
    <3> HIDE DEF cov
    <3>1. \A k \in cov : f[k] = k
      BY <2>1
    <3> HIDE DEF f, D
    <3>2. PICK m \in cov : \A k \in cov : f[k] <= f[m]
      BY <1>4, <2>1, SomeLatest
    <3>3. QED
      BY <3>1, <3>2
  <2>4. Max(cov) = m
    <3> HIDE DEF cov
    <3>1. QED
      BY <2>2, <2>3, MaxIsLatest
  <2>5. LastStored(day) = stored[m]
    BY <1>2, <1>4, <2>4
  <2>6. QED
    BY <2>3, <2>5
<1>5. QED
  BY <1>3, <1>4

(* A run that is stored becomes the last of the days it covers.            *)
LEMMA LastStoredMoves ==
  ASSUME Typed, NEW r \in RunIds, stored' = Append(stored, r), NEW day,
         \A i \in 1 .. Len(stored) :
            runs'[stored[i]].window = runs[stored[i]].window
  PROVE  /\ day \in DaysOf(runs'[r].window) => LastStored(day)' = r
         /\ day \notin DaysOf(runs'[r].window) =>
              LastStored(day)' = LastStored(day)
<1> DEFINE n == Len(stored)
           cov2 == {i \in 1 .. n + 1 :
                       day \in DaysOf(runs'[stored'[i]].window)}
<1>1. /\ n \in Nat /\ DOMAIN stored' = 1 .. n + 1 /\ stored'[n + 1] = r
      /\ \A i \in 1 .. n : stored'[i] = stored[i]
  BY DEF Typed
<1>2. LastStored(day)' = IF cov2 = {} THEN NoRun ELSE stored'[Max(cov2)]
  BY <1>1 DEF LastStored
<1>3. cov2 \in SUBSET Nat
  BY <1>1
<1>4. CASE day \in DaysOf(runs'[r].window)
  <2>1. n + 1 \in cov2 /\ \A k \in cov2 : k <= n + 1
    BY <1>1, <1>4
  <2> HIDE DEF cov2, n
  <2>2. Max(cov2) = n + 1
    BY <1>3, <2>1, MaxIsLatest
  <2>3. QED
    BY <1>1, <1>2, <1>4, <2>1, <2>2
<1>5. CASE day \notin DaysOf(runs'[r].window)
  <2>1. \A k \in cov2 : k \in 1 .. n /\ day \in DaysOf(runs[stored[k]].window)
    BY <1>1, <1>5
  <2>2. CASE /\ LastStored(day) = NoRun
             /\ \A k \in 1 .. n : day \notin DaysOf(runs[stored[k]].window)
    <3>1. cov2 = {}
      BY <2>1, <2>2
    <3> HIDE DEF cov2
    <3>2. QED
      BY <1>2, <1>5, <2>2, <3>1
  <2>3. ASSUME NEW i \in 1 .. n, LastStored(day) = stored[i],
               day \in DaysOf(runs[stored[i]].window),
               \A k \in 1 .. n :
                  day \in DaysOf(runs[stored[k]].window) => k <= i
        PROVE  LastStored(day)' = LastStored(day)
    <3>1. i \in cov2 /\ \A k \in cov2 : k <= i
      BY <1>1, <2>1, <2>3
    <3> HIDE DEF cov2
    <3>2. Max(cov2) = i
      BY <1>3, <3>1, MaxIsLatest
    <3>3. QED
      BY <1>1, <1>2, <2>3, <3>1, <3>2
  <2>4. QED
    BY <1>5, <2>2, <2>3, LastStoredIsLast
<1>6. QED
  BY <1>4, <1>5

(* While nothing is stored, the days keep their rows and their runs.       *)
LEMMA NothingStored ==
  ASSUME IInv, UNCHANGED <<costs, stored>>,
         ASSUME NEW q \in RunIds, step[q] = "ended"
         PROVE  /\ step'[q] = "ended" /\ mind'[q].answer = mind[q].answer
                /\ runs[q] \in Rows =>
                    runs'[q] \in Rows /\ runs'[q].window = runs[q].window
  PROVE  StoredHaveEnded' /\ ReplacedWhole'
<1>1. Typed /\ Len(stored) \in Nat /\ DOMAIN stored = 1 .. Len(stored)
  BY DEF IInv, Typed
<1>2. ASSUME NEW i \in 1 .. Len(stored)
      PROVE  /\ stored[i] \in RunIds /\ step'[stored[i]] = "ended"
             /\ runs'[stored[i]] \in Rows
             /\ runs'[stored[i]].window = runs[stored[i]].window
             /\ mind'[stored[i]].answer = mind[stored[i]].answer
  <2>1. stored[i] \in RunIds
    BY <1>1 DEF Typed
  <2>2. step[stored[i]] = "ended" /\ runs[stored[i]] \in Rows
    BY DEF IInv, StoredHaveEnded
  <2>3. QED
    BY <2>1, <2>2
<1>3. StoredHaveEnded'
  BY <1>1, <1>2 DEF StoredHaveEnded
<1>4. ASSUME NEW day \in Days
      PROVE  ({c[2] : c \in {x \in costs : x[1] = day}} =
               {r \in {LastStored(day)} \ {NoRun} : day \in mind[r].answer})'
  <2>1. LastStored(day)' = LastStored(day)
    BY <1>1, <1>2, LastStoredStays
  <2>2. PICK z : z = LastStored(day)
    OBVIOUS
  <2>3. z # NoRun => mind'[z].answer = mind[z].answer
    BY <1>1, <1>2, <2>2, LastStoredIsLast
  <2>4. {c[2] : c \in {x \in costs : x[1] = day}} =
          {r \in {z} \ {NoRun} : day \in mind[r].answer}
    BY <2>2 DEF IInv, ReplacedWhole
  <2>5. {r \in {z} \ {NoRun} : day \in mind'[r].answer} =
          {r \in {z} \ {NoRun} : day \in mind[r].answer}
    BY <2>3
  <2>6. QED
    BY <2>1, <2>2, <2>4, <2>5
<1>5. ReplacedWhole'
  BY <1>4 DEF ReplacedWhole, Days
<1>6. QED
  BY <1>3, <1>5

(* A step of one run that stores nothing.                                  *)
LEMMA RunMoves ==
  ASSUME IInv, NEW r \in RunIds, NEW next \in Steps, NEW m \in Minds,
         NEW row \in Rows \union {Missing}, NEW t \in Tellings,
         Moves(r, next, m, row, t), step[r] # "ended",
         UNCHANGED <<costs, stored, overrun>>, recent' \subseteq ManualRuns,
         lock' \in RunIds \union {NoRun}, lock' = r <=> next \in Holding,
         \A q \in RunIds \ {r} : lock' = q <=> lock = q,
         runs[r] \in Rows => row \in Rows,
         next \in Running => row \in Rows /\ row.window = m.window,
         next \in {"answered"} \union Holding =>
            m.answer \subseteq DaysOf(m.window),
         next \in {"rereading", "closing"} =>
            m.found \in RunIds /\ runs[m.found] \in Rows,
         next \in Holding => m.deleted = Within(m.window),
         r \in ManualRuns =>
            /\ next # "ended" =>
                t = <<>> /\ row.status \notin {"success", "partial_success"}
            /\ row.status # "success" /\ t # <<"succeeded">>
            /\ t = <<"failed">> => row.status \in {"failed", "partial_success"}
            /\ row.status = "partial_success" => t = <<"failed">>
  PROVE  IInv'
<1>1. /\ step' \in [RunIds -> Steps] /\ mind' \in [RunIds -> Minds]
      /\ runs' \in [RunIds -> Rows \union {Missing}]
      /\ told' \in [RunIds -> Tellings] /\ Elsewhere(r)
      /\ step'[r] = next /\ mind'[r] = m /\ runs'[r] = row /\ told'[r] = t
  BY OneMoves DEF IInv
<1>2. Typed'
  BY <1>1 DEF IInv, Typed, Days
<1>3. StoredHaveEnded' /\ ReplacedWhole'
  <2>1. ASSUME NEW q \in RunIds, step[q] = "ended"
        PROVE  /\ step'[q] = "ended" /\ mind'[q].answer = mind[q].answer
               /\ runs[q] \in Rows =>
                   runs'[q] \in Rows /\ runs'[q].window = runs[q].window
    BY <1>1, <2>1 DEF Elsewhere
  <2>2. QED
    BY <2>1, NothingStored
<1>4. RunInv(r)'
  <2>1. next \in {"rereading", "closing"} => runs'[m.found] \in Rows
    BY <1>1 DEF Elsewhere
  <2>2. Fits(r)'
    BY <1>1, <2>1 DEF Fits
  <2>3. LockFits(r)'
    BY <1>1 DEF LockFits
  <2>4. Deleting(r)'
    BY <1>1 DEF Deleting, Within
  <2>5. r \in ManualRuns => Telling(r)'
    BY <1>1 DEF Telling
  <2>6. QED
    BY <2>2, <2>3, <2>4, <2>5 DEF RunInv
<1>5. ASSUME NEW q \in RunIds \ {r} PROVE RunInv(q)'
  <2>1. Fits(q)' /\ LockFits(q)' /\ (q \in ManualRuns => Telling(q)')
    BY <1>1, OthersKeep
  <2>2. Deleting(q)'
    BY <1>1 DEF IInv, RunInv, Deleting, Within, Elsewhere
  <2>3. QED
    BY <2>1, <2>2 DEF RunInv
<1>6. QED
  BY <1>2, <1>3, <1>4, <1>5 DEF IInv

(* What is known of the run that steps.                                    *)
LEMMA Knows ==
  ASSUME IInv, NEW r \in RunIds
  PROVE  /\ Typed /\ Fits(r) /\ LockFits(r) /\ Deleting(r)
         /\ r \in ManualRuns => Telling(r)
         /\ mind[r] \in Minds /\ runs[r] \in Rows \union {Missing}
         /\ told[r] \in Tellings /\ step[r] \in Steps /\ NoRun \notin RunIds
         /\ lock \in RunIds \union {NoRun} /\ recent \subseteq ManualRuns
         /\ EmptyMind \in Minds
<1>1. /\ Typed /\ Fits(r) /\ LockFits(r) /\ Deleting(r)
      /\ r \in ManualRuns => Telling(r)
  BY DEF IInv, RunInv
<1>2. /\ mind[r] \in Minds /\ runs[r] \in Rows \union {Missing}
      /\ told[r] \in Tellings /\ step[r] \in Steps /\ NoRun \notin RunIds
      /\ lock \in RunIds \union {NoRun} /\ recent \subseteq ManualRuns
  BY <1>1, IngestionAssumption DEF Typed
<1>3. EmptyMind \in Minds
  BY DEF EmptyMind, Minds, Windows, Bases
<1>4. QED
  BY <1>1, <1>2, <1>3

(* A row changes its status alone.                                         *)
LEMMA StatusMoves ==
  ASSUME Typed, NEW r \in RunIds, runs[r] \in Rows,
         NEW status \in Active \union Closed, Status(r, status)
  PROVE  \E row \in Rows : /\ runs' = [runs EXCEPT ![r] = row]
                           /\ row.status = status
                           /\ row.window = runs[r].window
<1>1. PICK row \in Rows : row = [runs[r] EXCEPT !.status = status]
  BY DEF Rows
<1>2. row.status = status /\ row.window = runs[r].window
  BY <1>1 DEF Rows
<1>3. runs' = [runs EXCEPT ![r] = row]
  BY <1>1 DEF Status, Typed
<1>4. QED
  BY <1>2, <1>3

(* A manual run is told of, a daily one is not.                            *)
LEMMA NotifyMoves ==
  ASSUME Typed, NEW r \in RunIds, NEW kind \in {"succeeded", "failed"},
         Notify(r, kind), r \in ManualRuns => told[r] = <<>>
  PROVE  \E t \in Tellings : /\ told' = [told EXCEPT ![r] = t]
                             /\ r \in ManualRuns => t = <<kind>>
<1>1. CASE r \in ManualRuns
  <2>1. told' = [told EXCEPT ![r] = <<kind>>]
    BY <1>1 DEF Notify, Typed
  <2>2. QED
    BY <2>1 DEF Tellings
<1>2. CASE r \notin ManualRuns
  BY <1>2, Unmoved DEF Notify
<1>3. QED
  BY <1>1, <1>2

(***************************************************************************)
(* The steps                                                               *)
(***************************************************************************)

(* A step that only goes on to where nothing of the run is needed, its     *)
(* session's lock kept or let go.                                          *)
LEMMA OnlyGoes ==
  ASSUME IInv, NEW r \in RunIds,
         NEW next \in {"raised", "aborted", "abandoned", "dead"},
         NEW m \in Minds, Goto(r, next), mind' = [mind EXCEPT ![r] = m],
         UNCHANGED <<runs, costs, told, recent, stored, overrun>>,
         step[r] # "ended",
         lock' = IF step[r] \in Holding THEN NoRun ELSE lock
  PROVE  IInv'
<1>1. /\ Typed /\ runs[r] \in Rows \union {Missing} /\ told[r] \in Tellings
      /\ NoRun \notin RunIds /\ lock \in RunIds \union {NoRun}
      /\ recent \subseteq ManualRuns /\ LockFits(r)
      /\ r \in ManualRuns => Telling(r)
  BY Knows
<1>2. next \in Steps /\ next \notin Running /\ next \notin Holding
  BY DEF Steps, Running, Holding
<1>3. Moves(r, next, m, runs[r], told[r])
  BY <1>1, Unmoved DEF Moves, Goto
<1>4. /\ lock' \in RunIds \union {NoRun} /\ lock' = r <=> next \in Holding
      /\ \A q \in RunIds \ {r} : lock' = q <=> lock = q
  BY <1>1, <1>2 DEF LockFits
<1>5. r \in ManualRuns =>
        told[r] = <<>> /\ runs[r].status \notin {"success", "partial_success"}
  BY <1>1 DEF Telling
<1>6. QED
  BY <1>1, <1>2, <1>3, <1>4, <1>5, RunMoves

(* A request or a visit that has looked: nothing is there but in mind.     *)
LEMMA OnlyLooks ==
  ASSUME IInv, NEW r \in RunIds, NEW window \in Windows,
         NEW next \in {"looked", "visiting"}, step[r] = "none",
         mind' = [mind EXCEPT ![r].requested = NextRequested,
                              ![r].window = window],
         Goto(r, next),
         UNCHANGED <<runs, costs, lock, told, recent, stored, overrun>>
  PROVE  IInv'
<1>1. /\ Typed /\ runs[r] \in Rows \union {Missing} /\ told[r] \in Tellings
      /\ mind[r] \in Minds /\ lock \in RunIds \union {NoRun}
      /\ recent \subseteq ManualRuns /\ LockFits(r)
      /\ r \in ManualRuns => Telling(r)
  BY Knows
<1>2. /\ next \in Steps /\ next \notin Running /\ next \notin Holding
      /\ step[r] \notin Holding
  BY DEF Steps, Running, Holding
<1>3. NextRequested \in Nat
  BY <1>1, RequestRank
<1>4. PICK m \in Minds : m = [mind[r] EXCEPT !.requested = NextRequested,
                                             !.window = window]
  BY <1>1, <1>3 DEF Minds
<1>5. mind' = [mind EXCEPT ![r] = m]
  BY <1>1, <1>4 DEF Typed
<1>6. Moves(r, next, m, runs[r], told[r])
  BY <1>1, <1>5, Unmoved DEF Moves, Goto
<1>7. r \in ManualRuns =>
        told[r] = <<>> /\ runs[r].status \notin {"success", "partial_success"}
  BY <1>1 DEF Telling
<1>8. lock' = r <=> next \in Holding
  BY <1>1, <1>2 DEF LockFits
<1>9. QED
  BY <1>1, <1>2, <1>6, <1>7, <1>8, RunMoves

(* A run is inserted, for the window in mind.                              *)
LEMMA OnlyInserts ==
  ASSUME IInv, NEW r \in RunIds, NEW status \in Active,
         NEW next \in {"scheduled", "fetching"},
         step[r] \in {"looked", "visiting"},
         runs' = [runs EXCEPT ![r] = Row(r, status)], Goto(r, next),
         UNCHANGED <<costs, mind, lock, told, recent, stored, overrun>>
  PROVE  IInv'
<1>1. /\ Typed /\ told[r] \in Tellings
      /\ mind[r] \in Minds /\ lock \in RunIds \union {NoRun}
      /\ recent \subseteq ManualRuns /\ LockFits(r)
      /\ r \in ManualRuns => Telling(r)
  BY Knows
<1>2. /\ next \in Steps /\ next \notin Holding /\ step[r] \notin Holding
      /\ next # "answered"
  BY DEF Steps, Holding
<1>3. PICK row \in Rows : row = Row(r, status)
  BY <1>1 DEF Row, Rows, Minds, Bases
<1>4. row.status = status /\ row.window = mind[r].window
  BY <1>3 DEF Row
<1>5. Moves(r, next, mind[r], row, told[r])
  BY <1>1, <1>3, Unmoved DEF Moves, Goto
<1>6. /\ r \in ManualRuns => told[r] = <<>>
      /\ row.status \notin {"success", "partial_success"}
  BY <1>1, <1>4 DEF Telling, Active
<1>7. lock' = r <=> next \in Holding
  BY <1>1, <1>2 DEF LockFits
<1>8. QED
  BY <1>1, <1>2, <1>4, <1>5, <1>6, <1>7, RunMoves

(* A run ends with nothing stored, and its user is told.                   *)
LEMMA OnlyFails ==
  ASSUME IInv, NEW r \in RunIds, NEW status \in {"failed", "partial_success"},
         step[r] \in {"scheduled", "fetching", "answered"},
         Status(r, status), Notify(r, "failed"), End(r),
         UNCHANGED <<costs, lock, recent, stored, overrun>>
  PROVE  IInv'
<1>1. /\ Typed /\ EmptyMind \in Minds /\ lock \in RunIds \union {NoRun}
      /\ recent \subseteq ManualRuns /\ LockFits(r) /\ Fits(r)
      /\ r \in ManualRuns => Telling(r)
  BY Knows
<1>2. step[r] \in Running /\ step[r] \notin Holding /\ "ended" \in Steps
  BY DEF Steps, Running, Holding
<1>3. runs[r] \in Rows /\ (r \in ManualRuns => told[r] = <<>>)
  BY <1>1, <1>2 DEF Fits, Telling
<1>4. PICK row \in Rows : /\ runs' = [runs EXCEPT ![r] = row]
                          /\ row.status = status
  BY <1>1, <1>3, StatusMoves DEF Closed
<1>5. PICK t \in Tellings : /\ told' = [told EXCEPT ![r] = t]
                            /\ r \in ManualRuns => t = <<"failed">>
  BY <1>1, <1>3, NotifyMoves
<1>6. Moves(r, "ended", EmptyMind, row, t)
  BY <1>4, <1>5 DEF Moves, End, Goto
<1>7. "ended" \notin Running /\ "ended" \notin Holding
  BY DEF Running, Holding
<1>8. lock' = r <=> "ended" \in Holding
  BY <1>1, <1>2, <1>7 DEF LockFits
<1>9. <<"failed">> # <<"succeeded">>
  OBVIOUS
<1>10. QED
  BY <1>1, <1>2, <1>4, <1>5, <1>6, <1>7, <1>8, <1>9, RunMoves

(* The task begins to fetch.                                               *)
LEMMA BeginRunInv ==
  ASSUME IInv, NEW r \in RunIds, BeginRun(r)
  PROVE  IInv'
<1>1. /\ Typed /\ mind[r] \in Minds /\ told[r] \in Tellings
      /\ lock \in RunIds \union {NoRun}
      /\ recent \subseteq ManualRuns /\ LockFits(r) /\ Fits(r)
      /\ r \in ManualRuns => Telling(r)
  BY Knows
<1>2. /\ step[r] = "scheduled" /\ Status(r, "running") /\ Goto(r, "fetching")
      /\ UNCHANGED <<costs, mind, lock, told, recent, stored, overrun>>
  BY DEF BeginRun
<1>3. /\ "fetching" \in Steps /\ "fetching" \notin Holding
      /\ "scheduled" \in Running /\ "scheduled" \notin Holding
  BY DEF Steps, Running, Holding
<1>4. runs[r] \in Rows /\ runs[r].window = mind[r].window
  BY <1>1, <1>2, <1>3 DEF Fits
<1>5. PICK row \in Rows : /\ runs' = [runs EXCEPT ![r] = row]
                          /\ row.status = "running"
                          /\ row.window = runs[r].window
  BY <1>1, <1>2, <1>4, StatusMoves DEF Active
<1>6. Moves(r, "fetching", mind[r], row, told[r])
  BY <1>1, <1>2, <1>5, Unmoved DEF Moves, Goto
<1>7. r \in ManualRuns => told[r] = <<>>
  BY <1>1, <1>2 DEF Telling
<1>8. lock' = r <=> "fetching" \in Holding
  BY <1>1, <1>2, <1>3 DEF LockFits
<1>9. QED
  BY <1>1, <1>2, <1>3, <1>4, <1>5, <1>6, <1>7, <1>8, RunMoves

(* The answer is cut to the window that was asked for.                     *)
LEMMA FetchAnswersInv ==
  ASSUME IInv, NEW r \in RunIds, NEW charged, NEW basis \in AllowedBases,
         FetchAnswers(r, charged, basis)
  PROVE  IInv'
<1>1. /\ Typed /\ mind[r] \in Minds /\ told[r] \in Tellings
      /\ lock \in RunIds \union {NoRun}
      /\ recent \subseteq ManualRuns /\ LockFits(r) /\ Fits(r)
      /\ r \in ManualRuns => Telling(r)
  BY Knows
<1>2. /\ step[r] = "fetching" /\ Goto(r, "answered")
      /\ UNCHANGED <<runs, costs, lock, told, recent, stored, overrun>>
  BY DEF FetchAnswers
<1>3. /\ "answered" \in Steps /\ "answered" \notin Holding
      /\ "fetching" \in Running /\ "fetching" \notin Holding
  BY DEF Steps, Running, Holding
<1>4. PICK b \in Bases : b = ResolveBasis(basis, CostProvider)
  BY DEF ResolveBasis, Bases
<1>5. PICK a \in SUBSET Days : a = charged \intersect DaysOf(mind[r].window)
  BY <1>1, DaysOfWindows DEF Minds
<1>6. PICK m \in Minds : m = [mind[r] EXCEPT !.answer = a, !.basis = b]
  BY <1>1 DEF Minds
<1>7. m.window = mind[r].window /\ m.answer = a
  BY <1>1, <1>6 DEF Minds
<1>8. mind' = [mind EXCEPT ![r] = m]
  <2>1. mind' = [mind EXCEPT ![r].answer = a, ![r].basis = b]
    BY <1>4, <1>5 DEF FetchAnswers
  <2>2. QED
    BY <1>1, <1>6, <2>1 DEF Typed
<1>9. Moves(r, "answered", m, runs[r], told[r])
  BY <1>1, <1>2, <1>8, Unmoved DEF Moves, Goto
<1>10. runs[r] \in Rows /\ runs[r].window = mind[r].window
  BY <1>1, <1>2, <1>3 DEF Fits
<1>11. r \in ManualRuns =>
        told[r] = <<>> /\ runs[r].status \notin {"success", "partial_success"}
  BY <1>1, <1>2 DEF Telling
<1>12. lock' = r <=> "answered" \in Holding
  BY <1>1, <1>2, <1>3 DEF LockFits
<1>13. m.answer \subseteq DaysOf(m.window)
  BY <1>5, <1>7
<1>14. QED
  BY <1>1, <1>2, <1>3, <1>7, <1>9, <1>10, <1>11, <1>12, <1>13, RunMoves

(* Under the lock the run deletes all it sees of its window.               *)
LEMMA BeginReplaceInv ==
  ASSUME IInv, NEW r \in RunIds, BeginReplace(r)
  PROVE  IInv'
<1>1. /\ Typed /\ mind[r] \in Minds /\ told[r] \in Tellings
      /\ recent \subseteq ManualRuns /\ NoRun \notin RunIds /\ Fits(r)
      /\ r \in ManualRuns => Telling(r)
  BY Knows
<1>2. /\ step[r] = "answered" /\ Goto(r, "replacing") /\ lock = NoRun
      /\ lock' = r
      /\ UNCHANGED <<runs, costs, told, recent, stored, overrun>>
  BY DEF BeginReplace
<1>3. /\ "replacing" \in Steps /\ "replacing" \in Holding
      /\ "answered" \in Running
  BY DEF Steps, Running, Holding
<1>4. PICK d \in SUBSET (Days \X RunIds) : d = Within(mind[r].window)
  BY <1>1 DEF Within, Typed
<1>5. PICK m \in Minds : m = [mind[r] EXCEPT !.deleted = d]
  BY <1>1 DEF Minds
<1>6. /\ m.window = mind[r].window /\ m.answer = mind[r].answer
      /\ m.deleted = d
  BY <1>1, <1>5 DEF Minds
<1>7. mind' = [mind EXCEPT ![r] = m]
  <2>1. mind' = [mind EXCEPT ![r].deleted = d]
    BY <1>4 DEF BeginReplace, Within
  <2>2. QED
    BY <1>1, <1>5, <2>1 DEF Typed
<1>8. Moves(r, "replacing", m, runs[r], told[r])
  BY <1>1, <1>2, <1>7, Unmoved DEF Moves, Goto
<1>9. /\ runs[r] \in Rows /\ runs[r].window = mind[r].window
      /\ mind[r].answer \subseteq DaysOf(mind[r].window)
  BY <1>1, <1>2, <1>3 DEF Fits
<1>10. r \in ManualRuns =>
        told[r] = <<>> /\ runs[r].status \notin {"success", "partial_success"}
  BY <1>1, <1>2 DEF Telling
<1>11. m.deleted = Within(m.window) /\ m.answer \subseteq DaysOf(m.window)
  BY <1>4, <1>6, <1>9
<1>12. \A q \in RunIds \ {r} : lock' = q <=> lock = q
  BY <1>1, <1>2
<1>13. QED
  BY <1>1, <1>2, <1>3, <1>6, <1>8, <1>9, <1>10, <1>11, <1>12, RunMoves

(* The time of the finish is taken under the lock.                         *)
LEMMA StampRunInv ==
  ASSUME IInv, NEW r \in RunIds, StampRun(r)
  PROVE  IInv'
<1>1. /\ Typed /\ mind[r] \in Minds /\ told[r] \in Tellings
      /\ recent \subseteq ManualRuns /\ lock \in RunIds \union {NoRun}
      /\ Fits(r) /\ LockFits(r) /\ Deleting(r)
      /\ r \in ManualRuns => Telling(r)
  BY Knows
<1>2. /\ step[r] = "replacing" /\ Goto(r, "stamped")
      /\ mind' = [mind EXCEPT ![r].finished = NextFinished]
      /\ UNCHANGED <<runs, costs, lock, told, recent, stored, overrun>>
  BY DEF StampRun
<1>3. /\ "stamped" \in Steps /\ "stamped" \in Holding
      /\ "replacing" \in Running /\ "replacing" \in Holding
  BY DEF Steps, Running, Holding
<1>4. PICK n \in Nat : n = NextFinished
  BY <1>1, FinishRank
<1>5. PICK m \in Minds : m = [mind[r] EXCEPT !.finished = n]
  BY <1>1 DEF Minds
<1>6. /\ m.window = mind[r].window /\ m.answer = mind[r].answer
      /\ m.deleted = mind[r].deleted
  BY <1>1, <1>5 DEF Minds
<1>7. mind' = [mind EXCEPT ![r] = m]
  BY <1>1, <1>2, <1>4, <1>5 DEF Typed
<1>8. Moves(r, "stamped", m, runs[r], told[r])
  BY <1>1, <1>2, <1>7, Unmoved DEF Moves, Goto
<1>9. /\ runs[r] \in Rows /\ runs[r].window = mind[r].window
      /\ mind[r].answer \subseteq DaysOf(mind[r].window)
  BY <1>1, <1>2, <1>3 DEF Fits
<1>10. r \in ManualRuns =>
        told[r] = <<>> /\ runs[r].status \notin {"success", "partial_success"}
  BY <1>1, <1>2 DEF Telling
<1>11. m.deleted = Within(m.window) /\ m.answer \subseteq DaysOf(m.window)
  BY <1>1, <1>2, <1>3, <1>6, <1>9 DEF Deleting
<1>12. lock' = r
  BY <1>1, <1>2, <1>3 DEF LockFits
<1>13. QED
  BY <1>1, <1>2, <1>3, <1>6, <1>8, <1>9, <1>10, <1>11, <1>12, RunMoves

(* The commit: the rows of the window go, those of the answer come, the    *)
(* run becomes the last of the days of its window, and its user is told.   *)
LEMMA CommitRunInv ==
  ASSUME IInv, NEW r \in RunIds, CommitRun(r)
  PROVE  IInv'
<1>1. /\ Typed /\ mind[r] \in Minds /\ runs[r] \in Rows \union {Missing}
      /\ recent \subseteq ManualRuns /\ EmptyMind \in Minds
      /\ NoRun \notin RunIds /\ Fits(r) /\ LockFits(r) /\ Deleting(r)
      /\ r \in ManualRuns => Telling(r)
  BY Knows
<1>2. /\ step[r] = "stamped" /\ Goto(r, "ended") /\ lock' = NoRun
      /\ Notify(r, "succeeded") /\ stored' = Append(stored, r)
      /\ recent' = recent \union ({r} \intersect ManualRuns)
      /\ overrun' = overrun
  BY DEF CommitRun
<1>3. "ended" \in Steps /\ "stamped" \in Running /\ "stamped" \in Holding
  BY DEF Steps, Running, Holding
<1>4. PICK w \in Windows, a \in SUBSET Days, old \in SUBSET costs :
         w = mind[r].window /\ a = mind[r].answer /\ old = Within(w)
  BY <1>1 DEF Minds, Within
<1>5. /\ runs[r] \in Rows /\ runs[r].window = w /\ a \subseteq DaysOf(w)
      /\ mind[r].deleted = old /\ lock = r
      /\ r \in ManualRuns => told[r] = <<>>
  BY <1>1, <1>2, <1>3, <1>4 DEF Fits, Deleting, LockFits, Telling
<1>6. PICK row \in Rows : /\ runs' = [runs EXCEPT ![r] = row]
                          /\ row.status = "success" /\ row.window = w
  <2>1. mind[r].finished \in Nat /\ mind[r].basis \in Bases
    BY <1>1 DEF Minds
  <2>2. PICK row \in Rows :
           row = [runs[r] EXCEPT !.status = "success",
                     !.finished = mind[r].finished, !.basis = mind[r].basis]
    BY <1>5, <2>1 DEF Rows, Closed
  <2>3. row.status = "success" /\ row.window = w
    BY <1>5, <2>2 DEF Rows
  <2>4. runs' = [runs EXCEPT ![r] = row]
    BY <1>1, <2>2 DEF CommitRun, Typed
  <2>5. QED
    BY <2>3, <2>4
<1>7. PICK m \in Minds : mind' = [mind EXCEPT ![r] = m] /\ m.answer = a
  <2>1. PICK m \in Minds : m = [EmptyMind EXCEPT !.answer = mind[r].answer]
    BY <1>1, <1>4 DEF EmptyMind, Minds
  <2>2. m.answer = a
    BY <1>1, <1>4, <2>1 DEF Minds
  <2>3. mind' = [mind EXCEPT ![r] = m]
    BY <2>1 DEF CommitRun
  <2>4. QED
    BY <2>2, <2>3
<1>8. PICK t \in Tellings : /\ told' = [told EXCEPT ![r] = t]
                            /\ r \in ManualRuns => t = <<"succeeded">>
  BY <1>1, <1>2, <1>5, NotifyMoves
<1>9. /\ step' \in [RunIds -> Steps] /\ mind' \in [RunIds -> Minds]
      /\ runs' \in [RunIds -> Rows \union {Missing}]
      /\ told' \in [RunIds -> Tellings] /\ Elsewhere(r)
      /\ step'[r] = "ended" /\ mind'[r] = m /\ runs'[r] = row
      /\ told'[r] = t
  <2>1. Moves(r, "ended", m, row, t)
    BY <1>2, <1>6, <1>7, <1>8 DEF Moves, Goto
  <2>2. QED
    BY <1>1, <1>3, <2>1, OneMoves
<1>10. costs' = (costs \ old) \union (a \X {r})
  BY <1>4, <1>5 DEF CommitRun
<1>11. Typed'
  <2>1. costs' \subseteq Days \X RunIds /\ stored' \in Seq(RunIds)
    BY <1>1, <1>2, <1>10 DEF Typed
  <2>2. QED
    BY <1>1, <1>2, <1>9, <2>1 DEF Typed, Days
<1>12. ASSUME NEW i \in 1 .. Len(stored)
       PROVE  /\ stored[i] \in RunIds \ {r} /\ step'[stored[i]] = "ended"
              /\ runs'[stored[i]] = runs[stored[i]]
              /\ runs'[stored[i]] \in Rows
              /\ mind'[stored[i]] = mind[stored[i]]
  <2>1. stored[i] \in RunIds
    BY <1>1 DEF Typed
  <2>2. step[stored[i]] = "ended" /\ runs[stored[i]] \in Rows
    BY DEF IInv, StoredHaveEnded
  <2>3. stored[i] # r
    BY <1>2, <2>2
  <2>4. QED
    BY <1>9, <2>1, <2>2, <2>3 DEF Elsewhere
<1>13. StoredHaveEnded'
  <2>1. /\ Len(stored) \in Nat /\ Len(stored') = Len(stored) + 1
        /\ stored'[Len(stored) + 1] = r
        /\ \A i \in 1 .. Len(stored) : stored'[i] = stored[i]
    BY <1>1, <1>2 DEF Typed
  <2>2. ASSUME NEW i \in 1 .. Len(stored')
        PROVE  step'[stored'[i]] = "ended" /\ runs'[stored'[i]] \in Rows
    <3>1. CASE i = Len(stored) + 1
      BY <1>9, <2>1, <3>1
    <3>2. CASE i \in 1 .. Len(stored)
      BY <1>12, <2>1, <3>2
    <3>3. QED
      BY <2>1, <3>1, <3>2
  <2>3. QED
    BY <2>2 DEF StoredHaveEnded
<1>14. ASSUME NEW day \in Days
       PROVE  ({c[2] : c \in {x \in costs : x[1] = day}} =
                {q \in {LastStored(day)} \ {NoRun} : day \in mind[q].answer})'
  <2>1. \A i \in 1 .. Len(stored) :
           runs'[stored[i]].window = runs[stored[i]].window
    BY <1>12
  <2>2. CASE day \in DaysOf(w)
    <3>1. LastStored(day)' = r
      BY <1>1, <1>2, <1>6, <1>9, <2>1, <2>2, LastStoredMoves
    <3>2. \A x \in costs' : x[1] = day => x[2] = r /\ day \in a
      BY <1>4, <1>10, <2>2 DEF Within
    <3>3. day \in a => <<day, r>> \in costs'
      BY <1>10
    <3>4. {c[2] : c \in {x \in costs' : x[1] = day}} =
            {q \in {r} : day \in mind'[q].answer}
      BY <1>7, <1>9, <3>2, <3>3
    <3>5. QED
      BY <1>1, <3>1, <3>4
  <2>3. CASE day \notin DaysOf(w)
    <3>1. LastStored(day)' = LastStored(day)
      BY <1>1, <1>2, <1>6, <1>9, <2>1, <2>3, LastStoredMoves
    <3>2. {x \in costs' : x[1] = day} = {x \in costs : x[1] = day}
      BY <1>4, <1>5, <1>10, <2>3 DEF Within
    <3>3. PICK z : z = LastStored(day)
      OBVIOUS
    <3>4. z # NoRun => mind'[z].answer = mind[z].answer
      BY <1>1, <1>12, <3>3, LastStoredIsLast
    <3>5. {c[2] : c \in {x \in costs : x[1] = day}} =
            {q \in {z} \ {NoRun} : day \in mind[q].answer}
      BY <3>3 DEF IInv, ReplacedWhole
    <3>6. {q \in {z} \ {NoRun} : day \in mind'[q].answer} =
            {q \in {z} \ {NoRun} : day \in mind[q].answer}
      BY <3>4
    <3>7. QED
      BY <3>1, <3>2, <3>3, <3>5, <3>6
  <2>4. QED
    BY <2>2, <2>3
<1>15. ReplacedWhole'
  BY <1>14 DEF ReplacedWhole, Days
<1>16. RunInv(r)'
  <2>1. "ended" \notin Running /\ "ended" \notin Holding
    BY DEF Running, Holding
  <2>2. Fits(r)' /\ LockFits(r)' /\ Deleting(r)'
    BY <1>1, <1>2, <1>9, <2>1 DEF Fits, LockFits, Deleting, Holding
  <2>3. r \in ManualRuns => Telling(r)'
    BY <1>6, <1>8, <1>9 DEF Telling
  <2>4. QED
    BY <2>2, <2>3 DEF RunInv
<1>17. ASSUME NEW q \in RunIds \ {r} PROVE RunInv(q)'
  <2>1. Fits(q)' /\ LockFits(q)' /\ (q \in ManualRuns => Telling(q)')
    BY <1>1, <1>2, <1>5, <1>9, OthersKeep
  <2>2. step'[q] \notin Holding
    BY <1>1, <1>2, <2>1 DEF LockFits
  <2>3. QED
    BY <2>1, <2>2 DEF RunInv, Deleting
<1>18. QED
  BY <1>11, <1>13, <1>15, <1>16, <1>17 DEF IInv

(* The handler of the task's exceptions closes the task's own row.         *)
LEMMA FinalizeInv ==
  ASSUME IInv, NEW r \in RunIds, Finalize(r)
  PROVE  IInv'
<1>1. /\ Typed /\ EmptyMind \in Minds /\ lock \in RunIds \union {NoRun}
      /\ runs[r] \in Rows \union {Missing} /\ told[r] \in Tellings
      /\ recent \subseteq ManualRuns /\ LockFits(r)
      /\ r \in ManualRuns => Telling(r)
  BY Knows
<1>2. /\ step[r] = "raised" /\ End(r) /\ r \in ManualRuns
      /\ UNCHANGED <<costs, lock, told, recent, stored, overrun>>
  BY DEF Finalize
<1>3. /\ "ended" \in Steps /\ "ended" \notin Running /\ "ended" \notin Holding
      /\ "raised" \notin Holding
  BY DEF Steps, Running, Holding
<1>4. told[r] = <<>> /\ runs[r].status \notin {"success", "partial_success"}
  BY <1>1, <1>2 DEF Telling
<1>5. PICK row \in Rows \union {Missing} :
         /\ runs' = [runs EXCEPT ![r] = row]
         /\ row.status \notin {"success", "partial_success"}
         /\ runs[r] \in Rows => row \in Rows
  <2>1. CASE runs[r].status \in Active
    <3>1. runs[r] \in Rows /\ Status(r, "failed")
      BY <1>1, <2>1 DEF Missing, Active, Finalize
    <3>2. PICK row \in Rows : runs' = [runs EXCEPT ![r] = row]
                              /\ row.status = "failed"
      BY <1>1, <3>1, StatusMoves DEF Closed
    <3>3. QED
      BY <3>2
  <2>2. CASE runs[r].status \notin Active
    BY <1>1, <1>4, <2>2, Unmoved DEF Finalize
  <2>3. QED
    BY <2>1, <2>2
<1>6. Moves(r, "ended", EmptyMind, row, told[r])
  BY <1>1, <1>2, <1>5, Unmoved DEF Moves, End, Goto
<1>7. lock' = r <=> "ended" \in Holding
  BY <1>1, <1>2, <1>3 DEF LockFits
<1>8. <<>> # <<"failed">> /\ <<>> # <<"succeeded">>
  OBVIOUS
<1>9. QED
  BY <1>1, <1>2, <1>3, <1>4, <1>5, <1>6, <1>7, <1>8, RunMoves

(* A visit whose collection raised looks for the run it may close.         *)
LEMMA LookForStuckInv ==
  ASSUME IInv, NEW r \in RunIds, LookForStuck(r)
  PROVE  IInv'
<1>1. /\ Typed /\ mind[r] \in Minds /\ lock \in RunIds \union {NoRun}
      /\ runs[r] \in Rows \union {Missing} /\ told[r] \in Tellings
      /\ recent \subseteq ManualRuns /\ LockFits(r)
  BY Knows
<1>2. /\ step[r] = "raised" /\ r \notin ManualRuns
      /\ mind' = [mind EXCEPT ![r].found = LastActiveRun]
      /\ Goto(r, IF LastActiveRun = NoRun THEN "ended" ELSE "rereading")
      /\ UNCHANGED <<runs, costs, lock, told, recent, stored, overrun>>
  BY IngestionAssumption DEF LookForStuck
<1>3. PICK f \in RunIds \union {NoRun} :
         /\ f = LastActiveRun
         /\ f # NoRun => f \in RunIds /\ runs[f] \in Rows
  BY <1>1, FoundIsActive
<1>4. PICK next \in {"ended", "rereading"} :
         /\ next = IF f = NoRun THEN "ended" ELSE "rereading"
         /\ Goto(r, next)
  BY <1>2, <1>3
<1>5. PICK m \in Minds : m = [mind[r] EXCEPT !.found = f]
  BY <1>1 DEF Minds
<1>6. m.found = f
  BY <1>1, <1>5 DEF Minds
<1>7. mind' = [mind EXCEPT ![r] = m]
  BY <1>1, <1>2, <1>3, <1>5 DEF Typed
<1>8. Moves(r, next, m, runs[r], told[r])
  BY <1>1, <1>2, <1>4, <1>7, Unmoved DEF Moves, Goto
<1>9. /\ next \in Steps /\ next \notin Running /\ next \notin Holding
      /\ next # "answered" /\ "raised" \notin Holding
  BY DEF Steps, Running, Holding
<1>10. lock' = r <=> next \in Holding
  BY <1>1, <1>2, <1>9 DEF LockFits
<1>11. next \in {"rereading", "closing"} =>
         m.found \in RunIds /\ runs[m.found] \in Rows
  BY <1>3, <1>4, <1>6
<1>12. QED
  BY <1>1, <1>2, <1>8, <1>9, <1>10, <1>11, RunMoves

(* It reads that run again before it closes it.                            *)
LEMMA RereadStuckInv ==
  ASSUME IInv, NEW r \in RunIds, RereadStuck(r)
  PROVE  IInv'
<1>1. /\ Typed /\ mind[r] \in Minds /\ EmptyMind \in Minds
      /\ lock \in RunIds \union {NoRun}
      /\ runs[r] \in Rows \union {Missing} /\ told[r] \in Tellings
      /\ recent \subseteq ManualRuns /\ LockFits(r) /\ Fits(r)
      /\ r \in ManualRuns => Telling(r)
  BY Knows
<1>2. /\ step[r] = "rereading"
      /\ UNCHANGED <<runs, costs, lock, told, recent, stored, overrun>>
  BY DEF RereadStuck
<1>3. PICK next \in {"ended", "closing"}, m \in Minds :
         /\ Goto(r, next) /\ mind' = [mind EXCEPT ![r] = m]
         /\ next = "closing" => m = mind[r]
  <2>1. CASE runs[mind[r].found].status \in Active
    <3>1. mind' = [mind EXCEPT ![r] = mind[r]] /\ Goto(r, "closing")
      BY <1>1, <2>1 DEF RereadStuck, Typed
    <3>2. QED
      BY <1>1, <3>1
  <2>2. CASE runs[mind[r].found].status \notin Active
    BY <1>1, <2>2 DEF RereadStuck, End
  <2>3. QED
    BY <2>1, <2>2
<1>4. Moves(r, next, m, runs[r], told[r])
  BY <1>1, <1>2, <1>3, Unmoved DEF Moves, Goto
<1>5. /\ next \in Steps /\ next \notin Running /\ next \notin Holding
      /\ next # "answered" /\ "rereading" \notin Holding
      /\ next # "rereading"
  BY DEF Steps, Running, Holding
<1>6. lock' = r <=> next \in Holding
  BY <1>1, <1>2, <1>5 DEF LockFits
<1>7. next \in {"rereading", "closing"} =>
        m.found \in RunIds /\ runs[m.found] \in Rows
  BY <1>1, <1>2, <1>3, <1>5 DEF Fits
<1>8. r \in ManualRuns =>
        /\ told[r] = <<>>
        /\ runs[r].status \notin {"success", "partial_success"}
  BY <1>1, <1>2 DEF Telling
<1>9. <<>> # <<"failed">> /\ <<>> # <<"succeeded">>
  OBVIOUS
<1>10. QED
  BY <1>1, <1>2, <1>4, <1>5, <1>6, <1>7, <1>8, <1>9, RunMoves

(* The visit closes the run it found: its own, or one that another task is *)
(* working on, which is then overrun.                                      *)
LEMMA CloseStuckInv ==
  ASSUME IInv, NEW r \in RunIds, CloseStuck(r)
  PROVE  IInv'
<1>1. /\ Typed /\ mind[r] \in Minds /\ EmptyMind \in Minds /\ Fits(r)
      /\ step[r] = "closing" /\ lock \in RunIds \union {NoRun}
  BY Knows DEF CloseStuck
<1>2. PICK f \in RunIds : f = mind[r].found /\ runs[f] \in Rows
  BY <1>1 DEF Fits
<1>3. /\ Status(f, "failed") /\ End(r)
      /\ overrun' = overrun \union ({f} \ {r})
      /\ UNCHANGED <<costs, lock, told, recent, stored>>
  BY <1>2 DEF CloseStuck
<1>4. PICK row \in Rows : /\ runs' = [runs EXCEPT ![f] = row]
                          /\ row.status = "failed"
                          /\ row.window = runs[f].window
  BY <1>1, <1>2, <1>3, StatusMoves DEF Closed
<1>5. /\ runs' \in [RunIds -> Rows \union {Missing}] /\ runs'[f] = row
      /\ \A q \in RunIds \ {f} : runs'[q] = runs[q]
  BY <1>1, <1>4 DEF Typed
<1>6. /\ step' \in [RunIds -> Steps] /\ step'[r] = "ended"
      /\ \A q \in RunIds \ {r} : step'[q] = step[q]
  BY <1>1, <1>3 DEF Typed, End, Goto, Steps
<1>7. /\ mind' \in [RunIds -> Minds]
      /\ \A q \in RunIds \ {r} : mind'[q] = mind[q]
  BY <1>1, <1>3 DEF Typed, End
<1>8. Typed'
  BY <1>1, <1>3, <1>5, <1>6, <1>7 DEF Typed, Days
<1>9. ASSUME NEW q \in RunIds, runs[q] \in Rows
      PROVE  runs'[q] \in Rows /\ runs'[q].window = runs[q].window
  BY <1>4, <1>5, <1>9
<1>10. StoredHaveEnded' /\ ReplacedWhole'
  <2>1. ASSUME NEW q \in RunIds, step[q] = "ended"
        PROVE  /\ step'[q] = "ended" /\ mind'[q].answer = mind[q].answer
               /\ runs[q] \in Rows =>
                   runs'[q] \in Rows /\ runs'[q].window = runs[q].window
    BY <1>1, <1>6, <1>7, <1>9, <2>1
  <2>2. QED
    BY <1>3, <2>1, NothingStored
<1>11. ASSUME NEW q \in RunIds PROVE RunInv(q)'
  <2>1. /\ Fits(q) /\ LockFits(q) /\ Deleting(q)
        /\ q \in ManualRuns => Telling(q)
    BY Knows
  <2>2. /\ "ended" \notin Running /\ "ended" \notin Holding
        /\ "closing" \notin Holding /\ "ended" \notin {"rereading", "closing"}
    BY DEF Running, Holding
  <2>3. Fits(q)'
    <3>1. CASE q = r
      BY <1>6, <2>2, <3>1 DEF Fits, Holding
    <3>2. CASE q # r
      <4>1. step'[q] = step[q] /\ mind'[q] = mind[q]
        BY <1>6, <1>7, <3>2
      <4>2. QED
        BY <1>9, <2>1, <4>1 DEF Fits
    <3>3. QED
      BY <3>1, <3>2
  <2>4. LockFits(q)'
    BY <1>1, <1>3, <1>6, <2>1, <2>2 DEF LockFits
  <2>5. Deleting(q)'
    BY <1>1, <1>3, <1>6, <1>7, <2>1, <2>2 DEF Deleting, Within
  <2>6. q \in ManualRuns => Telling(q)'
    <3> SUFFICES ASSUME q \in ManualRuns PROVE Telling(q)'
      OBVIOUS
    <3>1. /\ step'[q] # "ended" => step[q] # "ended" /\ told[q] = <<>>
          /\ told' = told
      BY <1>3, <1>6, <2>1 DEF Telling
    <3>2. CASE q = f /\ q # r
      <4>1. q \in overrun' /\ runs'[q].status = "failed"
        BY <1>3, <1>4, <1>5, <3>2
      <4>2. QED
        BY <3>1, <4>1 DEF Telling
    <3>3. CASE q = f /\ q = r
      <4>1. told[q] = <<>> /\ runs'[q].status = "failed"
        BY <1>1, <1>4, <1>5, <2>1, <3>3 DEF Telling
      <4>2. QED
        BY <3>1, <4>1 DEF Telling
    <3>4. CASE q # f
      <4>1. runs'[q] = runs[q] /\ (q \in overrun' <=> q \in overrun)
        BY <1>3, <1>5, <3>4
      <4>2. QED
        BY <2>1, <3>1, <4>1 DEF Telling
    <3>5. QED
      BY <3>2, <3>3, <3>4
  <2>7. QED
    BY <2>3, <2>4, <2>5, <2>6 DEF RunInv
<1>12. QED
  BY <1>8, <1>10, <1>11 DEF IInv

(* The server dies: what was in mind is lost, the rows stay as they are.   *)
LEMMA CrashInv ==
  ASSUME IInv, Crash
  PROVE  IInv'
<1>1. /\ Typed /\ NoRun \notin RunIds /\ lock' = NoRun
      /\ step' = [r \in RunIds |->
                    IF step[r] \in Idle THEN step[r] ELSE "dead"]
      /\ mind' = [r \in RunIds |->
                    IF step[r] \in Idle THEN mind[r] ELSE EmptyMind]
      /\ UNCHANGED <<runs, costs, told, recent, stored, overrun>>
  BY IngestionAssumption DEF IInv, Crash
<1>2. EmptyMind \in Minds
  BY DEF EmptyMind, Minds, Windows, Bases
<1>3. \A q \in RunIds :
        /\ step'[q] = IF step[q] \in Idle THEN step[q] ELSE "dead"
        /\ step[q] \in Idle => mind'[q] = mind[q]
  BY <1>1
<1>4. Typed'
  <2>1. step' \in [RunIds -> Steps]
    BY <1>1 DEF Typed, Steps
  <2>2. mind' \in [RunIds -> Minds]
    BY <1>1, <1>2 DEF Typed
  <2>3. QED
    BY <1>1, <2>1, <2>2 DEF Typed, Days
<1>5. StoredHaveEnded' /\ ReplacedWhole'
  <2>1. ASSUME NEW q \in RunIds, step[q] = "ended"
        PROVE  /\ step'[q] = "ended" /\ mind'[q].answer = mind[q].answer
               /\ runs[q] \in Rows =>
                   runs'[q] \in Rows /\ runs'[q].window = runs[q].window
    BY <1>1, <1>3, <2>1 DEF Idle
  <2>2. QED
    BY <1>1, <2>1, NothingStored
<1>6. ASSUME NEW q \in RunIds PROVE RunInv(q)'
  <2>1. /\ step'[q] \in Idle
        /\ \A x \in Idle : x \notin Running /\ x \notin Holding
                           /\ x # "answered" /\ x # "rereading"
                           /\ x # "closing"
    BY <1>3 DEF Idle, Running, Holding
  <2>2. Fits(q)' /\ LockFits(q)' /\ Deleting(q)'
    BY <1>1, <2>1 DEF Fits, LockFits, Deleting
  <2>3. q \in ManualRuns => Telling(q)'
    <3>1. step'[q] = "ended" <=> step[q] = "ended"
      BY <1>3 DEF Idle
    <3>2. q \in ManualRuns => Telling(q)
      BY Knows
    <3>3. QED
      BY <1>1, <3>1, <3>2 DEF Telling
  <2>4. QED
    BY <2>2, <2>3 DEF RunInv
<1>7. QED
  BY <1>4, <1>5, <1>6 DEF IInv

(* The tables and the sessions stay as they are.                           *)
LEMMA StaysTrue ==
  ASSUME IInv, recent' \subseteq ManualRuns,
         UNCHANGED <<runs, costs, step, mind, lock, told, stored, overrun>>
  PROVE  IInv'
<1>1. Typed'
  BY DEF IInv, Typed, Days
<1>2. StoredHaveEnded' /\ ReplacedWhole'
  BY NothingStored
<1>3. \A q \in RunIds : RunInv(q)'
  BY DEF IInv, RunInv, Fits, LockFits, Deleting, Telling, Within
<1>4. QED
  BY <1>1, <1>2, <1>3 DEF IInv

(***************************************************************************)
(* The theorems                                                            *)
(***************************************************************************)

(* Every step of a run keeps the invariant.                                *)
LEMMA RunStepInv ==
  ASSUME IInv, NEW r \in RunIds, Progress(r) \/ Misfortune(r)
  PROVE  IInv'
<1>1. CASE InsertRun(r)
  BY <1>1, OnlyInserts DEF InsertRun, Active
<1>2. CASE InsertDailyRun(r)
  BY <1>2, OnlyInserts DEF InsertDailyRun, Active
<1>3. CASE BeginRun(r)
  BY <1>3, BeginRunInv
<1>4. CASE \E charged \in Charged, basis \in AllowedBases :
              FetchAnswers(r, charged, basis)
  BY <1>4, FetchAnswersInv
<1>5. CASE BeginReplace(r)
  BY <1>5, BeginReplaceInv
<1>6. CASE LockRefused(r)
  BY <1>6, OnlyFails DEF LockRefused
<1>7. CASE StampRun(r)
  BY <1>7, StampRunInv
<1>8. CASE CommitRun(r)
  BY <1>8, CommitRunInv
<1>9. CASE Finalize(r)
  BY <1>9, FinalizeInv
<1>10. CASE FinalizeRaises(r)
  <2>1. EmptyMind \in Minds
    BY Knows
  <2>2. QED
    BY <1>10, <2>1, OnlyGoes DEF FinalizeRaises, Holding
<1>11. CASE LookForStuck(r)
  BY <1>11, LookForStuckInv
<1>12. CASE CloseStuck(r)
  BY <1>12, CloseStuckInv
<1>19. CASE RereadStuck(r)
  BY <1>19, RereadStuckInv
<1>13. CASE RefuseRun(r)
  BY <1>13, OnlyFails DEF RefuseRun
<1>14. CASE FetchFails(r)
  <2>1. PICK status \in {"failed", "partial_success"} : Status(r, status)
    BY <1>14 DEF FetchFails
  <2>2. QED
    BY <1>14, <2>1, OnlyFails DEF FetchFails
<1>15. CASE \/ AdapterRaises(r) \/ InsertRaises(r)
            \/ CommitRaises(r) \/ StatementRaises(r)
  <2>1. PICK next \in {"raised", "aborted"} :
           /\ Goto(r, next)
           /\ UNCHANGED <<runs, costs, mind, told, recent, stored, overrun>>
    BY <1>15 DEF AdapterRaises, InsertRaises, CommitRaises, StatementRaises,
                 Raises
  <2>2. /\ step[r] # "ended"
        /\ lock' = IF step[r] \in Holding THEN NoRun ELSE lock
    BY <1>15 DEF AdapterRaises, InsertRaises, CommitRaises, StatementRaises,
                 Holding
  <2>3. mind[r] \in Minds /\ mind' = [mind EXCEPT ![r] = mind[r]]
    BY <2>1, Unmoved, Knows
  <2>4. QED
    BY <2>1, <2>2, <2>3, OnlyGoes
<1>16. QED
  BY <1>1, <1>2, <1>3, <1>4, <1>5, <1>6, <1>7, <1>8, <1>9, <1>10, <1>11,
     <1>12, <1>13, <1>14, <1>15, <1>19 DEF Progress, Misfortune

(* The strengthening holds in every state of every execution.              *)
THEOREM InductiveInvariant == Spec => []IInv
<1>1. Init => IInv
  <2> SUFFICES ASSUME Init PROVE IInv
    OBVIOUS
  <2>1. EmptyMind \in Minds /\ NoRun \notin RunIds
    BY IngestionAssumption DEF EmptyMind, Minds, Windows, Bases
  <2>2. Typed
    BY <2>1 DEF Init, Typed, Steps, Tellings
  <2>3. StoredHaveEnded
    BY DEF Init, StoredHaveEnded
  <2>4. ReplacedWhole
    <3>1. ASSUME NEW day \in Days PROVE LastStored(day) = NoRun
      BY DEF Init, LastStored
    <3>2. QED
      BY <3>1 DEF Init, ReplacedWhole
  <2>5. ASSUME NEW r \in RunIds PROVE RunInv(r)
    <3>1. step[r] = "none" /\ lock = NoRun /\ told[r] = <<>>
          /\ runs[r] = Missing
      BY DEF Init
    <3>2. "none" \notin Running /\ "none" \notin Holding
      BY DEF Running, Holding
    <3>3. QED
      BY <2>1, <3>1, <3>2
         DEF RunInv, Fits, LockFits, Deleting, Telling, Missing
  <2>6. QED
    BY <2>2, <2>3, <2>4, <2>5 DEF IInv
<1>2. IInv /\ [Next]_vars => IInv'
  <2> SUFFICES ASSUME IInv, [Next]_vars PROVE IInv'
    OBVIOUS
  <2>1. ASSUME NEW r \in ManualRuns, NEW w \in ManualWindows,
               ReceiveRequest(r, w)
        PROVE  IInv'
    BY <2>1, OnlyLooks DEF ReceiveRequest, RunIds, Windows
  <2>2. ASSUME NEW r \in DailyRuns, VisitAccount(r) PROVE IInv'
    BY <2>2, OnlyLooks DEF VisitAccount, RunIds, Windows
  <2>3. ASSUME NEW r \in RunIds, Progress(r) \/ Misfortune(r) PROVE IInv'
    BY <2>3, RunStepInv
  <2>4. CASE HourPasses
    BY <2>4, StaysTrue DEF HourPasses
  <2>5. CASE Crash
    BY <2>5, CrashInv
  <2>6. CASE UNCHANGED vars
    <3>1. recent \subseteq ManualRuns
      BY DEF IInv, Typed
    <3>2. QED
      BY <2>6, <3>1, StaysTrue DEF vars
  <2>7. QED
    BY <2>1, <2>2, <2>3, <2>4, <2>5, <2>6 DEF Next
<1>3. QED
  BY <1>1, <1>2, PTL DEF Spec

(* Every variable holds a value of its kind, and the lock is held by the   *)
(* run that replaces rows and by nobody else.                              *)
THEOREM TypeCorrect == Spec => []TypeOK
<1>1. IInv => TypeOK
  <2> SUFFICES ASSUME IInv PROVE TypeOK
    OBVIOUS
  <2>1. \A r \in RunIds :
          runs[r].status \in {"missing"} \union Active \union Closed
    BY DEF IInv, Typed, Rows, Missing
  <2>2. \A r \in RunIds : lock = r <=> step[r] \in {"replacing", "stamped"}
    BY DEF IInv, RunInv, LockFits, Holding
  <2>3. \A r \in RunIds : told[r] \in Seq({"succeeded", "failed"})
    BY TellingsAreShort DEF IInv, Typed
  <2>4. QED
    BY <2>1, <2>2, <2>3 DEF IInv, Typed, TypeOK
<1>2. QED
  BY <1>1, InductiveInvariant, PTL

(* A day's rows are those of the last run that stored its range, whole,    *)
(* however manual runs and daily visits come between each other's steps    *)
(* (replace_costs behind the advisory lock, cost_ingestion.py).            *)
THEOREM DaysAreReplacedWhole == Spec => []ReplacedWhole
<1>1. IInv => ReplacedWhole
  BY DEF IInv
<1>2. QED
  BY <1>1, InductiveInvariant, PTL

(* A user is told of a manual run once at most, and what the run shows.    *)
THEOREM UsersAreToldTruthfully == Spec => []ToldTruthfully
<1>1. IInv => ToldTruthfully
  <2> SUFFICES ASSUME IInv, NEW r \in ManualRuns
               PROVE  /\ Len(told[r]) <= 1
                      /\ r \notin overrun =>
                          /\ runs[r].status = "success" <=>
                               told[r] = <<"succeeded">>
                          /\ told[r] = <<"failed">> =>
                               runs[r].status \in {"failed", "partial_success"}
                      /\ runs[r].status = "partial_success" =>
                           told[r] = <<"failed">>
    BY DEF ToldTruthfully
  <2>1. r \in RunIds
    BY DEF RunIds
  <2>2. Telling(r) /\ told[r] \in Tellings
    BY <2>1 DEF IInv, RunInv, Typed
  <2>3. Len(told[r]) <= 1
    BY <2>2, TellingsAreShort
  <2>4. QED
    BY <2>2, <2>3 DEF Telling
<1>2. QED
  BY <1>1, InductiveInvariant, PTL

(***************************************************************************)
(* The order of the finish times                                           *)
(***************************************************************************)
Stored(r) == \E i \in 1 .. Len(stored) : stored[i] = r

(* The basis of an answer is resolved before it is noted.                  *)
Resolved(r) ==
    step[r] \in {"answered"} \union Holding => mind[r].basis \in AllowedBases

SuccessIsStored == \A r \in RunIds : runs[r].status = "success" <=> Stored(r)

FinishedInOrder ==
    \A i, j \in 1 .. Len(stored) :
        i < j => runs[stored[i]].finished < runs[stored[j]].finished

(* A stamp is taken under the lock: it is above those of all that stored,  *)
(* and nobody stores before its holder commits.                            *)
StampAhead(r) ==
    step[r] = "stamped" =>
        \A i \in 1 .. Len(stored) :
            runs[stored[i]].finished < mind[r].finished

(* The order of the commits is that of the finish times, as long as no     *)
(* visit has closed a run that another task was working on.                *)
Ordering ==
    /\ \A r \in RunIds : Resolved(r)
    /\ \A i \in 1 .. Len(stored) : runs[stored[i]].basis \in AllowedBases
    /\ overrun = {} =>
        /\ SuccessIsStored /\ FinishedInOrder
        /\ \A r \in RunIds : StampAhead(r)

(* A run that has not ended has stored nothing.                            *)
LEMMA NotStoredYet ==
  ASSUME IInv
  PROVE  /\ stored \in Seq(RunIds) /\ Len(stored) \in Nat
         /\ \A i \in 1 .. Len(stored) : stored[i] \in RunIds
         /\ \A i \in 1 .. Len(stored) : step[stored[i]] = "ended"
         /\ \A i \in 1 .. Len(stored) : runs[stored[i]] \in Rows
BY DEF IInv, Typed, StoredHaveEnded

(* Until it ends a run has not succeeded, the daily ones included.         *)
LEMMA NoSuccessYet ==
  ASSUME IInv, Ordering, overrun = {},
         NEW r \in RunIds, step[r] # "ended"
  PROVE  runs[r].status # "success"
BY NotStoredYet DEF Ordering, SuccessIsStored, Stored

(* A step of a run that stores nothing keeps the order of the others.      *)
LEMMA OrderStays ==
  ASSUME IInv, Ordering, NEW r \in RunIds, step[r] # "ended",
         \A q \in RunIds \ {r} :
            /\ step'[q] = step[q] /\ mind'[q] = mind[q]
            /\ runs'[q] = runs[q],
         stored' = stored, overrun' = overrun,
         overrun = {} => runs'[r].status # "success",
         step'[r] \in {"answered"} \union Holding =>
            mind'[r].basis \in AllowedBases,
         overrun = {} /\ step'[r] = "stamped" =>
            \A i \in 1 .. Len(stored) :
                runs[stored[i]].finished < mind'[r].finished
  PROVE  Ordering'
<1>1. \A i \in 1 .. Len(stored) :
        stored[i] \in RunIds /\ runs'[stored[i]] = runs[stored[i]]
  BY NotStoredYet
<1>2. ASSUME NEW q \in RunIds PROVE Resolved(q)'
  BY DEF Ordering, Resolved
<1>3. \A i \in 1 .. Len(stored') : runs'[stored'[i]].basis \in AllowedBases
  BY <1>1 DEF Ordering
<1>4. ASSUME overrun' = {}
      PROVE  SuccessIsStored' /\ FinishedInOrder'
             /\ \A q \in RunIds : StampAhead(q)'
  <2>1. SuccessIsStored'
    <3>1. ASSUME NEW q \in RunIds
          PROVE  runs'[q].status = "success" <=> Stored(q)'
      <4>1. CASE q = r
        BY <1>4, <4>1, NotStoredYet DEF Stored
      <4>2. CASE q # r
        BY <1>4, <4>2 DEF Ordering, SuccessIsStored, Stored
      <4>3. QED
        BY <4>1, <4>2
    <3>2. QED
      BY <3>1 DEF SuccessIsStored
  <2>2. FinishedInOrder'
    BY <1>1, <1>4 DEF Ordering, FinishedInOrder
  <2>3. ASSUME NEW q \in RunIds PROVE StampAhead(q)'
    <3>1. CASE q = r
      BY <1>1, <1>4, <3>1 DEF StampAhead
    <3>2. CASE q # r
      BY <1>1, <1>4, <3>2 DEF Ordering, StampAhead
    <3>3. QED
      BY <3>1, <3>2
  <2>4. QED
    BY <2>1, <2>2, <2>3
<1>5. QED
  BY <1>2, <1>3, <1>4 DEF Ordering

(* Steps that change what is known of one run, and nothing stored.         *)
LEMMA StatusOnly ==
  ASSUME IInv, Ordering, NEW r \in RunIds, step[r] # "ended",
         NEW next, Goto(r, next), next \notin {"answered"} \union Holding,
         NEW m \in Minds, mind' = [mind EXCEPT ![r] = m],
         NEW row, runs' = [runs EXCEPT ![r] = row],
         overrun = {} => row.status # "success",
         stored' = stored, overrun' = overrun
  PROVE  Ordering'
<1>1. Typed
  BY DEF IInv
<1>2. \A q \in RunIds \ {r} :
        /\ step'[q] = step[q] /\ mind'[q] = mind[q] /\ runs'[q] = runs[q]
  BY <1>1 DEF Goto, Typed
<1>3. step'[r] = next /\ mind'[r] = m /\ runs'[r] = row
  BY <1>1 DEF Goto, Typed
<1>4. "stamped" \in Holding
  BY DEF Holding
<1>5. QED
  BY <1>2, <1>3, <1>4, OrderStays

(* A status that is not success is written.                                *)
LEMMA WritesStatus ==
  ASSUME Typed, NEW r \in RunIds, NEW status, Status(r, status)
  PROVE  \E row : runs' = [runs EXCEPT ![r] = row] /\ row.status = status
<1> DEFINE row == [runs[r] EXCEPT !.status = status]
<1>1. row.status = status
  BY DEF Typed, Rows, Missing
<1>2. runs' = [runs EXCEPT ![r] = row]
  BY DEF Status
<1> HIDE DEF row
<1>3. QED
  BY <1>1, <1>2

(* The steps of a run that do not store.                                   *)
LEMMA PlainStepKeepsOrder ==
  ASSUME IInv, Ordering, NEW r \in RunIds,
         \/ InsertRun(r) \/ InsertDailyRun(r) \/ BeginRun(r)
         \/ LockRefused(r) \/ Finalize(r) \/ FinalizeRaises(r)
         \/ LookForStuck(r) \/ RereadStuck(r) \/ Misfortune(r)
  PROVE  Ordering'
<1>1. /\ Typed /\ mind[r] \in Minds /\ EmptyMind \in Minds
      /\ mind = [mind EXCEPT ![r] = mind[r]]
      /\ runs = [runs EXCEPT ![r] = runs[r]]
  <2>1. Typed /\ mind[r] \in Minds /\ EmptyMind \in Minds
    BY Knows
  <2>2. QED
    BY <2>1 DEF Typed
<1>2. step[r] # "ended"
  BY DEF InsertRun, InsertDailyRun, BeginRun, LockRefused, Finalize,
         FinalizeRaises, LookForStuck, RereadStuck, Misfortune, RefuseRun,
         FetchFails,
         AdapterRaises, InsertRaises, CommitRaises, StatementRaises
<1>3. overrun = {} => runs[r].status # "success"
  BY <1>2, NoSuccessYet
<1>4. CASE InsertRun(r) \/ InsertDailyRun(r)
  <2>1. PICK next \in {"scheduled", "fetching"},
             status \in {"pending", "running"} :
           /\ Goto(r, next) /\ runs' = [runs EXCEPT ![r] = Row(r, status)]
           /\ UNCHANGED <<mind, stored, overrun>>
    BY <1>4 DEF InsertRun, InsertDailyRun
  <2>2. Row(r, status).status # "success"
    BY DEF Row
  <2>3. next \notin {"answered"} \union Holding
    BY DEF Holding
  <2>4. mind' = [mind EXCEPT ![r] = mind[r]]
    BY <1>1, <2>1
  <2>5. QED
    BY <1>1, <1>2, <2>1, <2>2, <2>3, <2>4, StatusOnly
<1>5. CASE BeginRun(r)
  <2>1. Goto(r, "fetching") /\ UNCHANGED <<mind, stored, overrun>>
    BY <1>5 DEF BeginRun
  <2>2. PICK row : /\ runs' = [runs EXCEPT ![r] = row]
                   /\ row.status = "running"
    BY <1>1, <1>5, WritesStatus DEF BeginRun
  <2>3. mind' = [mind EXCEPT ![r] = mind[r]]
    BY <1>1, <2>1
  <2>4. "fetching" \notin {"answered"} \union Holding
    BY DEF Holding
  <2>5. QED
    BY <1>1, <1>2, <2>1, <2>2, <2>3, <2>4, StatusOnly
<1>6. CASE \/ LockRefused(r) \/ RefuseRun(r) \/ FetchFails(r)
           \/ Finalize(r) /\ runs[r].status \in Active
  <2>1. PICK status \in {"failed", "partial_success"} :
           Status(r, status) /\ End(r) /\ UNCHANGED <<stored, overrun>>
    BY <1>6 DEF LockRefused, RefuseRun, FetchFails, Finalize
  <2>2. PICK row : /\ runs' = [runs EXCEPT ![r] = row]
                   /\ row.status = status
    BY <1>1, <2>1, WritesStatus
  <2>3. "ended" \notin {"answered"} \union Holding
    BY DEF Holding
  <2>4. QED
    BY <1>1, <1>2, <2>1, <2>2, <2>3, StatusOnly DEF End
<1>7. CASE \/ Finalize(r) /\ runs[r].status \notin Active
           \/ FinalizeRaises(r)
  <2>1. PICK next \in {"ended", "abandoned"} :
           /\ Goto(r, next) /\ mind' = [mind EXCEPT ![r] = EmptyMind]
           /\ UNCHANGED <<runs, stored, overrun>>
    BY <1>7 DEF Finalize, FinalizeRaises, End
  <2>2. next \notin {"answered"} \union Holding
    BY DEF Holding
  <2>3. runs' = [runs EXCEPT ![r] = runs[r]]
    BY <1>1, <2>1
  <2>4. QED
    BY <1>1, <1>2, <1>3, <2>1, <2>2, <2>3, StatusOnly
<1>8. CASE LookForStuck(r)
  <2>1. PICK next \in {"ended", "rereading"} : Goto(r, next)
    BY <1>8 DEF LookForStuck
  <2>2. LastActiveRun \in RunIds \union {NoRun}
    BY <1>1, FoundIsActive
  <2>3. PICK m \in Minds : m = [mind[r] EXCEPT !.found = LastActiveRun]
    BY <1>1, <2>2 DEF Minds
  <2>4. mind' = [mind EXCEPT ![r] = m] /\ UNCHANGED <<runs, stored, overrun>>
    BY <1>8, <2>3 DEF LookForStuck
  <2>5. next \notin {"answered"} \union Holding
    BY DEF Holding
  <2>6. runs' = [runs EXCEPT ![r] = runs[r]]
    BY <1>1, <2>4
  <2>7. QED
    BY <1>1, <1>2, <1>3, <2>1, <2>4, <2>5, <2>6, StatusOnly
<1>11. CASE RereadStuck(r)
  <2>1. PICK next \in {"ended", "closing"}, m \in Minds :
           /\ Goto(r, next) /\ mind' = [mind EXCEPT ![r] = m]
           /\ UNCHANGED <<runs, stored, overrun>>
    <3>1. CASE runs[mind[r].found].status \in Active
      <4>1. mind' = [mind EXCEPT ![r] = mind[r]]
        BY <1>1, <1>11, <3>1 DEF RereadStuck
      <4>2. QED
        BY <1>1, <1>11, <3>1, <4>1 DEF RereadStuck
    <3>2. CASE runs[mind[r].found].status \notin Active
      BY <1>1, <1>11, <3>2 DEF RereadStuck, End
    <3>3. QED
      BY <3>1, <3>2
  <2>2. next \notin {"answered"} \union Holding
    BY DEF Holding
  <2>3. runs' = [runs EXCEPT ![r] = runs[r]]
    BY <1>1, <2>1
  <2>4. QED
    BY <1>1, <1>2, <1>3, <2>1, <2>2, <2>3, StatusOnly
<1>9. CASE \/ AdapterRaises(r) \/ InsertRaises(r)
           \/ CommitRaises(r) \/ StatementRaises(r)
  <2>1. PICK next \in {"raised", "aborted"} :
           Goto(r, next) /\ UNCHANGED <<runs, mind, stored, overrun>>
    BY <1>9 DEF AdapterRaises, InsertRaises, CommitRaises, StatementRaises,
                Raises
  <2>2. next \notin {"answered"} \union Holding
    BY DEF Holding
  <2>3. /\ mind' = [mind EXCEPT ![r] = mind[r]]
        /\ runs' = [runs EXCEPT ![r] = runs[r]]
    BY <1>1, <2>1
  <2>4. QED
    BY <1>1, <1>2, <1>3, <2>1, <2>2, <2>3, StatusOnly
<1>10. QED
  BY <1>4, <1>5, <1>6, <1>7, <1>8, <1>9, <1>11 DEF Misfortune

(* A request or a visit only looks.                                        *)
LEMMA LooksKeepOrder ==
  ASSUME IInv, Ordering, NEW r \in RunIds, NEW w \in Windows,
         step[r] = "none", NEW next \in {"looked", "visiting"}, Goto(r, next),
         mind' = [mind EXCEPT ![r].requested = NextRequested,
                              ![r].window = w],
         UNCHANGED <<runs, stored, overrun>>
  PROVE  Ordering'
<1>1. Typed /\ mind[r] \in Minds /\ NextRequested \in Nat
  BY Knows, RequestRank
<1>2. PICK m \in Minds :
         m = [mind[r] EXCEPT !.requested = NextRequested, !.window = w]
  BY <1>1 DEF Minds
<1>3. mind' = [mind EXCEPT ![r] = m]
  BY <1>1, <1>2 DEF Typed
<1>4. runs' = [runs EXCEPT ![r] = runs[r]]
  BY <1>1 DEF Typed
<1>5. next \notin {"answered"} \union Holding
  BY DEF Holding
<1>6. overrun = {} => runs[r].status # "success"
  BY NoSuccessYet
<1>7. QED
  BY <1>3, <1>4, <1>5, <1>6, StatusOnly

(* The basis of an answer is resolved when it comes.                       *)
LEMMA AnswerKeepsOrder ==
  ASSUME IInv, Ordering, NEW r \in RunIds, NEW charged,
         NEW basis \in AllowedBases, FetchAnswers(r, charged, basis)
  PROVE  Ordering'
<1>1. Typed /\ mind[r] \in Minds /\ step[r] = "fetching"
  BY Knows DEF FetchAnswers
<1>2. /\ step'[r] = "answered"
      /\ mind'[r].basis = ResolveBasis(basis, CostProvider)
      /\ \A q \in RunIds \ {r} : step'[q] = step[q] /\ mind'[q] = mind[q]
      /\ UNCHANGED <<runs, stored, overrun>>
  BY <1>1 DEF FetchAnswers, Goto, Typed, Minds
<1>3. ResolveBasis(basis, CostProvider) \in AllowedBases
  BY DEF ResolveBasis, AllowedBases
<1>4. overrun = {} => runs[r].status # "success"
  BY <1>1, NoSuccessYet
<1>5. QED
  BY <1>1, <1>2, <1>3, <1>4, OrderStays

(* What the holder of the lock deletes does not concern the order.         *)
LEMMA ReplaceKeepsOrder ==
  ASSUME IInv, Ordering, NEW r \in RunIds, BeginReplace(r)
  PROVE  Ordering'
<1>1. Typed /\ mind[r] \in Minds /\ step[r] = "answered"
  BY Knows DEF BeginReplace
<1>2. /\ step'[r] = "replacing" /\ mind'[r].basis = mind[r].basis
      /\ \A q \in RunIds \ {r} : step'[q] = step[q] /\ mind'[q] = mind[q]
      /\ UNCHANGED <<runs, stored, overrun>>
  BY <1>1 DEF BeginReplace, Goto, Typed, Minds
<1>3. mind[r].basis \in AllowedBases
  BY <1>1 DEF Ordering, Resolved
<1>4. overrun = {} => runs[r].status # "success"
  BY <1>1, NoSuccessYet
<1>5. QED
  BY <1>1, <1>2, <1>3, <1>4, OrderStays

(* The stamp is above those of all that finished, the stored ones too.     *)
LEMMA StampKeepsOrder ==
  ASSUME IInv, Ordering, NEW r \in RunIds, StampRun(r)
  PROVE  Ordering'
<1>1. Typed /\ mind[r] \in Minds /\ step[r] = "replacing"
  BY Knows DEF StampRun
<1>2. /\ step'[r] = "stamped" /\ mind'[r].basis = mind[r].basis
      /\ mind'[r].finished = NextFinished
      /\ \A q \in RunIds \ {r} : step'[q] = step[q] /\ mind'[q] = mind[q]
      /\ UNCHANGED <<runs, stored, overrun>>
  BY <1>1 DEF StampRun, Goto, Typed, Minds
<1>3. mind[r].basis \in AllowedBases
  BY <1>1 DEF Ordering, Resolved, Holding
<1>4. overrun = {} => runs[r].status # "success"
  BY <1>1, NoSuccessYet
<1>5. ASSUME overrun = {}, NEW i \in 1 .. Len(stored)
      PROVE  runs[stored[i]].finished < mind'[r].finished
  <2>1. stored[i] \in RunIds
    BY NotStoredYet
  <2>2. runs[stored[i]].status = "success"
    BY <1>5, <2>1 DEF Ordering, SuccessIsStored, Stored
  <2>3. QED
    BY <1>1, <1>2, <2>1, <2>2, FinishRank DEF Closed
<1>6. QED
  BY <1>1, <1>2, <1>3, <1>4, <1>5, OrderStays

(* The commit puts the run last in both orders.                            *)
LEMMA CommitKeepsOrder ==
  ASSUME IInv, Ordering, NEW r \in RunIds, CommitRun(r)
  PROVE  Ordering'
<1>1. /\ Typed /\ mind[r] \in Minds /\ EmptyMind \in Minds
      /\ step[r] = "stamped" /\ Fits(r)
      /\ \A q \in RunIds : LockFits(q)
  BY Knows DEF CommitRun
<1>2. runs[r] \in Rows
  BY <1>1 DEF Fits, Running, Holding
<1>3. /\ runs'[r].status = "success"
      /\ runs'[r].finished = mind[r].finished
      /\ runs'[r].basis = mind[r].basis
      /\ \A q \in RunIds \ {r} : runs'[q] = runs[q]
  BY <1>1, <1>2 DEF CommitRun, Typed, Rows
<1>4. /\ step'[r] = "ended" /\ \A q \in RunIds \ {r} : step'[q] = step[q]
      /\ overrun' = overrun
  BY <1>1 DEF CommitRun, Goto, Typed
<1>5. \A q \in RunIds \ {r} : mind'[q] = mind[q]
  BY <1>1 DEF CommitRun, Typed
<1>6. /\ Len(stored') = Len(stored) + 1 /\ stored'[Len(stored) + 1] = r
      /\ \A i \in 1 .. Len(stored) : stored'[i] = stored[i]
      /\ Len(stored) \in Nat
  BY NotStoredYet DEF CommitRun
<1>7. \A i \in 1 .. Len(stored) :
        /\ stored[i] \in RunIds \ {r}
        /\ runs'[stored[i]] = runs[stored[i]]
        /\ runs[stored[i]] \in Rows
  BY <1>1, <1>3, NotStoredYet
<1>8. /\ mind[r].basis \in AllowedBases
      /\ overrun = {} => \A i \in 1 .. Len(stored) :
            runs[stored[i]].finished < mind[r].finished
  BY <1>1 DEF Ordering, Resolved, Holding, StampAhead
<1>9. \A q \in RunIds : q # r => step[q] # "stamped"
  BY <1>1, NotStoredYet DEF LockFits, Holding
<1>10. ASSUME NEW q \in RunIds PROVE Resolved(q)'
  <2>1. "ended" \notin {"answered"} \union Holding
    BY DEF Holding
  <2>2. QED
    BY <1>4, <1>5, <2>1 DEF Ordering, Resolved
<1>11. \A i \in 1 .. Len(stored') : runs'[stored'[i]].basis \in AllowedBases
  BY <1>3, <1>6, <1>7, <1>8 DEF Ordering
<1>12. ASSUME overrun' = {}
       PROVE  SuccessIsStored' /\ FinishedInOrder'
              /\ \A q \in RunIds : StampAhead(q)'
  <2>1. \A q \in RunIds : Stored(q)' <=> Stored(q) \/ q = r
    BY <1>6 DEF Stored
  <2>2. SuccessIsStored'
    BY <1>3, <1>4, <1>12, <2>1 DEF Ordering, SuccessIsStored
  <2>3. FinishedInOrder'
    <3>1. ASSUME NEW i \in 1 .. Len(stored'), NEW j \in 1 .. Len(stored'),
                 i < j
          PROVE  runs'[stored'[i]].finished < runs'[stored'[j]].finished
      <4>1. i \in 1 .. Len(stored)
        BY <1>6, <3>1
      <4>2. CASE j \in 1 .. Len(stored)
        BY <1>4, <1>6, <1>7, <1>12, <3>1, <4>1, <4>2
           DEF Ordering, FinishedInOrder
      <4>3. CASE j = Len(stored) + 1
        BY <1>3, <1>4, <1>6, <1>7, <1>8, <1>12, <4>1, <4>3
      <4>4. QED
        BY <1>6, <4>2, <4>3
    <3>2. QED
      BY <3>1 DEF FinishedInOrder
  <2>4. ASSUME NEW q \in RunIds PROVE StampAhead(q)'
    BY <1>4, <1>9 DEF StampAhead
  <2>5. QED
    BY <2>2, <2>3, <2>4
<1>13. QED
  BY <1>10, <1>11, <1>12 DEF Ordering

(* A visit closes its own run, which had stored nothing, or overruns one.  *)
LEMMA CloseKeepsOrder ==
  ASSUME IInv, Ordering, NEW r \in RunIds, CloseStuck(r)
  PROVE  Ordering'
<1>1. /\ Typed /\ mind[r] \in Minds /\ EmptyMind \in Minds /\ Fits(r)
      /\ step[r] = "closing"
  BY Knows DEF CloseStuck
<1>2. PICK f \in RunIds : f = mind[r].found /\ runs[f] \in Rows
  BY <1>1 DEF Fits
<1>3. /\ Status(f, "failed") /\ End(r) /\ stored' = stored
      /\ overrun' = overrun \union ({f} \ {r})
  BY <1>2 DEF CloseStuck
<1>4. /\ step'[r] = "ended" /\ \A q \in RunIds \ {r} : step'[q] = step[q]
      /\ \A q \in RunIds \ {r} : mind'[q] = mind[q]
  BY <1>1, <1>3 DEF Typed, End, Goto
<1>5. /\ runs'[f].status = "failed" /\ runs'[f].basis = runs[f].basis
      /\ \A q \in RunIds \ {f} : runs'[q] = runs[q]
  BY <1>1, <1>2, <1>3 DEF Typed, Status, Rows
<1>6. CASE f = r
  <2>1. "ended" \notin {"answered"} \union Holding
    BY DEF Holding
  <2>2. "ended" # "stamped" /\ overrun' = overrun /\ step[r] # "ended"
    BY <1>1, <1>3, <1>6
  <2>3. QED
    BY <1>3, <1>4, <1>5, <1>6, <2>1, <2>2, OrderStays
<1>7. CASE f # r
  <2>1. overrun' # {}
    BY <1>3, <1>7
  <2>2. ASSUME NEW q \in RunIds PROVE Resolved(q)'
    <3>1. "ended" \notin {"answered"} \union Holding
      BY DEF Holding
    <3>2. QED
      BY <1>4, <3>1 DEF Ordering, Resolved
  <2>3. \A i \in 1 .. Len(stored') :
          runs'[stored'[i]].basis \in AllowedBases
    BY <1>3, <1>5, NotStoredYet DEF Ordering
  <2>4. QED
    BY <2>1, <2>2, <2>3 DEF Ordering
<1>8. QED
  BY <1>6, <1>7

(* A crash loses the stamps; what was stored stays in its order.           *)
LEMMA CrashKeepsOrder ==
  ASSUME IInv, Ordering, Crash
  PROVE  Ordering'
<1>1. \A q \in RunIds :
        /\ step'[q] \notin {"answered"} \union Holding
        /\ step'[q] # "stamped"
  BY DEF Crash, Idle, Holding
<1>2. UNCHANGED <<runs, stored, overrun>>
  BY DEF Crash
<1>3. QED
  BY <1>1, <1>2
     DEF Ordering, Resolved, SuccessIsStored, Stored, FinishedInOrder,
         StampAhead

(* The finish times order the runs as their commits did, although they are *)
(* taken before the commit and by whichever process runs the collection.   *)
THEOREM FinishTimesFollowCommits == Spec => [](IInv /\ Ordering)
<1>1. Init => Ordering
  BY DEF Init, Ordering, Resolved, Holding, SuccessIsStored, Stored,
         FinishedInOrder, StampAhead, Missing
<1>2. IInv /\ Ordering /\ [Next]_vars => Ordering'
  <2> SUFFICES ASSUME IInv, Ordering, [Next]_vars PROVE Ordering'
    OBVIOUS
  <2>1. ASSUME NEW r \in ManualRuns, NEW w \in ManualWindows,
               ReceiveRequest(r, w)
        PROVE  Ordering'
    BY <2>1, LooksKeepOrder DEF ReceiveRequest, RunIds, Windows
  <2>2. ASSUME NEW r \in DailyRuns, VisitAccount(r) PROVE Ordering'
    BY <2>2, LooksKeepOrder DEF VisitAccount, RunIds, Windows
  <2>3. ASSUME NEW r \in RunIds, Progress(r) PROVE Ordering'
    <3>1. CASE \/ InsertRun(r) \/ InsertDailyRun(r) \/ BeginRun(r)
               \/ LockRefused(r) \/ Finalize(r) \/ FinalizeRaises(r)
               \/ LookForStuck(r) \/ RereadStuck(r)
      BY <3>1, PlainStepKeepsOrder
    <3>2. CASE \E charged \in Charged, basis \in AllowedBases :
                  FetchAnswers(r, charged, basis)
      BY <3>2, AnswerKeepsOrder
    <3>3. CASE BeginReplace(r)
      BY <3>3, ReplaceKeepsOrder
    <3>4. CASE StampRun(r)
      BY <3>4, StampKeepsOrder
    <3>5. CASE CommitRun(r)
      BY <3>5, CommitKeepsOrder
    <3>6. CASE CloseStuck(r)
      BY <3>6, CloseKeepsOrder
    <3>7. QED
      BY <2>3, <3>1, <3>2, <3>3, <3>4, <3>5, <3>6 DEF Progress
  <2>4. ASSUME NEW r \in RunIds, Misfortune(r) PROVE Ordering'
    BY <2>4, PlainStepKeepsOrder
  <2>5. CASE HourPasses \/ UNCHANGED vars
    <3>1. UNCHANGED <<runs, step, mind, stored, overrun>>
      BY <2>5 DEF HourPasses, vars
    <3>2. QED
      BY <3>1 DEF Ordering, Resolved, SuccessIsStored, Stored,
                  FinishedInOrder, StampAhead
  <2>6. CASE Crash
    BY <2>6, CrashKeepsOrder
  <2>7. QED
    BY <2>1, <2>2, <2>3, <2>4, <2>5, <2>6 DEF Next
<1>3. QED
  BY <1>1, <1>2, InductiveInvariant, PTL DEF Spec

(***************************************************************************)
(* The basis of a day                                                      *)
(***************************************************************************)

(* One list in the order of the finish times is the order of the commits,  *)
(* and there is no other.                                                  *)
LEMMA OrderIsUnique ==
  ASSUME NEW n \in Nat, NEW G, NEW f \in [G -> Nat],
         NEW a \in Bijection(1 .. n, G), NEW b \in Bijection(1 .. n, G),
         \A i, j \in 1 .. n : i < j => f[a[i]] < f[a[j]],
         \A i, j \in 1 .. n : i < j => f[b[i]] <= f[b[j]]
  PROVE  a = b
<1>1. /\ a \in [1 .. n -> G] /\ b \in [1 .. n -> G]
      /\ \A i, j \in 1 .. n : a[i] = a[j] => i = j
      /\ \A i, j \in 1 .. n : b[i] = b[j] => i = j
      /\ \A x \in G : \E i \in 1 .. n : a[i] = x
      /\ \A x \in G : \E i \in 1 .. n : b[i] = x
  BY DEF Bijection, Injection, Surjection, IsInjective
<1> DEFINE Bad == {i \in 1 .. n : a[i] # b[i]}
<1>2. CASE Bad = {}
  <2>1. \A i \in 1 .. n : a[i] = b[i]
    BY <1>2
  <2>2. QED
    BY <1>1, <2>1
<1>3. CASE Bad # {}
  <2>1. PICK i \in Bad : \A k \in Bad : i <= k
    <3>1. Bad \in SUBSET Nat
      OBVIOUS
    <3> HIDE DEF Bad
    <3>2. QED
      BY <1>3, <3>1, LeastNumber
  <2>2. i \in 1 .. n /\ a[i] # b[i] /\ a[i] \in G /\ b[i] \in G
    BY <1>1, <2>1
  <2>3. \A k \in 1 .. n : k < i => a[k] = b[k]
    BY <2>1, <2>2
  <2>4. PICK k \in 1 .. n : a[k] = b[i]
    BY <1>1, <2>2
  <2>5. PICK m \in 1 .. n : b[m] = a[i]
    BY <1>1, <2>2
  <2>6. k > i
    <3>1. k # i
      BY <2>2, <2>4
    <3>2. ~(k < i)
      <4>1. k < i => b[k] = b[i]
        BY <2>3, <2>4
      <4>2. QED
        BY <1>1, <2>2, <3>1, <4>1
    <3>3. QED
      BY <2>2, <3>1, <3>2
  <2>7. m > i
    <3>1. m # i
      BY <2>2, <2>5
    <3>2. ~(m < i)
      <4>1. m < i => a[m] = a[i]
        BY <2>3, <2>5
      <4>2. QED
        BY <1>1, <2>2, <3>1, <4>1
    <3>3. QED
      BY <2>2, <3>1, <3>2
  <2>8. f[a[i]] < f[b[i]] /\ f[b[i]] <= f[a[i]]
    BY <2>2, <2>4, <2>5, <2>6, <2>7
  <2>9. f[a[i]] \in Nat /\ f[b[i]] \in Nat
    BY <2>2
  <2>10. QED
    BY <2>8, <2>9
<1>4. QED
  BY <1>2, <1>3

(* The list the readers take the runs from is that of the commits.         *)
LEMMA ReadersSeeCommits ==
  ASSUME IInv, Ordering, overrun = {}
  PROVE  RunsByFinish = [i \in 1 .. Len(stored) |->
                            [window |-> runs[stored[i]].window,
                             basis |-> runs[stored[i]].basis]]
<1> DEFINE good == {r \in RunIds : runs[r].status = "success"}
           n == Len(stored)
           f == [r \in good |-> runs[r].finished]
           Sorted(s) == \A i, j \in DOMAIN s :
                            i < j => runs[s[i]].finished <= runs[s[j]].finished
           order == CHOOSE s \in Bijection(1 .. Cardinality(good), good) :
                        Sorted(s)
<1>1. /\ n \in Nat /\ stored \in [1 .. n -> good]
      /\ \A x \in good : \E i \in 1 .. n : stored[i] = x
      /\ \A r \in good : runs[r] \in Rows /\ runs[r].finished \in Nat
      /\ \A i, j \in 1 .. n : i < j => f[stored[i]] < f[stored[j]]
  <2>1. /\ n \in Nat /\ stored \in [1 .. n -> RunIds]
        /\ \A i \in 1 .. n : runs[stored[i]] \in Rows
    BY NotStoredYet
  <2>2. \A r \in RunIds : r \in good <=> \E i \in 1 .. n : stored[i] = r
    BY DEF Ordering, SuccessIsStored, Stored
  <2>3. stored \in [1 .. n -> good]
    BY <2>1, <2>2
  <2>4. \A r \in good : runs[r] \in Rows /\ runs[r].finished \in Nat
    BY <2>1, <2>2 DEF Rows
  <2>5. \A i, j \in 1 .. n : i < j => f[stored[i]] < f[stored[j]]
    BY <2>3 DEF Ordering, FinishedInOrder
  <2>6. QED
    BY <2>1, <2>2, <2>3, <2>4, <2>5
<1>2. f \in [good -> Nat] /\ \A r \in good : f[r] = runs[r].finished
  BY <1>1
<1> HIDE DEF good, n, f
<1>3. stored \in Bijection(1 .. n, good)
  <2>1. ASSUME NEW i \in 1 .. n, NEW j \in 1 .. n, stored[i] = stored[j]
        PROVE  i = j
    <3>1. f[stored[i]] \in Nat
      BY <1>1, <1>2
    <3>2. ~(i < j) /\ ~(j < i)
      BY <1>1, <2>1, <3>1
    <3>3. QED
      BY <1>1, <3>2
  <2>2. QED
    BY <1>1, <2>1 DEF Bijection, Injection, Surjection, IsInjective
<1>4. Cardinality(good) = n
  BY <1>1, <1>3, FS_CountingElements DEF ExistsBijection
<1>5. Sorted(stored)
  BY <1>1, <1>2
<1>6. order \in Bijection(1 .. n, good) /\ Sorted(order)
  <2> HIDE DEF Sorted
  <2>1. QED
    BY <1>3, <1>4, <1>5
<1>7. \A i, j \in 1 .. n : i < j => f[order[i]] <= f[order[j]]
  <2> HIDE DEF order
  <2>1. order \in [1 .. n -> good]
    BY <1>6 DEF Bijection, Injection
  <2>2. QED
    BY <1>2, <1>6, <2>1
<1>8. order = stored
  <2> HIDE DEF order, Sorted
  <2>1. QED
    BY <1>1, <1>2, <1>3, <1>6, <1>7, OrderIsUnique
<1>9. RunsByFinish = [i \in DOMAIN order |->
                        [window |-> runs[order[i]].window,
                         basis |-> runs[order[i]].basis]]
  BY DEF RunsByFinish, good
<1>10. DOMAIN stored = 1 .. n
  BY <1>1
<1>11. QED
  BY <1>8, <1>9, <1>10 DEF n

(* A day has rows exactly when the last run that reached it found charges. *)
LEMMA RowsOfADay ==
  ASSUME IInv, NEW day \in Days
  PROVE  /\ LastStored(day) = NoRun => day \notin RowDays
         /\ LastStored(day) # NoRun =>
              (day \in RowDays <=> day \in mind[LastStored(day)].answer)
<1> DEFINE r == LastStored(day)
           those == {c[2] : c \in {x \in costs : x[1] = day}}
<1>1. those = {q \in {r} \ {NoRun} : day \in mind[q].answer}
  BY DEF IInv, ReplacedWhole
<1>2. day \in RowDays <=> those # {}
  BY DEF RowDays
<1> HIDE DEF r, those
<1>3. those # {} <=> r # NoRun /\ day \in mind[r].answer
  BY <1>1
<1>4. QED
  BY <1>2, <1>3 DEF r

(* What the readers make of a day: the basis of the run that stored last.  *)
LEMMA BasisOfADay ==
  ASSUME IInv, Ordering, overrun = {}, NEW window \in Windows,
         NEW day \in DaysOf(window)
  PROVE  DayBasisMap(window, RowDays, RunsByFinish, CostProvider)[day] =
            IF LastStored(day) = NoRun THEN NotObserved
            ELSE IF runs[LastStored(day)].basis = CompleteRange
                 THEN CompleteRange
            ELSE IF day \in mind[LastStored(day)].answer
                 THEN ObservedOnly ELSE NotObserved
<1> DEFINE n == Len(stored)
           list == RunsByFinish
           known == [d \in DaysOf(window) |-> NotObserved]
           applied == LastWritten(list, 1 .. n, known, RowDays, CostProvider)
           reaching == Reaching(list, 1 .. n, day)
           r == LastStored(day)
<1>1. /\ n \in Nat /\ DOMAIN stored = 1 .. n
      /\ \A i \in 1 .. n : stored[i] \in RunIds
      /\ NoRun \notin RunIds
  BY NotStoredYet, IngestionAssumption
<1>2. /\ DOMAIN list = 1 .. n
      /\ \A i \in 1 .. n : /\ list[i].window = runs[stored[i]].window
                           /\ list[i].basis = runs[stored[i]].basis
  BY ReadersSeeCommits
<1>3. /\ known = [d \in DOMAIN known |-> known[d]]
      /\ DOMAIN known = DaysOf(window) /\ known[day] = NotObserved
  OBVIOUS
<1>4. Applied(list, known, RowDays, CostProvider) = applied
  <2> HIDE DEF list, known, n
  <2>1. QED
    BY <1>1, <1>2, <1>3, LastRunDecides
<1>5. DayBasisMap(window, RowDays, list, CostProvider) =
        [d \in DaysOf(window) |->
            IF applied[d] = NotObserved /\ d \in RowDays
            THEN ResolveBasis(Unrecorded, CostProvider) ELSE applied[d]]
  <2> HIDE DEF applied, list, n
  <2>1. QED
    BY <1>4, Zenon DEF DayBasisMap, Applied, known
<1>6. day \in Days
  BY DaysOfWindows
<1>7. applied[day] =
        IF reaching = {} THEN NotObserved
        ELSE Written(list[Max(reaching)], day, RowDays, CostProvider)
  <2> HIDE DEF list, known, n
  <2>1. QED
    BY <1>3 DEF LastWritten
<1>8. r = IF reaching = {} THEN NoRun ELSE stored[Max(reaching)]
  <2> DEFINE cov == {i \in DOMAIN stored :
                        day \in DaysOf(runs[stored[i]].window)}
  <2>1. r = IF cov = {} THEN NoRun ELSE stored[Max(cov)]
    BY DEF LastStored
  <2> HIDE DEF r, list, n
  <2>2. cov = reaching
    BY <1>1, <1>2 DEF Reaching
  <2> HIDE DEF cov, reaching
  <2>3. QED
    BY <2>1, <2>2
<1>9. reaching # {} => Max(reaching) \in 1 .. n
  <2> HIDE DEF list, n
  <2>1. IsFiniteSet(1 .. n) /\ 1 .. n \in SUBSET Nat
    BY <1>1, FS_Interval
  <2>2. reaching \in SUBSET (1 .. n)
    BY DEF Reaching
  <2>3. IsFiniteSet(reaching) /\ reaching \in SUBSET Nat
    BY <2>1, <2>2, FS_Subset
  <2> HIDE DEF reaching
  <2>4. QED
    BY <2>2, <2>3, MaxOfFinite
<1>10. /\ r = NoRun => day \notin RowDays
       /\ r # NoRun => (day \in RowDays <=> day \in mind[r].answer)
  BY <1>6, RowsOfADay
<1>11. reaching # {} => runs[r].basis \in AllowedBases
  BY <1>8, <1>9 DEF Ordering
<1> HIDE DEF applied, list, n, reaching, r, known
<1>12. CASE reaching = {}
  <2>1. r = NoRun /\ applied[day] = NotObserved /\ day \notin RowDays
    BY <1>7, <1>8, <1>10, <1>12
  <2>2. DayBasisMap(window, RowDays, list, CostProvider)[day] = NotObserved
    BY <1>5, <2>1
  <2>3. QED
    BY <2>1, <2>2 DEF r, list
<1>13. CASE reaching # {}
  <2>1. /\ r # NoRun /\ runs[r].basis \in AllowedBases
        /\ list[Max(reaching)].basis = runs[r].basis
    BY <1>1, <1>2, <1>8, <1>9, <1>11, <1>13
  <2>2. ResolveBasis(runs[r].basis, CostProvider) = runs[r].basis
    BY <2>1 DEF ResolveBasis
  <2>3. applied[day] = IF runs[r].basis = CompleteRange THEN CompleteRange
                       ELSE IF day \in RowDays
                            THEN ObservedOnly ELSE NotObserved
    BY <1>7, <1>13, <2>1, <2>2 DEF Written
  <2>4. day \in RowDays => applied[day] # NotObserved
    BY <2>3 DEF CompleteRange, ObservedOnly, NotObserved
  <2>5. DayBasisMap(window, RowDays, list, CostProvider)[day] = applied[day]
    BY <1>5, <2>4
  <2>6. QED
    BY <1>10, <2>1, <2>3, <2>5 DEF r, list
<1>14. QED
  BY <1>12, <1>13

(* Reading the runs in the order of their finish times gives each day the  *)
(* basis of the run that stored its rows last (coverage.py reads what      *)
(* cost_ingestion.py wrote), unless a visit closed a run that was not its. *)
THEOREM BasisIsThatOfTheRows == Spec => []BasisFollowsStorage
<1>1. IInv /\ Ordering => BasisFollowsStorage
  <2> SUFFICES ASSUME IInv, Ordering, overrun = {}, NEW window \in Windows
               PROVE  LET basis == DayBasisMap(window, RowDays, RunsByFinish,
                                               CostProvider)
                      IN  \A day \in DaysOf(window) :
                            LET r == LastStored(day)
                            IN  basis[day] =
                                  IF r = NoRun THEN NotObserved
                                  ELSE IF runs[r].basis = CompleteRange
                                       THEN CompleteRange
                                  ELSE IF day \in mind[r].answer
                                       THEN ObservedOnly ELSE NotObserved
    BY DEF BasisFollowsStorage, Windows
  <2>1. QED
    BY BasisOfADay
<1>2. QED
  BY <1>1, FinishTimesFollowCommits, PTL
=============================================================================
