---------------------------- MODULE LocalDevProofs -----------------------------
(***************************************************************************)
(* A guarded shutdown of the launcher leaves no child behind, for any      *)
(* number of hosted apps.  That it does cannot be seen in finally alone:   *)
(* the invariant says from the first Popen on that whoever lives is in the *)
(* list that finally will walk, or is the child being constructed (Known), *)
(* and that finally has yet to get to whoever still lives (ToBeClosed).    *)
(* For the promise that every child is tried, Covered says that main() is  *)
(* through with exactly the labels it no longer has in todo.               *)
(***************************************************************************)
EXTENDS LocalDev, SequenceTheorems, TLAPS

Rest(i) == SubSeq(Order, i, Len(Order))

Running == stage \in {"start", "await", "watch"}

StageInv ==
  /\ popen # None => stage = "start" /\ todo # <<>> /\ popen = Head(todo)
  /\ Running => ctrlC = "none"
  /\ stage # "finally" => closing = {}
  /\ stage = "watch" => todo = <<>> /\ managed # {}

Known ==
  Running => \A l \in Labels : group[l].leader => l \in managed \/ l = popen

ToBeClosed ==
  stage \in {"finally", "idle"} /\ ctrlC # "unguarded" =>
    \A l \in Labels : group[l].leader => l \in closing

Covered == Running => managed \cup busy \cup Range(todo) = Labels

IInv == TypeOK /\ StageInv /\ Known /\ ToBeClosed /\ Covered

-----------------------------------------------------------------------------

USE LauncherAssumption

LEMMA OrderIsSeq == Order \in Seq(Labels) /\ Len(Order) \in Nat \ {0}
<1>1. Order \in Seq(Range(Selected) \cup {Host, Caddy})
  BY DEF Order
<1>2. Len(Order) = Len(Selected) + 2
  BY DEF Order
<1>3. Len(Selected) \in Nat
  BY LenProperties
<1>4. DOMAIN Order = 1..Len(Order)
  BY <1>1, LenProperties
<1>5. \A i \in 1..Len(Order) : Order[i] \in Labels
  BY <1>4 DEF Labels, Range
<1> QED BY <1>1, <1>2, <1>3, <1>4, <1>5, SeqDef, LenProperties

(* What main() has yet to get to is a final part of Order. *)
LEMMA RestFacts ==
  ASSUME NEW i \in 1..(Len(Order) + 1)
  PROVE  /\ Rest(i) \in Seq(Labels)
         /\ Rest(i) # <<>> =>
              /\ Head(Rest(i)) \in Labels
              /\ i + 1 \in 1..(Len(Order) + 1) /\ Tail(Rest(i)) = Rest(i + 1)
              /\ Range(Rest(i)) = {Head(Rest(i))} \cup Range(Tail(Rest(i)))
<1>1. /\ Rest(i) \in Seq(Labels) /\ Len(Rest(i)) = Len(Order) - i + 1
      /\ \A j \in 1..(Len(Order) - i + 1) : Rest(i)[j] = Order[i + j - 1]
  BY OrderIsSeq, SubSeqProperties DEF Rest
<1>2. SUFFICES ASSUME Rest(i) # <<>>
               PROVE  /\ Head(Rest(i)) \in Labels
                      /\ i + 1 \in 1..(Len(Order) + 1) /\ Tail(Rest(i)) = Rest(i + 1)
                      /\ Range(Rest(i)) = {Head(Rest(i))} \cup Range(Tail(Rest(i)))
  BY <1>1
<1>3. i <= Len(Order)
  BY <1>1, <1>2, OrderIsSeq, EmptySeq
<1>4. Head(Rest(i)) \in Labels /\ Tail(Rest(i)) \in Seq(Labels)
  BY <1>1, <1>2, HeadTailProperties
<1>5. Tail(Rest(i)) = Rest(i + 1)
  BY <1>3, OrderIsSeq, HeadTailOfSubSeq DEF Rest
<1>6. Range(Rest(i)) = {Head(Rest(i))} \cup Range(Tail(Rest(i)))
  <2>1. \A s \in Seq(Labels) : DOMAIN s = 1..Len(s)
    BY LenProperties
  <2>2. Head(Rest(i)) = Rest(i)[1] /\ Len(Tail(Rest(i))) = Len(Rest(i)) - 1
    BY <1>1, <1>2, HeadTailProperties
  <2>3. \A j \in 1..(Len(Rest(i)) - 1) : Tail(Rest(i))[j] = Rest(i)[j + 1]
    BY <1>1, <1>2, <2>2, HeadTailProperties
  <2>4. Len(Rest(i)) \in Nat \ {0}
    BY <1>1, <1>3, OrderIsSeq
  <2> DEFINE s == Rest(i)
             t == Tail(Rest(i))
  <2>5. ASSUME NEW x \in Range(s) PROVE x = s[1] \/ x \in Range(t)
    <3>1. PICK j \in 1..Len(s) : x = s[j]
      BY <2>1, <1>1 DEF Range
    <3>2. CASE j = 1
      BY <3>1, <3>2
    <3>3. CASE j # 1
      <4>1. j - 1 \in 1..(Len(s) - 1) /\ t[j - 1] = s[(j - 1) + 1] /\ (j - 1) + 1 = j
        BY <2>3, <2>4, <3>3
      <4> HIDE DEF s, t
      <4>2. j - 1 \in DOMAIN t
        BY <4>1, <2>1, <2>2, <1>4 DEF s, t
      <4> QED BY <3>1, <4>1, <4>2 DEF Range
    <3> QED BY <3>2, <3>3
  <2>6. ASSUME NEW x \in Range(t) PROVE x \in Range(s)
    <3>1. PICK j \in 1..(Len(s) - 1) : x = t[j]
      BY <2>1, <2>2, <1>4 DEF Range
    <3>2. j + 1 \in 1..Len(s) /\ x = s[j + 1]
      BY <2>3, <2>4, <3>1
    <3>3. j + 1 \in DOMAIN s
      BY <3>2, <2>1, <1>1
    <3> QED BY <3>2, <3>3 DEF Range
  <2>7. s[1] \in Range(s)
    BY <2>1, <2>4, <1>1 DEF Range
  <2> QED BY <2>2, <2>5, <2>6, <2>7
<1> QED BY <1>3, <1>4, <1>5, <1>6, OrderIsSeq

LEMMA EmptyRange == Range(<<>>) = {}
BY DEF Range

LEMMA TodoStarts ==
  /\ \E i \in 1..(Len(Order) + 1) : Order = SubSeq(Order, i, Len(Order))
  /\ \E i \in 1..(Len(Order) + 1) : <<>> = SubSeq(Order, i, Len(Order))
<1>1. SubSeq(Order, 1, Len(Order)) = Order
  BY OrderIsSeq, SubSeqFull
<1>2. SubSeq(Order, Len(Order) + 1, Len(Order)) = <<>>
  <2>1. Len(Order) + 1 \in Int /\ Len(Order) \in Int /\ Len(Order) < Len(Order) + 1
    BY OrderIsSeq
  <2> QED BY <2>1, SubSeqEmpty
<1>3. 1 \in 1..(Len(Order) + 1) /\ Len(Order) + 1 \in 1..(Len(Order) + 1)
  BY OrderIsSeq
<1>4. \E i \in 1..(Len(Order) + 1) : Order = SubSeq(Order, i, Len(Order))
  BY <1>1, <1>3, Zenon
<1>5. \E i \in 1..(Len(Order) + 1) : <<>> = SubSeq(Order, i, Len(Order))
  BY <1>2, <1>3, Zenon
<1> QED BY <1>4, <1>5

(* The same for todo itself. *)
LEMMA TodoFacts ==
  ASSUME TypeOK
  PROVE  /\ todo \in Seq(Labels)
         /\ todo # <<>> =>
              /\ Head(todo) \in Labels
              /\ \E i \in 1..(Len(Order) + 1) : Tail(todo) = SubSeq(Order, i, Len(Order))
              /\ Range(todo) = {Head(todo)} \cup Range(Tail(todo))
<1>1. PICK i \in 1..(Len(Order) + 1) : todo = Rest(i)
  BY DEF TypeOK, Rest
<1> QED BY <1>1, RestFacts DEF Rest

-----------------------------------------------------------------------------

LEMMA InitInv ==
  ASSUME Init
  PROVE  IInv
<1>1. TypeOK
  <2>1. \E i \in 1..(Len(Order) + 1) : todo = SubSeq(Order, i, Len(Order))
    BY TodoStarts, Zenon DEF Init
  <2> HIDE LauncherAssumption
  <2>2. group \in [Labels -> Group]
    BY DEF Init, Group, Gone
  <2>3. runs \in 0..MaxRuns
    BY LauncherAssumption DEF Init
  <2> QED BY <2>1, <2>2, <2>3 DEF Init, TypeOK
<1>2. StageInv /\ Known /\ ToBeClosed /\ Covered
  BY DEF Init, StageInv, Known, ToBeClosed, Covered, Running, Gone
<1> QED BY <1>1, <1>2 DEF IInv

LEMMA LaunchStep ==
  ASSUME IInv, Launch
  PROVE  IInv'
<1> USE DEF IInv, Launch
<1>1. TypeOK'
  BY TodoStarts DEF TypeOK, StageInv, Group, Gone, Leftover
<1>2. popen = None /\ closing = {}
  BY DEF StageInv
<1>3. StageInv' /\ Known' /\ ToBeClosed'
  BY <1>2 DEF StageInv, Known, ToBeClosed, Running, Gone
<1>4. Covered'
  <2>1. todo' = Order /\ managed' = {} /\ busy' = {}
    OBVIOUS
  <2>2. Range(todo') = Labels
    BY <2>1 DEF Labels
  <2> QED BY <2>1, <2>2 DEF Covered
<1> QED BY <1>1, <1>3, <1>4

LEMMA SkipStep ==
  ASSUME IInv, Skip
  PROVE  IInv'
<1> USE DEF IInv, Skip, Continue, world
<1>1. TypeOK'
  BY TodoFacts DEF TypeOK
<1>2. StageInv' /\ Known' /\ ToBeClosed'
  BY DEF StageInv, Known, ToBeClosed, Running
<1>3. Covered'
  BY TodoFacts DEF Covered, Running
<1> QED BY <1>1, <1>2, <1>3

LEMMA PopenStep ==
  ASSUME IInv, Popen
  PROVE  IInv'
<1> USE DEF IInv, Popen
<1>1. TypeOK'
  BY TodoFacts DEF TypeOK, Group
<1>2. StageInv' /\ ToBeClosed' /\ Covered'
  BY DEF StageInv, ToBeClosed, Covered, Running
<1>3. Known'
  BY TodoFacts DEF Known, Running, TypeOK
<1> QED BY <1>1, <1>2, <1>3

LEMMA KeepStep ==
  ASSUME IInv, Keep
  PROVE  IInv'
<1> USE DEF IInv, Keep, Appended, world
<1>1. popen = Head(todo) /\ todo # <<>> /\ popen \in Labels /\ stage = "start"
  BY DEF StageInv, TypeOK
<1>2. TypeOK'
  BY <1>1, TodoFacts DEF TypeOK
<1>3. StageInv' /\ Known' /\ ToBeClosed'
  BY <1>1 DEF StageInv, Known, ToBeClosed, Running, TypeOK
<1>4. Covered'
  BY <1>1, TodoFacts DEF Covered, Running
<1> QED BY <1>2, <1>3, <1>4

LEMMA AwaitedStep ==
  ASSUME IInv, NEW timeout \in BOOLEAN, Awaited(timeout)
  PROVE  IInv'
BY DEF IInv, Awaited, world, TypeOK, StageInv, Known, ToBeClosed, Covered, Running

LEMMA StartedStep ==
  ASSUME IInv, Started
  PROVE  IInv'
BY DEF IInv, Started, world, TypeOK, StageInv, Known, ToBeClosed, Covered, Running

(* main() leaves with every child in the list, unless Ctrl-C hits while    *)
(* one is being constructed.                                               *)
LEMMA LeaveStep ==
  ASSUME IInv, Leave, Running, popen' = None, ctrlC' \in {"none", "guarded", "unguarded"},
         popen # None => ctrlC' = "unguarded"
  PROVE  IInv'
<1> USE DEF IInv, Leave, ToClose, world
<1>1. TypeOK'
  BY DEF TypeOK
<1>2. StageInv' /\ Known' /\ Covered'
  BY DEF StageInv, Known, Covered, Running
<1>3. ToBeClosed'
  BY DEF ToBeClosed, Known, TypeOK
<1> QED BY <1>1, <1>2, <1>3

LEMMA LeavingSteps ==
  ASSUME IInv, NothingStarted \/ Unwatched \/ StartFails \/ Interrupt
  PROVE  IInv'
<1> USE DEF IInv
<1>1. CASE NothingStarted \/ StartFails
  BY <1>1, LeaveStep DEF NothingStarted, StartFails, Running, TypeOK
<1>2. CASE Unwatched
  BY <1>2, LeaveStep DEF Unwatched, Running, TypeOK, StageInv
<1>3. CASE Interrupt
  BY <1>3, LeaveStep DEF Interrupt, Running, TypeOK, StageInv
<1> QED BY <1>1, <1>2, <1>3

(* finally goes on to the next child only when this one is dead. *)
LEMMA ClosedStep ==
  ASSUME IInv, NEW l \in Labels, stage = "finally", Closed(l), ~group'[l].leader, termed' = termed,
         group' \in [Labels -> Group],
         \A m \in Labels : group'[m].leader => group[m].leader
  PROVE  IInv'
<1> USE DEF IInv, Closed
<1>1. TypeOK'
  BY DEF TypeOK
<1>2. StageInv' /\ Known' /\ Covered'
  BY DEF StageInv, Known, Covered, Running
<1>3. ToBeClosed'
  BY DEF ToBeClosed
<1> QED BY <1>1, <1>2, <1>3

LEMMA ClosingStep ==
  ASSUME IInv, Closing
  PROVE  IInv'
<1> USE DEF IInv
<1>1. CASE Over
  BY <1>1 DEF Over, world, TypeOK, StageInv, Known, ToBeClosed, Covered, Running
<1>2. ASSUME NEW l \in Labels, Reap(l) PROVE IInv'
  <2>1. group' = group /\ stage = "finally" /\ Closed(l) /\ ~group[l].leader /\ termed' = termed
    BY <1>2 DEF Reap, Foremost
  <2>2. group \in [Labels -> Group]
    BY DEF TypeOK
  <2> QED BY <2>1, <2>2, ClosedStep
<1>3. ASSUME NEW l \in Labels, Terminate(l) PROVE IInv'
  BY <1>3 DEF Terminate, launcher, TypeOK, StageInv, Known, ToBeClosed, Covered, Running
<1>4. ASSUME NEW l \in Labels, Kill(l) PROVE IInv'
  <2>1. group' = [group EXCEPT ![l] = Gone] /\ stage = "finally" /\ Closed(l) /\ termed' = termed
    BY <1>4 DEF Kill, Foremost
  <2>2. /\ group' \in [Labels -> Group] /\ ~group'[l].leader
        /\ \A m \in Labels : group'[m].leader => group[m].leader
    BY <2>1 DEF TypeOK, Group, Gone
  <2> QED BY <2>1, <2>2, ClosedStep
<1> QED BY <1>1, <1>2, <1>3, <1>4 DEF Closing

LEMMA InterruptAgainStep ==
  ASSUME IInv, InterruptAgain
  PROVE  IInv'
BY DEF IInv, InterruptAgain, world, TypeOK, StageInv, Known, ToBeClosed, Covered, Running

(* The children and the rest of the machine never bring a leader to life. *)
LEMMA OthersStep ==
  ASSUME IInv, UNCHANGED launcher, group' \in [Labels -> Group],
         termed' \subseteq Labels, left' \subseteq Labels, foreign' \subseteq Labels,
         \A l \in Labels : group'[l].leader => group[l].leader
  PROVE  IInv'
<1> USE DEF IInv, launcher
<1>1. TypeOK'
  BY DEF TypeOK
<1>2. StageInv' /\ Known' /\ ToBeClosed' /\ Covered'
  BY DEF StageInv, Known, ToBeClosed, Covered, Running
<1> QED BY <1>1, <1>2

LEMMA OtherSteps ==
  ASSUME IInv, NEW l \in Labels,
         \/ Bind(l) \/ Crash(l) \/ LeaderExits(l) \/ WorkersExit(l)
         \/ LeftoverExits(l) \/ OthersPort(l)
  PROVE  IInv'
<1>1. /\ group \in [Labels -> Group] /\ termed \subseteq Labels
      /\ left \subseteq Labels /\ foreign \subseteq Labels
  BY DEF IInv, TypeOK
<1>2. CASE Bind(l) \/ WorkersExit(l)
  <2>1. \E w \in {"none", "serving"} : group' = [group EXCEPT ![l].workers = w]
    BY <1>2 DEF Bind, WorkersExit
  <2>2. /\ group' \in [Labels -> Group]
        /\ \A m \in Labels : group'[m].leader => group[m].leader
    BY <1>1, <2>1 DEF Group
  <2> QED BY <1>1, <1>2, <2>2, OthersStep DEF Bind, WorkersExit
<1>3. CASE Crash(l) \/ LeaderExits(l)
  <2>1. /\ group' \in [Labels -> Group]
        /\ \A m \in Labels : group'[m].leader => group[m].leader
    <3>1. CASE Crash(l)
      BY <1>1, <3>1 DEF Crash, Group, Gone
    <3>2. CASE LeaderExits(l)
      <4> HIDE LauncherAssumption
      <4>1. group' = [group EXCEPT ![l].leader = FALSE]
        BY <3>2 DEF LeaderExits
      <4>2. group[l] \in Group
        BY <1>1
      <4>3. [group[l] EXCEPT !.leader = FALSE] \in Group
        BY <4>2 DEF Group
      <4> QED BY <1>1, <4>1, <4>2, <4>3
    <3> QED BY <1>3, <3>1, <3>2
  <2> QED BY <1>1, <1>3, <2>1, OthersStep DEF Crash, LeaderExits
<1>4. CASE LeftoverExits(l) \/ OthersPort(l)
  <2>1. /\ UNCHANGED launcher /\ group' = group /\ termed' = termed
        /\ left' \subseteq Labels /\ foreign' \subseteq Labels
    BY <1>1, <1>4 DEF LeftoverExits, OthersPort
  <2> QED BY <1>1, <2>1, OthersStep
<1> QED BY <1>2, <1>3, <1>4

LEMMA NextInv ==
  ASSUME IInv, [Next]_vars
  PROVE  IInv'
<1>1. CASE Next
  BY <1>1, LaunchStep, SkipStep, PopenStep, KeepStep, AwaitedStep, StartedStep, LeavingSteps,
     ClosingStep, InterruptAgainStep, OtherSteps DEF Next, Starting
<1>2. CASE UNCHANGED vars
  BY <1>2 DEF vars, launcher, world, IInv, TypeOK, StageInv, Known, ToBeClosed, Covered, Running
<1> QED BY <1>1, <1>2

LEMMA Invariant == Spec => []IInv
<1>1. Init => IInv
  BY InitInv
<1>2. IInv /\ [Next]_vars => IInv'
  BY NextInv
<1> QED BY <1>1, <1>2, PTL DEF Spec

(* The launcher's variables and the process groups are well formed, with   *)
(* any apps between the Host and Caddy.                                    *)
THEOREM TypeCorrect == Spec => []TypeOK
<1>1. IInv => TypeOK
  BY DEF IInv
<1> QED BY <1>1, Invariant, PTL

(* main() and ManagedProcess.terminate: a run that ends by itself or by a  *)
(* first Ctrl-C outside the constructor leaves no child alive.             *)
THEOREM NobodyForgotten == Spec => []NothingForgotten
<1>1. IInv => NothingForgotten
  BY DEF IInv, StageInv, ToBeClosed, NothingForgotten
<1> QED BY <1>1, Invariant, PTL

(* The loop over the apps: when it is through, every label is either       *)
(* managed or was skipped for a busy port of its own.                      *)
THEOREM AllTried == Spec => []EachTried
<1>1. IInv => EachTried
  BY EmptyRange DEF IInv, StageInv, Covered, EachTried, Running
<1> QED BY <1>1, Invariant, PTL
=============================================================================
