------------------------------- MODULE LocalDev -------------------------------
(***************************************************************************)
(* scripts/local_dev.py on macOS or Linux: it starts the Host, waits until *)
(* the Host listens, starts the hosted apps and Caddy, watches them, and   *)
(* terminates what it started when they are all gone, when start-up fails  *)
(* and on Ctrl-C.  Every child leads a process group of its own: a leader, *)
(* which the launcher can wait for, and the workers it spawned, which hold *)
(* the port.  The module follows several runs of the launcher, for what    *)
(* one run leaves behind is what the next one meets.                       *)
(***************************************************************************)
EXTENDS Naturals, Sequences, SequencesExt

CONSTANTS
  Host, Caddy,  \* labels of the first and the last child
  Selected,     \* the hosted apps between them, in order
  MaxRuns,      \* runs of the launcher (bound)
  None          \* absence of a label

Order == <<Host>> \o Selected \o <<Caddy>>

Labels == Range(Order)

ASSUME LauncherAssumption ==
  /\ MaxRuns \in Nat /\ None \notin Labels
  /\ Selected \in Seq(Range(Selected))
  /\ \A i, j \in DOMAIN Order : Order[i] = Order[j] => i = j

VARIABLES
  runs,     \* runs of the launcher so far
  stage,    \* where main() is; "idle" between two runs
  todo,     \* labels main() has yet to get to
  popen,    \* the child whose ManagedProcess is being constructed
  managed,  \* the children in the list of that name
  closing,  \* those that finally has yet to get to
  group,    \* per label: the process group of this run's child
  termed,   \* groups that were sent SIGTERM
  left,     \* labels whose port a worker of an earlier run holds
  foreign,  \* labels whose port some other program holds
  busy,     \* history: labels this run found a listener for
  ctrlC     \* history: the Ctrl-C this run met, "unguarded" in finally or in
            \* the constructor between Popen and append

launcher == <<runs, stage, todo, popen, managed, closing, busy, ctrlC>>

world == <<group, termed, left, foreign>>

vars == <<launcher, world>>

Group == [leader : BOOLEAN, workers : {"none", "booting", "serving"}]

Gone == [leader |-> FALSE, workers |-> "none"]

TypeOK ==
  /\ runs \in 0..MaxRuns
  /\ stage \in {"idle", "start", "await", "watch", "finally"}
  /\ \E i \in 1..(Len(Order) + 1) : todo = SubSeq(Order, i, Len(Order))
  /\ popen \in Labels \cup {None}
  /\ managed \subseteq Labels /\ closing \subseteq managed
  /\ group \in [Labels -> Group]
  /\ termed \subseteq Labels /\ left \subseteq Labels
  /\ foreign \subseteq Labels /\ busy \subseteq Labels
  /\ ctrlC \in {"none", "guarded", "unguarded"}

Init ==
  /\ runs = 0 /\ stage = "idle" /\ todo = <<>> /\ popen = None
  /\ managed = {} /\ closing = {} /\ busy = {} /\ ctrlC = "none"
  /\ group = [l \in Labels |-> Gone]
  /\ termed = {} /\ left = {}
  /\ foreign \in SUBSET Labels

(* _port_in_use *)
PortInUse(l) == l \in foreign \cup left \/ group[l].workers = "serving"

-----------------------------------------------------------------------------
(* Starting                                                                *)

(* What is left of the groups of the run before, nobody's children now:    *)
(* workers that still serve, or that were never told to stop booting.      *)
Leftover ==
  {l \in Labels : \/ group[l].workers = "serving"
                  \/ group[l].workers = "booting" /\ l \notin termed}

(* The launcher is run. *)
Launch ==
  /\ stage = "idle" /\ runs < MaxRuns
  /\ runs' = runs + 1
  /\ stage' = "start" /\ todo' = Order
  /\ managed' = {} /\ busy' = {} /\ ctrlC' = "none"
  /\ left' = left \cup Leftover
  /\ group' = [l \in Labels |-> Gone] /\ termed' = {}
  /\ UNCHANGED <<popen, closing, foreign>>

StopHere == <<>>                      \* mutant: break instead of continue

Continue == Tail(todo)

(* The labelled error; everything else still starts. *)
Skip ==
  /\ stage = "start" /\ popen = None /\ todo # <<>>
  /\ PortInUse(Head(todo))
  /\ todo' = Continue
  /\ busy' = busy \cup {Head(todo)}
  /\ UNCHANGED <<runs, stage, popen, managed, closing, ctrlC, world>>

(* subprocess.Popen, in a session of its own. *)
Popen ==
  /\ stage = "start" /\ popen = None /\ todo # <<>>
  /\ ~ PortInUse(Head(todo))
  /\ popen' = Head(todo)
  /\ group' = [group EXCEPT ![Head(todo)] = [leader |-> TRUE, workers |-> "booting"]]
  /\ UNCHANGED <<runs, stage, todo, managed, closing, busy, ctrlC, termed, left, foreign>>

Appended == managed \cup {popen}

(* managed.append; the Host is waited for. *)
Keep ==
  /\ popen # None
  /\ popen' = None
  /\ managed' = Appended
  /\ todo' = Tail(todo)
  /\ stage' = IF popen = Host THEN "await" ELSE "start"
  /\ UNCHANGED <<runs, closing, busy, ctrlC, world>>

(* _wait_until_ready: somebody listens, or thirty seconds are over. *)
Awaited(timeout) ==
  /\ stage = "await"
  /\ PortInUse(Host) \/ timeout
  /\ stage' = "start"
  /\ UNCHANGED <<runs, todo, popen, managed, closing, busy, ctrlC, world>>

-----------------------------------------------------------------------------
(* Watching and leaving                                                    *)

OnlyRunning == IF stage = "watch" THEN managed ELSE {}  \* mutant: try around the loop only

(* What finally finds in managed. *)
ToClose == managed

Leave ==
  /\ stage' = "finally"
  /\ closing' = ToClose
  /\ UNCHANGED <<runs, todo, managed, busy, world>>

Started ==
  /\ stage = "start" /\ popen = None /\ todo = <<>> /\ managed # {}
  /\ stage' = "watch"
  /\ UNCHANGED <<runs, todo, popen, managed, closing, busy, ctrlC, world>>

NothingStarted ==
  /\ stage = "start" /\ popen = None /\ todo = <<>> /\ managed = {}
  /\ Leave
  /\ UNCHANGED <<popen, ctrlC>>

AllDead == \A l \in managed : ~ group[l].leader

Unwatched ==
  /\ stage = "watch" /\ AllDead
  /\ Leave
  /\ UNCHANGED <<popen, ctrlC>>

(* A child does not spawn, or the registry has no path rules. *)
StartFails ==
  /\ stage = "start" /\ popen = None /\ todo # <<>>
  /\ Leave
  /\ UNCHANGED <<popen, ctrlC>>

(* Ctrl-C.  A child between Popen and append is in no list. *)
Interrupt ==
  /\ stage \in {"start", "await", "watch"}
  /\ Leave
  /\ popen' = None
  /\ ctrlC' = IF popen = None THEN "guarded" ELSE "unguarded"

-----------------------------------------------------------------------------
(* finally: terminate() of one child after the other                       *)

Foremost(l) ==
  /\ stage = "finally"
  /\ l \in closing
  /\ \A i, j \in DOMAIN Order : Order[i] = l /\ Order[j] \in closing => i <= j

Closed(l) ==
  /\ closing' = closing \ {l}
  /\ UNCHANGED <<runs, stage, todo, popen, managed, busy, ctrlC, left, foreign>>

(* poll() is not None, at first or after the wait. *)
Reap(l) ==
  /\ Foremost(l) /\ ~ group[l].leader
  /\ Closed(l)
  /\ UNCHANGED <<group, termed>>

(* os.killpg(SIGTERM) *)
Terminate(l) ==
  /\ Foremost(l) /\ group[l].leader /\ l \notin termed
  /\ termed' = termed \cup {l}
  /\ UNCHANGED <<launcher, group, left, foreign>>

WaitForever(l) == FALSE               \* mutant: wait() without a timeout

TimedOut(l) == l \in termed /\ group[l].leader

(* Ten seconds later: os.killpg(SIGKILL). *)
Kill(l) ==
  /\ Foremost(l) /\ TimedOut(l)
  /\ group' = [group EXCEPT ![l] = Gone]
  /\ Closed(l)
  /\ UNCHANGED termed

Over ==
  /\ stage = "finally" /\ closing = {}
  /\ stage' = "idle"
  /\ UNCHANGED <<runs, todo, popen, managed, closing, busy, ctrlC, world>>

(* Ctrl-C again, in finally. *)
InterruptAgain ==
  /\ stage = "finally" /\ closing # {}
  /\ stage' = "idle" /\ closing' = {} /\ ctrlC' = "unguarded"
  /\ UNCHANGED <<runs, todo, popen, managed, busy, world>>

-----------------------------------------------------------------------------
(* Everybody else                                                          *)

(* The server of l is up, unless its port was taken meanwhile. *)
Bind(l) ==
  /\ group[l].workers = "booting" /\ l \notin termed /\ ~ PortInUse(l)
  /\ group' = [group EXCEPT ![l].workers = "serving"]
  /\ UNCHANGED <<launcher, termed, left, foreign>>

(* The server ends and dev.py with it. *)
Crash(l) ==
  /\ group[l].leader
  /\ group' = [group EXCEPT ![l] = Gone]
  /\ UNCHANGED <<launcher, termed, left, foreign>>

(* After SIGTERM dev.py ends at once; uvicorn finishes the requests it has *)
(* and holds its port until then.                                          *)
LeaderExits(l) ==
  /\ l \in termed /\ group[l].leader
  /\ group' = [group EXCEPT ![l].leader = FALSE]
  /\ UNCHANGED <<launcher, termed, left, foreign>>

WorkersExit(l) ==
  /\ l \in termed /\ group[l].workers # "none"
  /\ group' = [group EXCEPT ![l].workers = "none"]
  /\ UNCHANGED <<launcher, termed, left, foreign>>

LeftoverExits(l) ==
  /\ l \in left
  /\ left' = left \ {l}
  /\ UNCHANGED <<launcher, group, termed, foreign>>

(* Another program comes to listen on the port of l, or leaves it. *)
OthersPort(l) ==
  /\ ~ (PortInUse(l) /\ l \notin foreign)
  /\ foreign' = IF l \in foreign THEN foreign \ {l} ELSE foreign \cup {l}
  /\ UNCHANGED <<launcher, group, termed, left>>

Closing == Over \/ \E l \in Labels : Reap(l) \/ Terminate(l) \/ Kill(l)

Starting ==
  \/ Skip \/ Popen \/ Keep \/ Started \/ NothingStarted
  \/ \E timeout \in BOOLEAN : Awaited(timeout)

Next ==
  \/ Launch \/ Starting \/ StartFails \/ Unwatched
  \/ Interrupt \/ Closing \/ InterruptAgain
  \/ \E l \in Labels :
       \/ Bind(l) \/ Crash(l) \/ LeaderExits(l) \/ WorkersExit(l)
       \/ LeftoverExits(l) \/ OthersPort(l)

Spec == Init /\ [][Next]_vars

(* main() runs on by itself; its waits have timeouts.  Nothing is assumed  *)
(* of the children.                                                        *)
FairSpec == Spec /\ WF_vars(Starting) /\ WF_vars(Unwatched) /\ WF_vars(Closing)

-----------------------------------------------------------------------------

(* However start-up, the children and the first Ctrl-C interleave, a run   *)
(* ends with every child it started dead, but for a second Ctrl-C and one  *)
(* that hits the constructor between Popen and append.                     *)
NothingForgotten ==
  stage = "idle" /\ ctrlC # "unguarded" => \A l \in Labels : ~ group[l].leader

(* A busy port fails only the one child it belongs to. *)
EachTried == stage = "watch" => managed # {} /\ managed \cup busy = Labels

(* A launcher that shuts down, or whose children are all gone, ends,       *)
(* whatever the children do with the signals.                              *)
RunEnds ==
  (stage = "finally" \/ (stage = "watch" /\ \A l \in managed : ~ group[l].leader))
    ~> (stage = "idle")
=============================================================================
