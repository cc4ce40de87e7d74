----------------------------- MODULE EngineBoot -----------------------------
(***************************************************************************)
(* Booting the models of a sequence, one after the other, on one pod: the  *)
(* boot loop of execute_solution (cohort.py) with the commands of          *)
(* VllmEngineAdapter (vllm_engine.py) and what they start on the pod.      *)
(*                                                                         *)
(* Two kinds of process outlive the command that starts them: the detached *)
(* download, which leaves its exit code in a file every download shares,   *)
(* and the engine, which holds the port and the GPU until it is gone.      *)
(* Every command goes through RunPodTarget.execute, which runs it again    *)
(* when the connection is lost: one that was already under way is then     *)
(* started twice.                                                          *)
(***************************************************************************)
EXTENDS Integers, Sequences, FiniteSets, Bags, TLC

CONSTANTS
    Models,            \* models whose weights a pod may hold
    Served,            \* the models booted on this pod, in order
    Persist,           \* weights_persist: a network volume, never evicted
    HealthTimeout,     \* polls without new log output before a boot stalls
    MaxLog,            \* lines an engine logs before it is ready or quiet
    MaxTwice           \* commands that reach the pod twice

ASSUME EngineBootAssumption ==
    /\ IsFiniteSet(Models) /\ Served \in Seq(Models)
    /\ Persist \in BOOLEAN
    /\ HealthTimeout \in Nat \ {0}
    /\ {MaxLog, MaxTwice} \subseteq Nat

BootAttempts == 2   \* a harness failure is retried once
NoCode == -1        \* the exit-code file is absent
Unseen == [size |-> NoCode, still |-> 0]   \* boot has not looked at the log yet

VARIABLES
    at,        \* where the client is
    turn,      \* index in Served of the model being booted
    attempt,   \* boot attempt of this model
    verdict,   \* how each model ended: healthy, model_failure, harness_failure
    drop,      \* a failure of this model that the pod is not reused after
    disk,      \* per model: none, partial or full
    fetches,   \* downloads running on the pod, a bag of [model, code]
    rcFile,    \* DOWNLOAD_RC: exit code of the download that wrote it last
    engines,   \* vLLM processes, a bag of [model, state]
    logSize,   \* size of the engine log
    seen,      \* boot's last_size and the polls since it changed
    blame,     \* what this boot's engine died of, besides the model
    twice,     \* commands that ran twice
    late       \* a download outlived the wait for it

engineVars == <<at, turn, attempt, verdict, drop, disk, fetches, rcFile, engines,
                logSize, seen, blame, twice, late>>
podVars    == <<disk, fetches, rcFile, engines, logSize, blame, twice, late>>

Model == Served[turn]
Ended == at = "end"

EngineInit ==
    /\ at = "next" /\ turn = 0 /\ attempt = 0 /\ verdict = <<>> /\ drop = FALSE
    /\ disk = [m \in Models |-> "none"] /\ fetches = EmptyBag /\ rcFile = NoCode
    /\ engines = EmptyBag /\ logSize = 0 /\ seen = Unseen
    /\ blame = {} /\ twice = 0 /\ late = FALSE

\* A command with a lasting effect reaches the pod once, or twice when the
\* connection is lost under it and execute sends it again.
Times(n) == n = 1 \/ (n = 2 /\ twice < MaxTwice)

\* n processes p; ps with one p gone, and with q in its place.
Copies(n, p)     == [q \in {p} |-> n]
Gone(ps, p)      == ps (-) SetToBag({p})
Become(ps, p, q) == Gone(ps, p) (+) SetToBag({q})

(***************************************************************************)
(* The client: one solution after the other.                               *)
(***************************************************************************)

\* A reused pod's disk keeps one model's weights, unless a volume holds them.
Evicted(d, keep) ==
    IF Persist \/ turn = 0 THEN d
    ELSE [m \in Models |-> IF m = keep THEN d[m] ELSE "none"]

NextModel ==
    /\ at = "next" /\ turn < Len(Served) /\ ~drop
    /\ turn' = turn + 1 /\ attempt' = 1
    /\ disk' = Evicted(disk, Served[turn + 1])
    /\ at' = "prepare"
    /\ UNCHANGED <<verdict, drop, fetches, rcFile, engines, logSize, seen, blame,
                   twice, late>>

\* The pod is torn down: nothing runs on it any more.
EndOfPod ==
    /\ at = "next" /\ (turn = Len(Served) \/ drop)
    /\ at' = "end"
    /\ fetches' = EmptyBag /\ engines' = EmptyBag
    /\ UNCHANGED <<turn, attempt, verdict, drop, disk, rcFile, logSize, seen, blame,
                   twice, late>>

\* This model is done; _drop_pod decides whether the pod serves another.
Finish(how, dropped) ==
    /\ verdict' = Append(verdict, how)
    /\ drop' = (drop \/ dropped)
    /\ at' = "next" /\ seen' = Unseen
    /\ UNCHANGED <<turn, attempt>>

OneTooMany(n) == n <= BootAttempts   \* a bug: off by one
MoreAttempts(n) == n < BootAttempts

\* A harness failure: one retry, then the model goes without a boot.  An
\* unclean GPU is among the failures a pod is not reused after.
HarnessFailure(unclean) ==
    IF MoreAttempts(attempt)
    THEN /\ attempt' = attempt + 1 /\ at' = "prepare"
         /\ drop' = (drop \/ unclean) /\ seen' = Unseen
         /\ UNCHANGED <<turn, verdict>>
    ELSE Finish("harness_failure", unclean)

(***************************************************************************)
(* prepare_boot: kill, then wait until the port and the GPU are free.      *)
(***************************************************************************)
Killed(m) == [model |-> m, state |-> "dying"]

Count(ps, m) == BagCardinality([p \in {q \in BagToSet(ps) : q.model = m} |-> ps[p]])

PrepareBoot ==
    /\ at = "prepare"
    /\ engines' = [e \in {Killed(p.model) : p \in BagToSet(engines)}
                      |-> Count(engines, e.model)]
    /\ at' = "clean"
    /\ UNCHANGED <<turn, attempt, verdict, drop, disk, fetches, rcFile, logSize, seen,
                   blame, twice, late>>

CleanOnKill ==   \* a bug: the kill is taken for the end of the process
    /\ at = "clean"
    /\ at' = "download"
    /\ UNCHANGED <<turn, attempt, verdict, drop, seen>> /\ UNCHANGED podVars

Clean ==
    /\ at = "clean"
    /\ \/ /\ engines = EmptyBag
          /\ at' = "download"
          /\ UNCHANGED <<turn, attempt, verdict, drop, seen>>
       \/ /\ engines # EmptyBag      \* still there at the deadline
          /\ HarnessFailure(TRUE)
    /\ UNCHANGED podVars

(***************************************************************************)
(* download_weights: start it detached, poll for the exit code.            *)
(***************************************************************************)
NewFetch(m) == [model |-> m, code |-> NoCode]

KeepCode   == UNCHANGED rcFile   \* a bug: the last download's code is left
ForgetCode == rcFile' = NoCode

FetchStarts(m, n) ==
    /\ fetches' = fetches (+) Copies(n, NewFetch(m))
    /\ twice' = twice + n - 1
    /\ ForgetCode
    /\ disk' = IF disk[m] = "full" THEN disk ELSE [disk EXCEPT ![m] = "partial"]

StartDownload ==
    /\ at = "download"
    /\ \E n \in 1..2 : Times(n) /\ FetchStarts(Model, n)
    /\ at' = "poll"
    /\ UNCHANGED <<turn, attempt, verdict, drop, engines, logSize, seen, blame, late>>

\* A poll that fails costs a reconnect.  Past the deadline there is no code:
\* the download is not stopped, only no longer waited for.
PollDownload ==
    /\ at = "poll"
    /\ \/ /\ rcFile = 0
          /\ at' = "launch"
          /\ UNCHANGED <<turn, attempt, verdict, drop, seen, late>>
       \/ /\ rcFile > 0
          /\ HarnessFailure(FALSE)
          /\ UNCHANGED late
       \/ /\ rcFile = NoCode
          /\ late' = TRUE
          /\ HarnessFailure(FALSE)
    /\ UNCHANGED <<disk, fetches, rcFile, engines, logSize, blame, twice>>

(***************************************************************************)
(* boot: launch, then health, process, log size, until one of them ends it.*)
(***************************************************************************)
Launch ==
    /\ at = "launch"
    /\ \E n \in 1..2 :
          /\ Times(n)
          /\ engines' = engines (+) Copies(n, [model |-> Model, state |-> "loading"])
          /\ twice' = twice + n - 1
    /\ logSize' = 0 /\ blame' = {}
    /\ at' = "health"
    /\ UNCHANGED <<turn, attempt, verdict, drop, disk, fetches, rcFile, seen, late>>

Answering == {e \in BagToSet(engines) : e.state = "serving"}

Health ==
    /\ at = "health"
    /\ IF Answering # {} THEN Finish("healthy", FALSE)
       ELSE at' = "alive" /\ UNCHANGED <<turn, attempt, verdict, drop, seen>>
    /\ UNCHANGED podVars

\* No process: the log tail is classified, a harness failure by what it says
\* (a port in use, missing files), a model failure when nothing matches.
Alive ==
    /\ at = "alive"
    /\ \/ /\ engines # EmptyBag
          /\ at' = "size" /\ UNCHANGED <<turn, attempt, verdict, drop, seen>>
       \/ /\ engines = EmptyBag
          /\ HarnessFailure(FALSE) \/ Finish("model_failure", FALSE)
    /\ UNCHANGED podVars

\* A log that stands still for the health timeout ends the wait; the engine is
\* left running, and the tail is marked: a harness failure.
StillMoving == 0   \* a bug: an engine that hangs is waited on for ever

Still == IF logSize = seen.size THEN seen.still + 1 ELSE 0

LogSize ==
    /\ at = "size"
    /\ IF Still >= HealthTimeout
          THEN HarnessFailure(FALSE)
          ELSE /\ seen' = [size |-> logSize, still |-> Still]
               /\ at' = "health"
               /\ UNCHANGED <<turn, attempt, verdict, drop>>
    /\ UNCHANGED podVars

\* Any command may raise (a deadline passed, the connection gone for good):
\* the exception ends this model, and the pod is not reused.  The download's
\* polls are the exception: theirs is caught, but not the look at the log once
\* there is a code.
CommandRaises ==
    /\ \/ at \in {"prepare", "clean", "download", "launch", "health", "alive", "size"}
       \/ at = "poll" /\ rcFile # NoCode
    /\ Finish("harness_failure", TRUE)
    /\ UNCHANGED podVars

Client ==
    \/ NextModel \/ EndOfPod \/ PrepareBoot \/ Clean
    \/ StartDownload \/ PollDownload \/ Launch \/ Health \/ Alive \/ LogSize
    \/ CommandRaises

(***************************************************************************)
(* The pod.                                                                *)
(***************************************************************************)

\* The download process ends: it verified every file, which needs room for the
\* model, or failed, its model evicted under it or its watchdog out of attempts.
\* A stall the watchdog mends by a restart changes nothing here.
FetchEnds(f, fitting) ==
    /\ f.code = NoCode
    /\ \/ /\ disk[f.model] # "none" /\ f.model \in fitting
          /\ disk' = [disk EXCEPT ![f.model] = "full"]
          /\ fetches' = Become(fetches, f, [f EXCEPT !.code = 0])
       \/ /\ fetches' = Become(fetches, f, [f EXCEPT !.code = 1])
          /\ UNCHANGED disk
    /\ UNCHANGED rcFile

\* detached_command moves the finished code into the shared file.
FetchReports(f) ==
    /\ f.code # NoCode
    /\ rcFile' = f.code
    /\ fetches' = Gone(fetches, f)
    /\ UNCHANGED disk

Downloads(fitting) ==
    /\ \E f \in BagToSet(fetches) : FetchEnds(f, fitting) \/ FetchReports(f)
    /\ UNCHANGED <<at, turn, attempt, verdict, drop, engines, logSize, seen, blame,
                   twice, late>>

EngineLogs ==
    /\ \E e \in BagToSet(engines) : e.state = "loading"
    /\ logSize < MaxLog
    /\ logSize' = logSize + 1
    /\ UNCHANGED <<disk, fetches, rcFile, engines, blame, twice, late>>

\* One engine gets the port, with all of its weights.
EngineServes(e) ==
    /\ e.state = "loading" /\ disk[e.model] = "full" /\ Answering = {}
    /\ engines' = Become(engines, e, [e EXCEPT !.state = "serving"])
    /\ UNCHANGED <<disk, fetches, rcFile, logSize, blame, twice, late>>

\* An engine dies: killed, or of the model itself, of weights that are not
\* there, or of another engine that holds the GPU.
EngineDies(e) ==
    /\ engines' = Gone(engines, e)
    /\ blame' = IF at \notin {"health", "alive", "size"} THEN blame
                ELSE blame
                     \cup (IF disk[e.model] # "full" THEN {"weights"} ELSE {})
                     \cup (IF Gone(engines, e) # EmptyBag THEN {"collision"} ELSE {})
    /\ UNCHANGED <<disk, fetches, rcFile, logSize, twice, late>>

Engines ==
    /\ EngineLogs \/ \E e \in BagToSet(engines) : EngineServes(e) \/ EngineDies(e)
    /\ UNCHANGED <<at, turn, attempt, verdict, drop, seen>>

\* A GPU pod's own disk is sized for the model it rents for.
Pod == Downloads(Models) \/ Engines

(***************************************************************************)
(* Properties.                                                             *)
(***************************************************************************)

\* Every variable has its type.
EngineTypeOK ==
    /\ at \in {"next", "prepare", "clean", "download", "poll", "launch", "health",
               "alive", "size", "end"}
    /\ turn \in 0..Len(Served) /\ attempt \in 0..BootAttempts
    /\ verdict \in Seq({"healthy", "model_failure", "harness_failure"})
    /\ Len(verdict) \in {turn, turn - 1} /\ drop \in BOOLEAN
    /\ disk \in [Models -> {"none", "partial", "full"}]
    /\ \A f \in BagToSet(fetches) : f.model \in Models /\ f.code \in {NoCode, 0, 1}
    /\ rcFile \in {NoCode, 0, 1}
    /\ \A e \in BagToSet(engines) : e.state \in {"loading", "serving", "dying"}
    /\ logSize \in 0..MaxLog /\ seen.still \in 0..HealthTimeout
    /\ blame \subseteq {"weights", "collision"}
    /\ twice \in 0..MaxTwice /\ late \in BOOLEAN

\* What is recorded of a model is the model's: a healthy boot is answered by an
\* engine serving that model, and a boot recorded as the model's failure had
\* all of its weights and the GPU to itself.  A command that ran twice and a
\* download that outlived its wait break it (README, findings): both leave a
\* process behind that no later step looks for.
VerdictIsTheModels ==
    at = "next" /\ turn > 0 /\ twice = 0 /\ ~late =>
        CASE verdict[turn] = "healthy" -> \A e \in Answering : e.model = Model
          [] verdict[turn] = "model_failure" -> blame = {}
          [] OTHER -> TRUE
=============================================================================
