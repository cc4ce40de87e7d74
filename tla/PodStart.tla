------------------------------ MODULE PodStart ------------------------------
(***************************************************************************)
(* Renting a pod and waiting for its container: RunPodTarget.provision and *)
(* _wait_for_running (runpod.py) with the log reader and the start watch   *)
(* of runpod_logs.py.                                                      *)
(*                                                                         *)
(* A poll is five steps of the client: the outer timeout and the status    *)
(* query, the system log, the container log, the judgement, the sleep.     *)
(* Between any two of them the host may write a line or start the          *)
(* container, so what is judged was read at different moments.             *)
(*                                                                         *)
(* Time is counted in polls (the ten-second sleep); it passes in the sleep *)
(* and in a log read that runs to its deadline.                            *)
(***************************************************************************)
EXTENDS Integers, Sequences

CONSTANTS
    FirstLineWithin,  \* polls a host may take to its first system line
    SilenceLimit,     \* polls without a line, or without a good read
    StartAttempts,    \* pods rented before provision gives up
    WaitTimeouts,     \* the caller's outer bounds on one wait, 0 for none
    MaxLines,         \* lines one host writes in all: it falls silent then
    MaxCuts,          \* reads of one pod cut short with nothing reported
    MaxClock          \* no wait gets here: see TypeOK

ASSUME PodStartAssumption ==
    /\ FirstLineWithin \in Nat \ {0}
    /\ SilenceLimit \in Nat \ {0}
    /\ StartAttempts \in Nat \ {0}
    /\ {MaxLines, MaxCuts} \cup WaitTimeouts \subseteq Nat
    /\ MaxClock \in Nat \ {0}

Source == {"system", "container"}
Never == -1   \* None: the moment has not come

VARIABLES
    pc,        \* where provision stands
    limit,     \* wait_timeout of this call
    rented,    \* pods rented so far by this call
    outcome,   \* how this pod's wait ended
    wrote,     \* per source, when the host wrote each of its lines
    now,       \* polls since this pod was rented
    cursor,    \* PodLogReader._cursor: the last event id received
    kept,      \* per source, the lines appended to the pod's log file
    watch,     \* StartWatch: okAt, systemAt, lineAt
    poll,      \* this poll: the pod ran, sources with lines, a read failed
    cuts       \* reads of this pod that ended early without an error

startVars == <<pc, limit, rented, outcome, wrote, now, cursor, kept, watch, poll, cuts>>

NewWatch == [okAt |-> Never, systemAt |-> Never, lineAt |-> Never]
NewPoll  == [ran |-> FALSE, lines |-> {}, failed |-> FALSE]

StartInit ==
    /\ pc = "rent" /\ limit \in WaitTimeouts /\ rented = 0 /\ outcome = "none"
    /\ wrote = [s \in Source |-> <<>>] /\ now = 0
    /\ cursor = [s \in Source |-> 0] /\ kept = [s \in Source |-> <<>>]
    /\ watch = NewWatch /\ poll = NewPoll /\ cuts = 0

(***************************************************************************)
(* The host writes a line before a read or before the sleep: the moments   *)
(* in between are the same to the harness.                                 *)
(***************************************************************************)
HostWrites(s) ==
    /\ pc \in {"system", "container", "sleep"}
    /\ Len(wrote["system"]) + Len(wrote["container"]) < MaxLines
    /\ wrote' = [wrote EXCEPT ![s] = Append(@, now)]
    /\ UNCHANGED <<pc, limit, rented, outcome, now, cursor, kept, watch, poll, cuts>>

(***************************************************************************)
(* provision: one round of the start-attempts loop.                        *)
(***************************************************************************)
NewHost ==
    /\ outcome' = "none"
    /\ wrote' = [s \in Source |-> <<>>] /\ now' = 0
    /\ cursor' = [s \in Source |-> 0] /\ kept' = [s \in Source |-> <<>>]
    /\ watch' = NewWatch /\ poll' = NewPoll /\ cuts' = 0

Rent ==
    /\ pc = "rent"
    /\ IF rented < StartAttempts
          THEN /\ pc' = "status" /\ rented' = rented + 1
               /\ NewHost /\ UNCHANGED limit
          ELSE /\ pc' = "given_up"   \* PodStartError
               /\ UNCHANGED <<limit, rented, outcome, wrote, now, cursor, kept, watch,
                              poll, cuts>>

\* An exception leaves provision: the argument, the loop counter, the reader and
\* the watch were local to it and its wait.
Raises == pc' = "raised" /\ rented' = 0 /\ limit' = 0 /\ NewHost

\* The outer bound, then the status query: whether the container runs
\* (runtime.uptimeInSeconds > 0) is judged after both reads.  A failing query
\* raises out of provision.
Status ==
    /\ pc = "status"
    /\ \/ Raises   \* by the bound or by the query
       \/ /\ limit > 0 => now <= limit
          /\ pc' = "system"
          /\ \E running \in BOOLEAN : poll' = [NewPoll EXCEPT !.ran = running]
          /\ UNCHANGED <<limit, rented, outcome, wrote, now, cursor, kept, watch, cuts>>

(***************************************************************************)
(* PodLogReader.read: the frames after the cursor, each an id line and     *)
(* then a data line.  The stream never closes, so a read ends              *)
(*   - drained: quiet after the last frame there was;                      *)
(*   - early: quiet although frames were still to come, which is the same  *)
(*     ReadTimeout and reported as no error;                               *)
(*   - cut at the deadline between a frame's id and its data, which _until *)
(*     closes: the cursor passes a line that is never returned;            *)
(*   - broken: refused, or a connection lost after some frames.            *)
(***************************************************************************)
Pending(s) == Len(wrote[s]) - cursor[s]

\* The poll holds n new lines of s; the cursor stands at `at`.
Received(s, n, at, failed, end) ==
    /\ cursor' = [cursor EXCEPT ![s] = at]
    /\ kept' = [kept EXCEPT ![s] = @ \o [i \in 1..n |-> cursor[s] + i]]
    /\ poll' = [poll EXCEPT !.lines = IF n > 0 THEN @ \cup {s} ELSE @,
                            !.failed = @ \/ failed]
    /\ pc' = end
    /\ UNCHANGED <<limit, rented, outcome, wrote, watch>>

Drained(s, end) ==
    /\ Received(s, Pending(s), Len(wrote[s]), FALSE, end)
    /\ UNCHANGED <<now, cuts>>

Early(s, n, end) ==
    /\ n < Pending(s) /\ cuts < MaxCuts
    /\ cuts' = cuts + 1
    /\ Received(s, n, cursor[s] + n, FALSE, end)
    /\ UNCHANGED now

CutAtDeadline(s, n, end) ==
    /\ n < Pending(s) /\ cuts < MaxCuts
    /\ cuts' = cuts + 1
    /\ now' = now + 1
    /\ Received(s, n, cursor[s] + n + 1, FALSE, end)

BrokenRereads(s, n, end) ==   \* a bug: the cursor moves with a good read only
    /\ Received(s, n, cursor[s], TRUE, end)
    /\ UNCHANGED <<now, cuts>>

Broken(s, n, end) ==
    /\ Received(s, n, cursor[s] + n, TRUE, end)
    /\ UNCHANGED <<now, cuts>>

Read(s, end) ==
    /\ pc = s
    /\ \/ Drained(s, end)
       \/ \E n \in 0..Pending(s) :
             Early(s, n, end) \/ CutAtDeadline(s, n, end) \/ Broken(s, n, end)

(***************************************************************************)
(* StartWatch.observe and StartWatch.verdict.                              *)
(***************************************************************************)
Observe(w) ==
    [okAt     |-> IF poll.failed THEN w.okAt ELSE now,
     systemAt |-> IF "system" \in poll.lines /\ w.systemAt = Never
                  THEN now ELSE w.systemAt,
     lineAt   |-> IF poll.lines # {} THEN now ELSE w.lineAt]

\* The moment, or the rent (0) when it has not come.
SinceRent(t) == IF t = Never THEN 0 ELSE t

VerdictCountsFailures(w) ==   \* a bug: silence counted up to now
    IF now - SinceRent(w.okAt) > SilenceLimit THEN "logs_unreadable"
    ELSE IF w.okAt = Never THEN "wait"
    ELSE IF w.systemAt = Never
         THEN IF now > FirstLineWithin THEN "never_started" ELSE "wait"
    ELSE IF now - SinceRent(w.lineAt) > SilenceLimit THEN "stalled" ELSE "wait"

\* Silence is counted up to the last good read: a failed one is no evidence.
Verdict(w) ==
    IF now - SinceRent(w.okAt) > SilenceLimit THEN "logs_unreadable"
    ELSE IF w.okAt = Never THEN "wait"
    ELSE IF w.systemAt = Never
         THEN IF w.okAt > FirstLineWithin THEN "never_started" ELSE "wait"
    ELSE IF w.okAt - SinceRent(w.lineAt) > SilenceLimit THEN "stalled" ELSE "wait"

\* The container's state is looked at before the verdict: a pod that runs is
\* never abandoned for what its logs did not say.
Judge ==
    /\ pc = "judge"
    /\ watch' = Observe(watch)
    /\ \/ /\ poll.ran
          /\ pc' = "connect" /\ outcome' = "started"
       \/ /\ ~poll.ran /\ Verdict(watch') # "wait"
          /\ pc' = "abandon" /\ outcome' = Verdict(watch')
       \/ /\ ~poll.ran /\ Verdict(watch') = "wait"
          /\ pc' = "sleep" /\ UNCHANGED outcome
    /\ poll' = NewPoll
    /\ UNCHANGED <<limit, rented, wrote, now, cursor, kept, cuts>>

Sleep ==
    /\ pc = "sleep"
    /\ now' = IF now < MaxClock THEN now + 1 ELSE now
    /\ pc' = "status"
    /\ UNCHANGED <<limit, rented, outcome, wrote, cursor, kept, watch, poll, cuts>>

\* PodStartAbandoned: the pod is torn down and another is rented.
Abandon ==
    /\ pc = "abandon"
    /\ pc' = "rent"
    /\ NewHost /\ UNCHANGED <<limit, rented>>

\* _establish_ssh and _detect_hardware: either may raise, the pod then stays
\* up and the caller tears it down.
Connect ==
    /\ pc = "connect"
    /\ \/ pc' = "started" /\ rented' = 0 /\ limit' = 0 /\ NewHost
       \/ Raises

Provision ==
    \/ Rent \/ Status
    \/ Read("system", "container") \/ Read("container", "judge")
    \/ Judge \/ Sleep \/ Abandon \/ Connect

(***************************************************************************)
(* Properties.                                                             *)
(***************************************************************************)

\* Every variable has its type, and the clock's cap is never reached: no wait
\* of a host that writes MaxLines lines is as long as MaxClock.
StartTypeOK ==
    /\ pc \in {"rent", "status", "system", "container", "judge", "sleep",
              "abandon", "connect", "started", "given_up", "raised"}
    /\ limit \in WaitTimeouts \cup {0} /\ rented \in 0..StartAttempts
    /\ outcome \in {"none", "started", "never_started", "stalled", "logs_unreadable"}
    /\ \A s \in Source : /\ wrote[s] \in Seq(0..now)
                          /\ cursor[s] \in 0..Len(wrote[s])
                          /\ kept[s] \in Seq(1..cursor[s])
    /\ now \in 0..(MaxClock - 1)
    /\ watch \in [{"okAt", "systemAt", "lineAt"} -> Never..now]
    /\ poll.lines \subseteq Source /\ cuts \in 0..MaxCuts

\* A host is abandoned for its silence only when it was silent.  Told it never
\* started, the host had written no system line before the last good poll;
\* told it stalled, it had written nothing for the whole silence limit before
\* that poll.  A line of the poll's own last ticks may be missed: the reads
\* were over when it came.  Reads that end early without an error break this
\* (SilenceLimit is then measured from lines the watch was never given), so
\* the promise is for pods none of whose reads was cut.
AbandonedWhenSilent ==
    pc = "abandon" /\ cuts = 0 =>
        LET before(s) == {wrote[s][i] : i \in DOMAIN wrote[s]} \cap 0..(watch.okAt - 1)
        IN  CASE outcome = "never_started" -> before("system") = {}
              [] outcome = "stalled" ->
                    \A s \in Source : \A t \in before(s) : watch.okAt - t > SilenceLimit
              [] OTHER -> TRUE

\* The pod's log file holds each line at most once, in the order it was
\* written, and every line up to the cursor but one for each read cut short.
KeptOnce ==
    \A s \in Source :
        /\ \A i, j \in DOMAIN kept[s] : i < j => kept[s][i] < kept[s][j]
        /\ cursor[s] - Len(kept[s]) <= cuts

Host == \E s \in Source : HostWrites(s)
=============================================================================
