----------------------------- MODULE SharedLedger -----------------------------
(***************************************************************************)
(* The ledger file and the processes that write it: the owners of holds    *)
(* (stage_weights and the peak probe; a cohort run rents in the same       *)
(* order) and reconcile_billing.  Nothing locks the file.  Each process    *)
(* replays it once at start and then keeps its own BudgetTracker, which    *)
(* never sees what the others append.                                      *)
(*                                                                         *)
(* The file is a sequence of lines.  A line whose newline was never        *)
(* written is glued to the next append; a line that does not parse is      *)
(* skipped when it is the last one and an error anywhere else.             *)
(***************************************************************************)
EXTENDS Integers, Sequences, SequencesExt, FiniteSets, Functions

CONSTANTS
  Owner,        \* processes that hold, rent, annotate and settle
  Recon,        \* the reconcile_billing process
  Pod,
  NoPod,
  None,         \* no provisional settle
  Estimate,     \* what an owner holds
  WaitCost,     \* what stage_weights pays for a start that rented nothing
  Authorized,
  MaxTicks,     \* bound: ticks of waiting
  MaxStarts,    \* bound: starts of all processes
  MaxHolds,     \* bound: holds opened
  MaxTears      \* bound: crashes in the middle of an append

ASSUME ProcessAssumption == Recon \notin Owner /\ NoPod \notin Pod
ASSUME PodAssumption == IsFiniteSet(Pod)  \* an account ever rents finitely many
ASSUME AmountAssumption ==
  /\ None \notin Int
  /\ Estimate \in Nat /\ WaitCost \in Nat /\ Authorized \in Nat
  /\ MaxTicks \in Nat /\ MaxTears \in Nat
  /\ MaxStarts \in Nat /\ MaxHolds \in Nat

Process == Owner \cup {Recon}
Label == Owner  \* every owner holds under a label of its own

VARIABLES
  file,         \* ledger.jsonl
  mode,         \* the step each process is at; "down" when it does not run
  account,      \* each process's BudgetTracker
  target,       \* the pod each owner works on
  pods,         \* "fresh", "billing" or "gone", per pod
  bill,         \* ticks billed, per pod
  todo,         \* entries reconcile_billing has still to append
  overlap,      \* history: an entry was appended while another process ran
  foreign,      \* history: not running, or another process appended since its replay
  reconciled,   \* history: "yes" after a complete reconcile, "begun" during one
  ticks, starts, holds, tears

podVars == <<target, pods, bill>>
boundVars == <<ticks, starts, holds, tears>>
vars == <<file, mode, account, podVars, todo, overlap, foreign, reconciled, boundVars>>

-----------------------------------------------------------------------------
(* Lines *)

Line(op, label, amount, pod, replayed) ==
  [op |-> op, label |-> label, amount |-> amount, pod |-> pod, replayed |-> replayed,
   ended |-> TRUE]

HoldLine(l, estimate) == Line("hold", l, estimate, NoPod, FALSE)
AnnotateLine(l, p) == Line("annotate", l, 0, p, FALSE)
SettleLine(l, actual) == Line("settle", l, actual, NoPod, FALSE)
ReplayedLine(l, actual) == Line("settle", l, actual, NoPod, TRUE)
ReleaseLine(l) == Line("release", l, 0, NoPod, FALSE)
SpendLine(p, amount) == Line("spend", Recon, amount, p, FALSE)
CorrectLine(p, amount) == Line("correct", Recon, amount, p, FALSE)
BrokenLine == Line("broken", Recon, 0, NoPod, FALSE)

LastEnded == file = <<>> \/ Last(file).ended

(* append: opened "a"; after an unfinished line the two are one.           *)
Appended(line) ==
  IF LastEnded THEN Append(file, line)
  ELSE Append(Front(file), [BrokenLine EXCEPT !.ended = line.ended])

Readable(lines) == \A i \in 1..(Len(lines) - 1) : lines[i].op # "broken"

ReadAllKeepingTail(lines) == lines  \* mutated form

ReadAll(lines) ==
  IF lines # <<>> /\ Last(lines).op = "broken" THEN Front(lines) ELSE lines

-----------------------------------------------------------------------------
(* Accounts *)

NoHold == [open |-> FALSE, estimate |-> 0, pod |-> NoPod]
HeldAt(estimate, p) == [open |-> TRUE, estimate |-> estimate, pod |-> p]
NewAccount == [spent |-> 0, holds |-> [l \in Label |-> NoHold]]

CanAfford(a, amount) ==
  a.spent + SumFunction([l \in Label |-> a.holds[l].estimate]) + amount <= Authorized

Charge(a, amount) == [a EXCEPT !.spent = @ + amount]
SetHold(a, l, hold) == [a EXCEPT !.holds[l] = hold]

(* What the methods do to a running tracker.                               *)
Holding(a, l, estimate) == SetHold(a, l, HeldAt(estimate, NoPod))
Naming(a, l, p) == SetHold(a, l, HeldAt(a.holds[l].estimate, p))
Settling(a, l, actual) == Charge(SetHold(a, l, NoHold), actual)
Releasing(a, l) == SetHold(a, l, NoHold)

(* Mutated form: the owner's settle is charged beside the provisional one. *)
ReplayedEntryCountsTwice(r, e) ==
  LET l == e.label
      isOpen == r.a.holds[l].open
  IN CASE e.op = "hold" -> [r EXCEPT !.a = Holding(@, l, e.amount)]
       [] e.op = "annotate" /\ isOpen -> [r EXCEPT !.a = Naming(@, l, e.pod)]
       [] e.op = "settle" /\ isOpen ->
            [r EXCEPT !.a = Settling(@, l, e.amount),
                      !.provisional[l] = IF e.replayed THEN e.amount ELSE @]
       [] e.op = "settle" /\ ~isOpen /\ r.provisional[l] # None ->
            [r EXCEPT !.a = Charge(@, e.amount), !.provisional[l] = None]
       [] e.op = "release" /\ isOpen -> [r EXCEPT !.a = Releasing(@, l)]
       [] e.op \in {"spend", "correct"} -> [r EXCEPT !.a = Charge(@, e.amount)]
       [] OTHER -> [r EXCEPT !.failed = TRUE]

(* One round of replay's loop.  The settle of a hold that is not open       *)
(* replaces the provisional one a replay wrote; without one, and on any     *)
(* other entry for a hold that is not open, replay raises KeyError.         *)
ReplayedEntry(r, e) ==
  LET l == e.label
      isOpen == r.a.holds[l].open
  IN CASE e.op = "hold" -> [r EXCEPT !.a = Holding(@, l, e.amount)]
       [] e.op = "annotate" /\ isOpen -> [r EXCEPT !.a = Naming(@, l, e.pod)]
       [] e.op = "settle" /\ isOpen ->
            [r EXCEPT !.a = Settling(@, l, e.amount),
                      !.provisional[l] = IF e.replayed THEN e.amount ELSE @]
       [] e.op = "settle" /\ ~isOpen /\ r.provisional[l] # None ->
            [r EXCEPT !.a = Charge(@, e.amount - r.provisional[l]),
                      !.provisional[l] = None]
       [] e.op = "release" /\ isOpen -> [r EXCEPT !.a = Releasing(@, l)]
       [] e.op \in {"spend", "correct"} -> [r EXCEPT !.a = Charge(@, e.amount)]
       [] OTHER -> [r EXCEPT !.failed = TRUE]

Replayed(lines) ==
  FoldLeft(ReplayedEntry,
           [a |-> NewAccount, provisional |-> [l \in Label |-> None], failed |-> FALSE], lines)

(* What the next start finds: no line but the last may be broken, and every *)
(* entry must apply.                                                        *)
OnDisk ==
  LET r == Replayed(ReadAll(file))
  IN [a |-> r.a, works |-> Readable(file) /\ ~r.failed]

-----------------------------------------------------------------------------
(* Steps *)

Init ==
  /\ file = <<>>
  /\ mode = [w \in Process |-> "down"]
  /\ account = [w \in Process |-> NewAccount]
  /\ target = [w \in Owner |-> NoPod]
  /\ pods = [p \in Pod |-> "fresh"] /\ bill = [p \in Pod |-> 0]
  /\ todo = {}
  /\ overlap = FALSE /\ foreign = [w \in Process |-> TRUE] /\ reconciled = "no"
  /\ ticks = 0 /\ starts = 0 /\ holds = 0 /\ tears = 0

Alive == {w \in Process : mode[w] # "down"}
Billing == {p \in Pod : pods[p] = "billing"}
Rented == {p \in Pod : pods[p] # "fresh"}
OpenOf(a) == {l \in Label : a.holds[l].open}
OpenIn(w) == OpenOf(account[w])
Named(w) == account[w].holds[w].pod # NoPod

(* w's append of a line, and what it means to the other processes.         *)
Write(w, line) ==
  /\ file' = Appended(line)
  /\ overlap' = (overlap \/ Alive # {w})
  /\ foreign' = [v \in Process |-> foreign[v] \/ v # w]
  /\ reconciled' = (IF w = Recon THEN reconciled ELSE "no")

(* Mutated form: the corrections of a reconcile that died are still made.  *)
DiesKeepsTodo(w) ==
  /\ mode' = [mode EXCEPT ![w] = "down"]
  /\ account' = [account EXCEPT ![w] = NewAccount]
  /\ target' = IF w = Recon THEN target ELSE [target EXCEPT ![w] = NoPod]
  /\ todo' = todo

(* The process goes; its pod, if it has one, bills on.                     *)
Dies(w) ==
  /\ mode' = [mode EXCEPT ![w] = "down"]
  /\ account' = [account EXCEPT ![w] = NewAccount]
  /\ target' = IF w = Recon THEN target ELSE [target EXCEPT ![w] = NoPod]
  /\ todo' = IF w = Recon THEN {} ELSE todo

(* build_ports sweeps old pods, whoever works on them, before it replays;   *)
(* reconcile_billing does not.  A start whose replay raises ends there.     *)
Start(w) ==
  /\ mode[w] = "down" /\ starts < MaxStarts
  /\ starts' = starts + 1
  /\ \E swept \in SUBSET Billing :
       /\ w = Recon => swept = {}
       /\ pods' = [p \in Pod |-> IF p \in swept THEN "gone" ELSE pods[p]]
  /\ LET found == OnDisk
     IN IF found.works
        THEN /\ mode' = [mode EXCEPT ![w] = IF OpenOf(found.a) = {} THEN "ready" ELSE "replay"]
             /\ account' = [account EXCEPT ![w] = found.a]
             /\ foreign' = [foreign EXCEPT ![w] = FALSE]
        ELSE UNCHANGED <<mode, account, foreign>>
  /\ UNCHANGED <<file, target, bill, todo, overlap, reconciled, ticks, holds, tears>>

(* What a replay settles a hold at: the provider's answer for its pod, or   *)
(* the estimate.  reconcile_billing does not ask the provider.              *)
ReplayCosts(w, l) ==
  LET hold == account[w].holds[l]
  IN {hold.estimate} \cup (IF w # Recon /\ hold.pod # NoPod THEN {bill[hold.pod]} ELSE {})

(* Mutated form: the settle is not written.                                *)
ReplaySettlesInMemory(w) ==
  /\ mode[w] = "replay"
  /\ \E l \in OpenIn(w) : \E actual \in ReplayCosts(w, l) :
       /\ account' = [account EXCEPT ![w] = Settling(@, l, actual)]
       /\ mode' = [mode EXCEPT ![w] = IF OpenIn(w) = {l} THEN "ready" ELSE "replay"]
  /\ UNCHANGED <<file, overlap, foreign, reconciled, podVars, todo, boundVars>>

ReplaySettles(w) ==
  /\ mode[w] = "replay"
  /\ \E l \in OpenIn(w) : \E actual \in ReplayCosts(w, l) :
       /\ Write(w, ReplayedLine(l, actual))
       /\ account' = [account EXCEPT ![w] = Settling(@, l, actual)]
       /\ mode' = [mode EXCEPT ![w] = IF OpenIn(w) = {l} THEN "ready" ELSE "replay"]
  /\ UNCHANGED <<podVars, todo, boundVars>>

Holds(w) ==
  /\ mode[w] = "ready" /\ holds < MaxHolds
  /\ holds' = holds + 1
  /\ CanAfford(account[w], Estimate)
  /\ Write(w, HoldLine(w, Estimate))
  /\ account' = [account EXCEPT ![w] = Holding(@, w, Estimate)]
  /\ mode' = [mode EXCEPT ![w] = "held"]
  /\ UNCHANGED <<podVars, todo, ticks, starts, tears>>

Rents(w, p) ==
  /\ mode[w] = "held" /\ pods[p] = "fresh"
  /\ pods' = [pods EXCEPT ![p] = "billing"]
  /\ target' = [target EXCEPT ![w] = p]
  /\ mode' = [mode EXCEPT ![w] = "rented"]
  /\ UNCHANGED <<file, account, bill, todo, overlap, foreign, reconciled, boundVars>>

(* No pod was created: the peak probe releases its hold, stage_weights      *)
(* settles it for the time it waited.                                       *)
RentsNothing(w) ==
  /\ mode[w] = "held"
  /\ \/ /\ Write(w, ReleaseLine(w))
        /\ account' = [account EXCEPT ![w] = Releasing(@, w)]
     \/ /\ Write(w, SettleLine(w, WaitCost))
        /\ account' = [account EXCEPT ![w] = Settling(@, w, WaitCost)]
  /\ mode' = [mode EXCEPT ![w] = "ready"]
  /\ UNCHANGED <<podVars, todo, boundVars>>

(* annotate_hold, once the pod is up or, when provisioning failed with a    *)
(* pod rented, after its teardown.                                          *)
Annotates(w) ==
  /\ mode[w] \in {"rented", "ended"} /\ ~Named(w)
  /\ Write(w, AnnotateLine(w, target[w]))
  /\ account' = [account EXCEPT ![w] = Naming(@, w, target[w])]
  /\ UNCHANGED <<mode, podVars, todo, boundVars>>

(* The pod is torn down; one that was swept is already gone.               *)
Ends(w) ==
  /\ mode[w] = "rented"
  /\ pods' = [pods EXCEPT ![target[w]] = "gone"]
  /\ mode' = [mode EXCEPT ![w] = "ended"]
  /\ UNCHANGED <<file, account, target, bill, todo, overlap, foreign, reconciled, boundVars>>

(* What an owner settles its pod at: what the provider reported before the  *)
(* teardown, which may lag behind the bill, or the rate times the time      *)
(* since before the pod was rented.                                         *)
PodCosts(w) == 0..(bill[target[w]] + WaitCost)

Settles(w) ==
  /\ mode[w] = "ended" /\ Named(w)
  /\ \E actual \in PodCosts(w) :
       /\ Write(w, SettleLine(w, actual))
       /\ account' = [account EXCEPT ![w] = Settling(@, w, actual)]
  /\ target' = [target EXCEPT ![w] = NoPod]
  /\ mode' = [mode EXCEPT ![w] = "ready"]
  /\ UNCHANGED <<pods, bill, todo, boundVars>>

(* A kill, an exit, or the PodLeakError of a teardown: nothing is written.  *)
Crash(w) ==
  /\ mode[w] # "down"
  /\ Dies(w)
  /\ foreign' = [foreign EXCEPT ![w] = TRUE]
  /\ UNCHANGED <<file, pods, bill, overlap, reconciled, boundVars>>

(* The line w's next step may append.                                      *)
NextLines(w) ==
  CASE mode[w] = "replay" ->
         {ReplayedLine(l, account[w].holds[l].estimate) : l \in OpenIn(w)}
    [] mode[w] = "ready" /\ w \in Owner /\ holds < MaxHolds -> {HoldLine(w, Estimate)}
    [] mode[w] = "held" -> {ReleaseLine(w), SettleLine(w, WaitCost)}
    [] mode[w] \in {"rented", "ended"} /\ ~Named(w) -> {AnnotateLine(w, target[w])}
    [] mode[w] = "ended" /\ Named(w) -> {SettleLine(w, actual) : actual \in PodCosts(w)}
    [] mode[w] = "correct" -> todo
    [] OTHER -> {}

(* A crash in the middle of an append leaves some of the line: not enough   *)
(* to parse, or all of it but the newline.                                  *)
CrashAppending(w) ==
  /\ tears < MaxTears
  /\ \E line \in NextLines(w) : \E left \in {BrokenLine, line} :
       Write(w, [left EXCEPT !.ended = FALSE])
  /\ Dies(w)
  /\ tears' = tears + 1
  /\ UNCHANGED <<pods, bill, ticks, starts, holds>>

Tick ==
  /\ Billing # {} /\ ticks < MaxTicks
  /\ ticks' = ticks + 1
  /\ bill' = [p \in Pod |-> IF pods[p] = "billing" THEN bill[p] + 1 ELSE bill[p]]
  /\ UNCHANGED <<file, mode, account, target, pods, todo, overlap, foreign, reconciled, starts,
                 holds, tears>>

-----------------------------------------------------------------------------
(* reconcile_billing *)

(* Mutated form: earlier corrections are not part of what is tracked.      *)
CountedForgetsCorrect(t, e) ==
  CASE e.op = "annotate" -> [t EXCEPT !.podOf[e.label] = e.pod]
    [] e.op = "settle" /\ t.podOf[e.label] # NoPod ->
         [t EXCEPT !.settled[t.podOf[e.label]] = @ + e.amount,
                   !.pods = @ \cup {t.podOf[e.label]}, !.podOf[e.label] = NoPod]
    [] e.op = "spend" ->
         [t EXCEPT !.settled[e.pod] = @ + e.amount, !.pods = @ \cup {e.pod}]
    [] OTHER -> t

(* ledger_by_pod: what was settled for each pod that an entry names.       *)
Counted(t, e) ==
  CASE e.op = "annotate" -> [t EXCEPT !.podOf[e.label] = e.pod]
    [] e.op = "settle" /\ t.podOf[e.label] # NoPod ->
         [t EXCEPT !.settled[t.podOf[e.label]] = @ + e.amount,
                   !.pods = @ \cup {t.podOf[e.label]}, !.podOf[e.label] = NoPod]
    [] e.op \in {"spend", "correct"} ->
         [t EXCEPT !.settled[e.pod] = @ + e.amount, !.pods = @ \cup {e.pod}]
    [] OTHER -> t

Tracked(lines) ==
  FoldLeft(Counted,
           [podOf |-> [l \in Label |-> NoPod], settled |-> [p \in Pod |-> 0], pods |-> {}],
           lines)

(* The bill, of which any pod may not be posted yet, against the ledger as  *)
(* it is now: the pods no entry names, and those whose amounts differ.      *)
(* An empty ledger, an empty bill or a corrupt line ends the process.       *)
ReadsBill ==
  /\ mode[Recon] = "ready"
  /\ \E posted \in SUBSET Rented :
       IF file # <<>> /\ Readable(file) /\ posted # {}
       THEN LET tracked == Tracked(ReadAll(file))
            IN /\ todo' = {SpendLine(p, bill[p]) : p \in {q \in posted \ tracked.pods : bill[q] > 0}}
                          \cup {CorrectLine(p, bill[p] - tracked.settled[p]) :
                                p \in {q \in posted \cap tracked.pods : bill[q] # tracked.settled[q]}}
               /\ mode' = [mode EXCEPT ![Recon] = "correct"]
               /\ reconciled' = (IF posted = Rented /\ Billing = {} THEN "begun" ELSE "no")
               /\ UNCHANGED <<account, target>>
       ELSE Dies(Recon) /\ reconciled' = "no"
  /\ UNCHANGED <<file, pods, bill, overlap, foreign, boundVars>>

(* record_spend for each unledgered pod, refused when the tracker cannot    *)
(* afford it, which ends the process; then a correct for each other one.    *)
Corrects(line) ==
  /\ mode[Recon] = "correct"
  /\ line.op = "correct" => \A other \in todo : other.op = "correct"
  /\ IF line.op = "correct" \/ CanAfford(account[Recon], line.amount)
     THEN /\ Write(Recon, line)
          /\ account' = [account EXCEPT ![Recon] = Charge(@, line.amount)]
          /\ todo' = todo \ {line}
          /\ UNCHANGED <<mode, target>>
     ELSE Dies(Recon) /\ UNCHANGED <<file, overlap, foreign, reconciled>>
  /\ UNCHANGED <<pods, bill, boundVars>>

Reconciles ==
  /\ mode[Recon] = "correct" /\ todo = {}
  /\ Dies(Recon)
  /\ reconciled' = (IF reconciled = "begun" THEN "yes" ELSE "no")
  /\ UNCHANGED <<file, pods, bill, overlap, foreign, boundVars>>

-----------------------------------------------------------------------------
(* The findings *)

PublishedEntry(t, e) ==
  LET l == e.label
      Adds(amount, provisional) ==
        [t EXCEPT !.total = @ + amount, !.provisional[l] = provisional]
  IN CASE e.op = "hold" -> Adds(0, None)
       [] e.op = "settle" /\ e.replayed -> Adds(e.amount, e.amount)
       [] e.op = "settle" /\ ~e.replayed /\ t.provisional[l] # None ->
            Adds(e.amount - t.provisional[l], None)
       [] \/ e.op = "settle" /\ ~e.replayed /\ t.provisional[l] = None
          \/ e.op \in {"spend", "correct"} -> [t EXCEPT !.total = @ + e.amount]
       [] OTHER -> t

(* ledger_spent: every settle, but of a replay's and the owner's after it    *)
(* only the owner's; every spend and correction.                             *)
LedgerSpent(lines) ==
  FoldLeft(PublishedEntry, [total |-> 0, provisional |-> [l \in Label |-> None]], lines).total

-----------------------------------------------------------------------------
Next ==
  \/ \E w \in Process : Start(w) \/ ReplaySettles(w) \/ Crash(w) \/ CrashAppending(w)
  \/ \E w \in Owner : Holds(w) \/ RentsNothing(w) \/ Annotates(w) \/ Ends(w) \/ Settles(w)
  \/ \E w \in Owner, p \in Pod : Rents(w, p)
  \/ ReadsBill \/ Reconciles
  \/ \E line \in todo : Corrects(line)
  \/ Tick

Spec == Init /\ [][Next]_vars

-----------------------------------------------------------------------------
(* Types *)

Account == [spent : Int,
            holds : [Label -> [open : BOOLEAN, estimate : Nat, pod : Pod \cup {NoPod}]]]

LineType == [op : {"hold", "annotate", "settle", "release", "spend", "correct", "broken"},
             label : Process, amount : Int, pod : Pod \cup {NoPod}, replayed : BOOLEAN,
             ended : BOOLEAN]

(* Every variable holds values of its kind; a process that does not run     *)
(* keeps nothing, and only the last line can lack its newline.              *)
TypeOK ==
  /\ file \in Seq(LineType)
  /\ \A i \in 1..(Len(file) - 1) : file[i].ended
  /\ mode \in [Process -> {"down", "replay", "ready", "held", "rented", "ended", "correct"}]
  /\ account \in [Process -> Account] /\ target \in [Owner -> Pod \cup {NoPod}]
  /\ \A w \in Process : mode[w] = "down" => account[w] = NewAccount
  /\ \A w \in Owner : target[w] # NoPod <=> mode[w] \in {"rented", "ended"}
  /\ pods \in [Pod -> {"fresh", "billing", "gone"}] /\ bill \in [Pod -> Nat]
  /\ todo \in SUBSET LineType /\ (todo # {} => mode[Recon] = "correct")
  /\ overlap \in BOOLEAN /\ foreign \in [Process -> BOOLEAN]
  /\ reconciled \in {"no", "begun", "yes"}
  /\ ticks \in Nat /\ starts \in Nat /\ holds \in Nat /\ tears \in Nat

-----------------------------------------------------------------------------
(* Safety *)

(* Every append that returned is still a line of its own.                  *)
NothingLost == \A i \in DOMAIN file : file[i].op = "broken" => ~file[i].ended

(* What a process that nobody has written past holds in memory is what a    *)
(* start would replay from the file.                                        *)
AgreesWithDisk ==
  LET found == OnDisk
  IN \A w \in Alive : ~foreign[w] => found.works /\ found.a = account[w]

(* A process that nobody has written past holds in memory what a start      *)
(* would replay, after any crashes, replays and torn lines before it.       *)
SoleWriterAgrees == NothingLost => AgreesWithDisk

(* Without the proviso: budget.py and ledger_file.py say that every call    *)
(* happens after its entry is durable, a torn last line being a call that   *)
(* never started.                                                           *)
StartReadsWhatWasAppended == AgreesWithDisk

(* Processes that never write beside one another leave a ledger that the    *)
(* next start replays, wherever they crashed.                               *)
SequentialReplays == ~overlap /\ Readable(file) => OnDisk.works

(* test_budget_tracker.py: an owner's settle replaces a replay of its live  *)
(* hold, and the next replay does not fail.                                 *)
NextReplayWorks == tears = 0 => OnDisk.works

Since(lines, i, j) == {k \in (i + 1)..(j - 1) : lines[k].op = "hold" /\ lines[k].label = lines[i].label}

SettledAgainAt(lines, i) ==
  {j \in (i + 1)..Len(lines) :
     /\ lines[j].op = "settle" /\ lines[j].label = lines[i].label
     /\ Since(lines, i, j) = {}}

(* What the ledger says was spent: the last settle of each hold, and the    *)
(* spends and corrections.                                                  *)
LastSettles(lines) ==
  SumFunction([i \in DOMAIN lines |->
    IF \/ lines[i].op \in {"spend", "correct"}
       \/ lines[i].op = "settle" /\ SettledAgainAt(lines, i) = {}
    THEN lines[i].amount ELSE 0])

(* A replay appended its settle after the hold's owner had closed it.      *)
LateReplay(lines) ==
  \E i, j \in DOMAIN lines :
    /\ i < j /\ lines[i].op \in {"settle", "release"} /\ lines[i].label = lines[j].label
    /\ lines[j].replayed /\ Since(lines, i, j) = {}

(* Unless a replay came too late, a ledger a start can read charges each    *)
(* hold once, at its owner's settle when there is one; and the total that    *)
(* the findings publish, which they count for themselves and never refuse    *)
(* to, is what the tracker holds.                                            *)
EachHoldChargedOnce ==
  LET lines == ReadAll(file)
      found == OnDisk
  IN found.works /\ ~LateReplay(lines)
       => found.a.spent = LastSettles(lines) /\ LedgerSpent(lines) = found.a.spent

(* Some hold was settled without a pod to its name.                        *)
UnnamedSettle ==
  \E i \in DOMAIN file : \E j \in DOMAIN file :
    /\ file[i].op = "hold" /\ file[j].op = "settle" /\ file[j].label = file[i].label /\ i < j
    /\ \A k \in i..j : ~(file[k].op = "annotate" /\ file[k].label = file[i].label)

Total == SumFunction(bill)

(* After a reconcile that saw every pod's final bill, the account is the    *)
(* bill, however many reconciles were cut off before: each only adds what   *)
(* is still missing.                                                        *)
ReconciledIsBilled ==
  reconciled = "yes" /\ ~overlap /\ NothingLost /\ ~UnnamedSettle => OnDisk.a.spent = Total

(* reconcile_billing.py: the bill is what the pod cost.                    *)
ReconcileCorrectsToBill ==
  /\ reconciled = "yes" /\ ~overlap /\ tears = 0
  /\ \A p \in Rented : bill[p] > 0
  => OnDisk.a.spent = Total
=============================================================================
