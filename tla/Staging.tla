------------------------------ MODULE Staging ------------------------------
(***************************************************************************)
(* Weights staged on the network volume of a datacenter before a GPU pod   *)
(* is rented: the choice and the size of the volume (weights_site and      *)
(* accrue_storage of cohort_root.py, runpod_storage.py), the CPU pod that  *)
(* downloads onto it (staging.py), and the two programs around them: the   *)
(* prestaged cohort run (tests/integration/test_cohort_run.py, entry "run")*)
(* and scripts/stage_weights.py (entry "ahead").                           *)
(*                                                                         *)
(* What a later round knows of a volume it reads from files: the staged    *)
(* events, the prestage records and volumes.json.  The downloads are       *)
(* EngineBoot's, on the volume while a stager has it attached.             *)
(***************************************************************************)
EXTENDS EngineBoot, FiniteSetsExt, Functions

CONSTANTS
    Sites,        \* datacenters with network storage
    Region,       \* region_rank of each: lower is preferred
    GigaBytes,    \* what the download of each model writes
    Flavor,       \* CPU flavors
    FlavorRam,    \* GB of RAM per vCPU of each
    MaxRounds, MaxHours, MaxLost   \* bounds

ASSUME StagingAssumption ==
    /\ Region \in [Sites -> Nat] /\ GigaBytes \in [Models -> Nat]
    /\ FlavorRam \in [Flavor -> Nat]
    /\ {MaxRounds, MaxHours, MaxLost} \subseteq Nat

Vcpus == {8, 4, 2}
StagerMinRam == 16
MaxVolume == 4000

VARIABLES
    stage,      \* where the round stands; "idle" between rounds
    entry,      \* which program runs it
    site,       \* the datacenter it is for
    wanted,     \* the models it is given
    results,    \* StagingResult.models: those a download was finished for
    failed,     \* a model of results is not ok, or the staging had an error
    volume,     \* size of each datacenter's volume, 0 for none
    contents,   \* per datacenter and model: none, partial or full
    staged,     \* per datacenter, the models with a good staged event
    listed,     \* per volume, the models of its prestage records
    accrual,    \* volumes.json, and what the volume costs and was charged
    rounds, hours, lost   \* bounds; lost counts rounds cut off

roundVars   == <<stage, entry, site, wanted, results, failed>>
volumeVars  == <<volume, contents, staged, listed, accrual>>
countVars   == <<rounds, hours, lost>>
stagingVars == <<roundVars, volumeVars, countVars>>

SomeSite == CHOOSE dc \in Sites : TRUE
Empty == [m \in Models |-> "none"]

(* size: size_gb as it was written last; age: hours since then; due: what   *)
(* the provider asks for them; balance: what was charged beyond its bill up *)
(* to then.  History: early, what was due before the first entry; again,    *)
(* what rounds charged that died before they wrote the entry; grown, some   *)
(* entry found the volume larger than the entry before.                     *)
NoAccrual == [known |-> FALSE, size |-> 0, age |-> 0, due |-> 0, balance |-> 0,
              early |-> 0, again |-> 0, grown |-> FALSE]

StagingInit ==
    /\ stage = "idle" /\ entry = "run" /\ site = SomeSite /\ wanted = {}
    /\ results = {} /\ failed = FALSE
    /\ volume = [dc \in Sites |-> 0] /\ contents = [dc \in Sites |-> Empty]
    /\ staged = [dc \in Sites |-> {}] /\ listed = [dc \in Sites |-> {}]
    /\ accrual = [dc \in Sites |-> NoAccrual]
    /\ rounds = 0 /\ hours = 0 /\ lost = 0

Goes(step) ==
    /\ stage' = step
    /\ UNCHANGED <<entry, site, wanted, results, failed>>

\* The round is over; the pod, if there was one, is gone, and what it wrote
\* stays on the volume.
RoundOver ==
    /\ stage' = "idle" /\ entry' = "run" /\ site' = SomeSite /\ wanted' = {}
    /\ results' = {} /\ failed' = FALSE
    /\ disk' = Empty /\ fetches' = EmptyBag /\ rcFile' = NoCode

NoPod == UNCHANGED <<disk, fetches, rcFile, twice, late>>

(***************************************************************************)
(* weights_site: where, and how large.                                     *)
(***************************************************************************)
Total == [models \in SUBSET Models |-> SumFunction([m \in models |-> GigaBytes[m]])]

\* need_gb: fifteen percent more than the models, and ten gigabytes.
Need(models) == (115 * Total[models]) \div 100 + 10

\* ensure_volume: created, or grown when it is smaller; never shrunk.  A size
\* above the provider's limit is refused.
Ensured(dc, size) ==
    /\ size \in 0..MaxVolume
    /\ volume' = [volume EXCEPT ![dc] = Max({@, size})]

StagedAlready(dc, models) == volume[dc] > 0 /\ models \subseteq staged[dc]

\* The best region first; within a region, where there is a volume.
Rank(dc) == 2 * Region[dc] + (IF volume[dc] > 0 THEN 0 ELSE 1)
Preferred(dcs) == {d \in dcs : \A e \in dcs : Rank(d) <= Rank(e)}

\* The datacenters of choice, given those with the GPUs and with a CPU pod in
\* stock; without the GPUs anywhere the run waits where the weights are.
SitesOfChoice(models, gpu, cpu) ==
    LET stocked == {dc \in gpu : dc \in cpu \/ StagedAlready(dc, models)}
    IN  IF stocked # {} THEN Preferred(stocked)
        ELSE Preferred({dc \in Sites : StagedAlready(dc, models)})

MayBegin == stage = "idle" /\ rounds < MaxRounds

Begins(program, dc, models, step) ==
    /\ rounds' = rounds + 1
    /\ stage' = step /\ entry' = program /\ site' = dc /\ wanted' = models
    /\ UNCHANGED <<results, failed, contents, staged, listed, accrual, hours, lost>>
    /\ NoPod

ChooseSite ==
    /\ MayBegin
    /\ \E models \in SUBSET Models \ {{}}, gpu, cpu \in SUBSET Sites :
         \E dc \in SitesOfChoice(models, gpu, cpu) :
            Begins("run", dc, models, "sizing") /\ Ensured(dc, Need(models))

\* stage_weights.py: for a datacenter that has a volume; first the hours so
\* far are accrued, at the size they had.
StageAhead ==
    /\ MayBegin
    /\ \E models \in SUBSET Models \ {{}}, dc \in {d \in Sites : volume[d] > 0} :
         Begins("ahead", dc, models, "accrue") /\ UNCHANGED volume

OnVolumeNow == wanted   \* a bug: sized for this round's models only

\* What is on the volume when the round is through, as far as records tell.
OnVolume == listed[site] \cup wanted

\* The second ensure_volume of weights_site, the only one of stage_weights.
SizeForAll ==
    /\ stage = "sizing"
    /\ Ensured(site, Need(OnVolume))
    /\ Goes("stage")
    /\ UNCHANGED <<contents, staged, listed, accrual, countVars>> /\ NoPod

(***************************************************************************)
(* stage_site and stage_weights: the stager pod.                           *)
(***************************************************************************)

\* Everything is there already: no pod, and every model listed as ok.
NothingToFetch ==
    /\ stage = "stage" /\ wanted \subseteq staged[site]
    /\ stage' = "record" /\ results' = wanted
    /\ UNCHANGED <<entry, site, wanted, failed, volumeVars, countVars>> /\ NoPod

\* The sizes asked for: with the memory a download takes.
StagerSizes(flavors) ==
    {s \in flavors \X Vcpus : FlavorRam[s[1]] * s[2] >= StagerMinRam}

\* provision: a datacenter that lists no flavor in stock is asked for all.  Its
\* failure, and an image without the download step, end in the teardown.
RentStager ==
    /\ stage = "stage" /\ ~(wanted \subseteq staged[site])
    /\ \/ /\ \E stock \in SUBSET Flavor :
                StagerSizes(IF stock = {} THEN Flavor ELSE stock) # {}
          /\ disk' = contents[site]
          /\ Goes("download")
       \/ /\ stage' = "teardown" /\ failed' = TRUE
          /\ disk' = contents[site]
          /\ UNCHANGED <<entry, site, wanted, results>>
    /\ UNCHANGED <<fetches, rcFile, twice, late, volumeVars, countVars>>

\* download_weights, one model after the other.  The command that starts a
\* download may raise after it reached the pod: the model is then not listed.
\* The one in hand is the first that is wanted and not finished.
InHand == CHOOSE m \in wanted \ results : TRUE

FetchNext ==
    /\ stage = "download" /\ results # wanted
    /\ FetchStarts(InHand, 1)
    /\ \/ Goes("wait")
       \/ /\ stage' = "teardown" /\ failed' = TRUE
          /\ UNCHANGED <<entry, site, wanted, results>>
    /\ UNCHANGED <<late, volumeVars, countVars>>

Fetched ==
    /\ stage = "download" /\ results = wanted
    /\ Goes("teardown")
    /\ UNCHANGED <<volumeVars, countVars>> /\ NoPod

\* A staged event is written whether the download was good or not.
Answered(ok) ==
    /\ stage' = "download" /\ results' = results \cup {InHand}
    /\ failed' = (failed \/ ~ok)
    /\ staged' = IF ok THEN [staged EXCEPT ![site] = @ \cup {InHand}] ELSE staged
    /\ UNCHANGED <<entry, site, wanted>>

FetchAnswered ==
    /\ stage = "wait"
    /\ \/ rcFile # NoCode /\ Answered(rcFile = 0) /\ UNCHANGED late
       \/ rcFile = NoCode /\ Answered(FALSE) /\ late' = TRUE
       \/ /\ rcFile # NoCode   \* the look at the download's log raises
          /\ stage' = "teardown" /\ failed' = TRUE
          /\ UNCHANGED <<entry, site, wanted, results, staged, late>>
    /\ UNCHANGED <<disk, fetches, rcFile, twice, volume, contents, listed, accrual,
                   countVars>>

\* The pod goes, and its processes with it.
StagerGone ==
    /\ stage = "teardown"
    /\ Goes("record")
    /\ contents' = [contents EXCEPT ![site] = disk]
    /\ disk' = Empty /\ fetches' = EmptyBag /\ rcFile' = NoCode
    /\ UNCHANGED <<twice, late, volume, staged, listed, accrual, countVars>>

\* prestage-<tag>.json.  A run goes on, to its pods and then to the storage it
\* owes, only if every model is there.
WriteRecord ==
    /\ stage = "record"
    /\ listed' = [listed EXCEPT ![site] = @ \cup results]
    /\ \/ entry = "run" /\ ~failed /\ Goes("accrue") /\ NoPod
       \/ (entry = "ahead" \/ failed) /\ RoundOver /\ UNCHANGED <<twice, late>>
    /\ UNCHANGED <<volume, contents, staged, accrual, countVars>>

(***************************************************************************)
(* accrue_storage: the spend, then volumes.json.                           *)
(***************************************************************************)
AtRecordedSize(dc) == accrual[dc].size * accrual[dc].age   \* a bug: before it grew

Amount(dc) == volume[dc] * accrual[dc].age

Charge ==
    /\ stage = "accrue"
    /\ accrual' = [accrual EXCEPT ![site].balance =
                      @ + (IF accrual[site].known THEN Amount(site) ELSE 0)]
    /\ Goes("accrued")
    /\ UNCHANGED <<volume, contents, staged, listed, countVars>> /\ NoPod

\* A volume that was not known is entered as of now: what it has cost so far
\* was not charged and never will be.
WriteAccrual ==
    /\ stage = "accrued"
    /\ accrual' = [accrual EXCEPT ![site] =
                      [known |-> TRUE, size |-> volume[site], age |-> 0, due |-> 0,
                       balance |-> @.balance - @.due,
                       early |-> IF @.known THEN @.early ELSE @.due,
                       again |-> @.again,
                       grown |-> @.grown \/ (@.known /\ @.size # volume[site])]]
    /\ \/ entry = "ahead" /\ Goes("sizing") /\ NoPod
       \/ entry = "run" /\ RoundOver /\ UNCHANGED <<twice, late>>
    /\ UNCHANGED <<volume, contents, staged, listed, countVars>>

(***************************************************************************)
(* A round that ends early: the program is killed, or the budget, a        *)
(* provider call, the teardown or the settle raises out of it.             *)
(***************************************************************************)
PodUp == stage \in {"download", "wait", "teardown"}

\* Charged, its entry not yet written.
Unwritten(dc) ==
    IF stage = "accrued" /\ dc = site /\ accrual[dc].known THEN Amount(dc) ELSE 0

CutOff ==
    /\ stage # "idle" /\ lost < MaxLost
    /\ lost' = lost + 1
    /\ contents' = IF PodUp THEN [contents EXCEPT ![site] = disk] ELSE contents
    /\ accrual' = [accrual EXCEPT ![site].again = @ + Unwritten(site)]
    /\ RoundOver
    /\ UNCHANGED <<twice, late, volume, staged, listed, rounds, hours>>

\* The provider bills a volume by its size and by the hour.
HourPasses ==
    /\ stage \in {"idle", "wait"} /\ hours < MaxHours
    /\ hours' = hours + 1
    /\ accrual' = [dc \in Sites |->
                     IF volume[dc] = 0 THEN accrual[dc]
                     ELSE [accrual[dc] EXCEPT !.age = @ + 1, !.due = @ + volume[dc]]]
    /\ UNCHANGED <<roundVars, volume, contents, staged, listed, rounds, lost>> /\ NoPod

\* A download may be complete only where the models that are, and it, fit.
Fitting ==
    {m \in Models : Total[{m} \cup {n \in Models : disk[n] = "full"}] <= volume[site]}

Round ==
    \/ SizeForAll \/ NothingToFetch \/ RentStager \/ FetchNext \/ Fetched
    \/ FetchAnswered \/ StagerGone \/ WriteRecord \/ Charge \/ WriteAccrual

(***************************************************************************)
(* Properties.                                                             *)
(***************************************************************************)

\* Every variable has its type.
StagingTypeOK ==
    /\ stage \in {"idle", "sizing", "stage", "download", "wait", "teardown", "record",
                  "accrue", "accrued"}
    /\ entry \in {"run", "ahead"} /\ site \in Sites
    /\ results \subseteq wanted /\ wanted \subseteq Models /\ failed \in BOOLEAN
    /\ volume \in [Sites -> 0..MaxVolume]
    /\ contents \in [Sites -> [Models -> {"none", "partial", "full"}]]
    /\ {staged, listed} \subseteq [Sites -> SUBSET Models]
    /\ rounds \in 0..MaxRounds /\ hours \in 0..MaxHours /\ lost \in 0..MaxLost

\* Two things hold of a volume for the next round to rely on.  A model with a
\* good staged event is on it in full: a run then waits for GPUs there and
\* rents no stager.  And while a stager downloads, the volume has room for all
\* that is on it and all it was asked for.  A download that ran twice or
\* outlived its wait breaks the first, what a round that was cut off left
\* unlisted breaks the second (README, findings).
InReach(dc) == {m \in Models : contents[dc][m] # "none"} \cup wanted
Unlisted(dc) == {m \in Models : contents[dc][m] # "none"} \ (listed[dc] \cup wanted)

WeightsAsRecorded ==
    /\ ~late =>
         \A dc \in Sites : \A m \in staged[dc] :
             "full" \in {contents[dc][m], IF PodUp /\ dc = site THEN disk[m] ELSE "none"}
    /\ PodUp /\ Unlisted(site) = {} => Total[InReach(site)] <= volume[site]

\* What was charged for a volume's storage is what the provider asked for it,
\* but for three things.  The hours before its first entry in volumes.json are
\* never charged; a round that dies between the spend and the entry leaves its
\* hours to be charged again by the next, in full and no more often than rounds
\* died; and a volume that grew is charged too much, never too little.
StorageIsPaid ==
    \A dc \in {d \in Sites : accrual[d].known} :
        LET paid == accrual[dc].balance - Unwritten(dc)
            expected == accrual[dc].again - accrual[dc].early
        IN  paid >= expected /\ (~accrual[dc].grown => paid = expected)
=============================================================================
