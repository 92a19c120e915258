--------------------------- MODULE IngestionProofs ---------------------------
(* Proofs about the ingestion of a bucket, for any readers, versions, page and
   batch sizes, jobs and bounds.                                               *)
EXTENDS IngestionPopulator, ProofLemmas

-----------------------------------------------------------------------------
(* The state of the location.  It is in memory (_pausedLocations) and in the node
   of the location, changed by updates that read the node, write it, and then
   change the memory: the two only have to agree between two updates.          *)

Cmds == {"pause", "resume", "schedule", "unschedule", "trigger"}
Nodes == [exists : BOOLEAN, paused : BOOLEAN, resume : BOOLEAN]
Gots == {NoData} \cup {<<n>> : n \in Nodes}
InFlight == [cmd : Cmds, got : Gots]

(* A location paused in memory is paused in its node; the converse waits for the
   set-up by this process.                                                     *)
Settled ==
    /\ zkLocation.exists /\ ~Active => zkLocation.paused
    /\ zkLocation.exists /\ loaded /\ zkLocation.paused => ~Active

(* A resume is only scheduled for a paused location: the set-up, which schedules
   it again, relies on it.                                                     *)
ResumesPaused == zkLocation.exists /\ zkLocation.resume => zkLocation.paused

(* What holds while the update of a command is in flight, so that it may also fail:
   a pause finds the location settled; a job that fires, and the resume it starts,
   may find a location that was resumed by hand.                               *)
Promise(cmd) ==
    CASE cmd = "unschedule" -> Settled
      [] cmd = "schedule" -> ResumesPaused /\ (zkLocation.exists => zkLocation.paused)
      [] cmd = "pause" -> Settled /\ ResumesPaused
      [] OTHER -> ResumesPaused /\ (zkLocation.exists /\ zkLocation.paused => Settled)

LocationTypes ==
    /\ zkLocation \in Nodes
    /\ updates \in Seq(InFlight)
    /\ nextJob \in 1..(MaxJobs + 1) /\ jobs \subseteq 1..(nextJob - 1)
    /\ paused \in NotPaused..(nextJob - 1)
    /\ loaded \in BOOLEAN /\ overlapped \in BOOLEAN /\ leftOver \in BOOLEAN /\ resumedEmpty \in BOOLEAN

PauseInv ==
    ~overlapped /\ ~leftOver /\ ~resumedEmpty =>
        \/ updates = <<>> /\ Settled /\ ResumesPaused
        \/ \E cmd \in Cmds, got \in {NoData, <<zkLocation>>} :
            updates = <<[cmd |-> cmd, got |-> got]>> /\ Promise(cmd)

LocationInv == LocationTypes /\ PauseInv

LEMMA Idle ==
    ASSUME PauseInv, updates = <<>>, ~overlapped, ~leftOver, ~resumedEmpty
    PROVE  Settled /\ ResumesPaused
<1>1. \A u : Len(<<u>>) = 1 /\ Len(<<>>) = 0
  OBVIOUS
<1>2. \A u : updates # <<u>>
  BY <1>1
<1> QED BY <1>2 DEF PauseInv

LEMMA LocationInit ==
    ASSUME Init PROVE LocationInv
<1>1. PICK s \in Scenarios : zkLocation = [NoSuchNode EXCEPT !.exists = s.known]
  BY DEF Init
<1>2. zkLocation \in Nodes /\ ~zkLocation.resume
  BY <1>1, IngestionAssumption DEF NoSuchNode, Nodes
<1>3. updates \in Seq(InFlight) /\ nextJob \in 1..(MaxJobs + 1) /\ jobs \subseteq 1..(nextJob - 1)
  BY JobsAssumption DEF Init
<1>4. paused \in NotPaused..(nextJob - 1)
  BY DEF Init, NotPaused
<1>5. loaded \in BOOLEAN /\ overlapped \in BOOLEAN /\ leftOver \in BOOLEAN /\ resumedEmpty \in BOOLEAN
  BY DEF Init
<1>6. LocationTypes
  BY <1>2, <1>3, <1>4, <1>5 DEF LocationTypes
<1> QED BY <1>2, <1>6 DEF Init, LocationInv, PauseInv, NotPaused, Nodes, Settled, ResumesPaused, Active

(* What starts an update *)
LEMMA StartTypes ==
    ASSUME NEW ops \in Seq(InFlight), NEW cmd \in Cmds
    PROVE  Start(ops, cmd) \in Seq(InFlight)
<1>1. Update(cmd) \in InFlight
  BY DEF Update, InFlight, Gots
<1> QED BY <1>1 DEF Start

LEMMA ScheduleTypes ==
    ASSUME LocationTypes, ScheduleJob
    PROVE  /\ nextJob' \in 1..(MaxJobs + 1) /\ jobs' \subseteq 1..(nextJob' - 1)
           /\ paused' \in NotPaused..(nextJob' - 1)
BY JobsAssumption DEF LocationTypes, ScheduleJob, NotPaused

(* One update in flight *)
LEMMA RemoveOnly ==
    ASSUME NEW u PROVE  RemoveAt(<<u>>, 1) = <<>> /\ \A w : Append(RemoveAt(<<u>>, 1), w) = <<w>>
<1>1. <<u>> \in Seq({u}) /\ 1 \in 1..Len(<<u>>) /\ Len(<<u>>) = 1
  OBVIOUS
<1>2. RemoveAt(<<u>>, 1) \in Seq({u}) /\ Len(RemoveAt(<<u>>, 1)) = Len(<<u>>) - 1
  BY <1>1, RemoveAtProperties
<1>3. RemoveAt(<<u>>, 1) = <<>>
  BY <1>1, <1>2
<1>4. \A w : Append(<<>>, w) = <<w>>
  OBVIOUS
<1> QED BY <1>3, <1>4

(* A command starts the only update, or overlaps another *)
LEMMA CommandLocation ==
    ASSUME LocationInv, Command PROVE LocationInv'
<1>1. PICK cmd \in Cmds : Begin(cmd) /\ (cmd = "schedule" => ~Active)
  BY DEF Command, PauseService, ResumeService, DeleteScheduledResumeService, TriggerResume, Cmds
<1>2. UNCHANGED <<paused, nextJob, zkLocation, loaded, leftOver, resumedEmpty>> /\ jobs' \subseteq jobs
  BY DEF Command, PauseService, ResumeService, DeleteScheduledResumeService, TriggerResume
<1>3. LocationTypes'
  <2>1. updates' \in Seq(InFlight)
    BY <1>1, StartTypes DEF Begin, LocationInv, LocationTypes
  <2>2. overlapped' \in BOOLEAN
    BY <1>1 DEF Begin, LocationInv, LocationTypes
  <2> QED BY <1>2, <2>1, <2>2 DEF LocationInv, LocationTypes
<1>4. ASSUME ~overlapped', ~leftOver', ~resumedEmpty'
      PROVE  updates' = <<[cmd |-> cmd, got |-> NoData]>> /\ Promise(cmd)'
  <2>1. ~overlapped /\ ~leftOver /\ ~resumedEmpty /\ updates = <<>>
    BY <1>1, <1>2, <1>4 DEF Begin, LocationInv, LocationTypes
  <2>2. updates' = <<[cmd |-> cmd, got |-> NoData]>>
    BY <1>1, <2>1 DEF Begin, Start, Update
  <2>3. Settled /\ ResumesPaused
    BY <2>1 DEF LocationInv, PauseInv
  <2>4. Settled' /\ (Active' <=> Active)
    BY <1>2, <2>3 DEF Settled, Active
  <2>5. Promise(cmd)'
    BY <1>1, <1>2, <2>3, <2>4 DEF Promise, Settled, ResumesPaused
  <2> QED BY <2>2, <2>5
<1> QED BY <1>2, <1>3, <1>4 DEF LocationInv, PauseInv

LEMMA ReadLocation ==
    ASSUME LocationInv, NEW k \in DOMAIN updates, UpdateReads(k) PROVE LocationInv'
<1>1. UNCHANGED <<paused, jobs, nextJob, zkLocation, loaded, overlapped, leftOver, resumedEmpty>>
  BY DEF UpdateReads
<1>2. LocationTypes'
  <2>1. updates' = [updates EXCEPT ![k].got = <<zkLocation>>]
    BY DEF UpdateReads
  <2>2. <<zkLocation>> \in Gots
    BY DEF LocationInv, LocationTypes, Gots
  <2>3. updates[k] \in InFlight
    BY DEF LocationInv, LocationTypes
  <2>4. [updates[k] EXCEPT !.got = <<zkLocation>>] \in InFlight
    BY <2>2, <2>3 DEF InFlight
  <2>5. updates' \in Seq(InFlight)
    BY <2>1, <2>4 DEF LocationInv, LocationTypes
  <2> QED BY <1>1, <2>5 DEF LocationInv, LocationTypes
<1>3. ASSUME ~overlapped, ~leftOver, ~resumedEmpty,
             NEW cmd \in Cmds, NEW got \in {NoData, <<zkLocation>>},
             updates = <<[cmd |-> cmd, got |-> got]>>, Promise(cmd)
      PROVE  updates' = <<[cmd |-> cmd, got |-> <<zkLocation>>]>> /\ Promise(cmd)'
  <2>1. k = 1
    BY <1>3
  <2>2. updates' = <<[cmd |-> cmd, got |-> <<zkLocation>>]>>
    BY <1>3, <2>1 DEF UpdateReads
  <2> QED BY <1>1, <1>3, <2>2 DEF Promise, Settled, ResumesPaused, Active
<1>4. updates # <<>>
  OBVIOUS
<1> QED BY <1>1, <1>2, <1>3, <1>4 DEF LocationInv, PauseInv

LEMMA WriteTypes ==
    ASSUME LocationInv, NEW k \in DOMAIN updates, UpdateWrites(k) PROVE LocationTypes'
<1> DEFINE Updates == Seq(InFlight)
           ops == RemoveAt(updates, k)
<1>1. updates[k] \in InFlight /\ updates[k].got # NoData
  BY DEF LocationInv, LocationTypes, UpdateWrites
<1>2. zkLocation' \in Nodes
  <2>1. PICK n \in Nodes : updates[k].got = <<n>>
    BY <1>1 DEF InFlight, Gots
  <2>2. n = updates[k].got[1]
    BY <2>1
  <2> QED BY <2>2 DEF UpdateWrites, Changed, Nodes
<1>3. ops \in Updates
  BY RemoveAtProperties DEF LocationInv, LocationTypes
<1>4. Start(ops, "unschedule") \in Updates /\ Start(ops, "resume") \in Updates
  BY <1>3, StartTypes DEF Cmds
<1>5. /\ UNCHANGED <<loaded, overlapped, leftOver>>
      /\ Paused(ops) \/ Resumed(ops) \/ Unscheduled(ops) \/ Scheduled(ops) \/ Triggered(ops)
  BY DEF UpdateWrites
<1> HIDE DEF Updates, ops
<1>6. updates' \in Updates /\ resumedEmpty' \in BOOLEAN
  BY <1>3, <1>4, <1>5 DEF Paused, Resumed, Unscheduled, Scheduled, Triggered, LocationInv, LocationTypes
<1>7. /\ nextJob' \in 1..(MaxJobs + 1) /\ jobs' \subseteq 1..(nextJob' - 1)
      /\ paused' \in NotPaused..(nextJob' - 1)
  <2>1. CASE Scheduled(ops)
    BY <2>1, ScheduleTypes DEF Scheduled, LocationInv
  <2>2. CASE Paused(ops) \/ Resumed(ops) \/ Unscheduled(ops) \/ Triggered(ops)
    <3>1. nextJob' = nextJob /\ jobs' \subseteq jobs /\ paused' \in {paused, 0, NotPaused}
      BY <2>2 DEF Paused, Resumed, Unscheduled, Triggered
    <3> QED BY <3>1, JobsAssumption DEF LocationInv, LocationTypes, NotPaused
  <2> QED BY <1>5, <2>1, <2>2
<1> QED BY <1>2, <1>5, <1>6, <1>7 DEF LocationInv, LocationTypes, Updates

LEMMA WriteLocation ==
    ASSUME LocationInv, NEW k \in DOMAIN updates, UpdateWrites(k) PROVE LocationInv'
<1>1. UNCHANGED <<loaded, overlapped, leftOver>>
  BY DEF UpdateWrites
<1>2. LocationTypes'
  BY WriteTypes
<1>3. zkLocation.exists /\ zkLocation' = Changed(updates[k]) /\ updates[k].got # NoData
  BY DEF UpdateWrites
<1>4. ~overlapped' /\ ~leftOver' /\ ~resumedEmpty' => ~overlapped /\ ~leftOver /\ ~resumedEmpty
  BY DEF UpdateWrites, LocationInv, LocationTypes, Paused, Resumed, Unscheduled, Scheduled, Triggered
<1>5. ASSUME ~overlapped', ~leftOver', ~resumedEmpty',
             NEW cmd \in Cmds, NEW got \in {NoData, <<zkLocation>>},
             updates = <<[cmd |-> cmd, got |-> got]>>, Promise(cmd)
      PROVE  \/ updates' = <<>> /\ Settled' /\ ResumesPaused'
             \/ \E c \in Cmds : updates' = <<[cmd |-> c, got |-> NoData]>> /\ Promise(c)'
  <2>1. k = 1 /\ updates[k] = [cmd |-> cmd, got |-> <<zkLocation>>] /\ zkLocation \in Nodes
    BY <1>3, <1>5 DEF LocationInv, LocationTypes
  <2>2. RemoveAt(updates, k) = <<>> /\ \A w : Append(RemoveAt(updates, k), w) = <<w>>
    BY <1>5, <2>1, RemoveOnly
  <2>3. \/ cmd = "pause" /\ Paused(RemoveAt(updates, k))
        \/ cmd = "resume" /\ Resumed(RemoveAt(updates, k))
        \/ cmd = "unschedule" /\ Unscheduled(RemoveAt(updates, k))
        \/ cmd = "schedule" /\ Scheduled(RemoveAt(updates, k))
        \/ cmd = "trigger" /\ Triggered(RemoveAt(updates, k))
    BY <2>1 DEF UpdateWrites
  <2>4. zkLocation' = CASE cmd = "pause" -> [zkLocation EXCEPT !.paused = TRUE]
                        [] cmd = "resume" -> [zkLocation EXCEPT !.paused = FALSE]
                        [] cmd = "schedule" -> [zkLocation EXCEPT !.resume = TRUE]
                        [] OTHER -> [zkLocation EXCEPT !.resume = FALSE]
    BY <1>3, <2>1 DEF Changed
  <2>5. Start(RemoveAt(updates, k), "unschedule") = <<[cmd |-> "unschedule", got |-> NoData]>>
    BY <2>2 DEF Start, Update
  <2>6. Start(RemoveAt(updates, k), "resume") = <<[cmd |-> "resume", got |-> NoData]>>
    BY <2>2 DEF Start, Update
  <2>7. CASE cmd = "pause"
    <3>1. zkLocation' = [zkLocation EXCEPT !.paused = TRUE] /\ paused' = 0
          /\ updates' = <<[cmd |-> "unschedule", got |-> NoData]>>
      BY <2>3, <2>4, <2>5, <2>7 DEF Paused
    <3>2. Promise("unschedule")'
      BY <2>1, <3>1 DEF Promise, Settled, Active, NotPaused, Nodes
    <3> QED BY <2>1, <3>1, <3>2 DEF Nodes, Cmds
  <2>8. CASE cmd = "resume"
    <3>1. zkLocation' = [zkLocation EXCEPT !.paused = FALSE] /\ paused' = NotPaused
          /\ updates' = <<[cmd |-> "unschedule", got |-> NoData]>>
      BY <1>5, <2>3, <2>4, <2>5, <2>8 DEF Resumed
    <3>2. Promise("unschedule")'
      BY <2>1, <3>1 DEF Promise, Settled, Active, NotPaused, Nodes
    <3> QED BY <2>1, <3>1, <3>2 DEF Nodes, Cmds
  <2>9. CASE cmd = "unschedule"
    <3>1. zkLocation' = [zkLocation EXCEPT !.resume = FALSE] /\ updates' = <<>>
          /\ paused' = IF paused > 0 THEN 0 ELSE paused
      BY <2>2, <2>3, <2>4, <2>9 DEF Unscheduled
    <3>2. Active' <=> Active
      BY <3>1 DEF Active, NotPaused, LocationInv, LocationTypes
    <3>3. Settled
      BY <1>5, <2>9 DEF Promise
    <3>4. Settled' /\ ResumesPaused'
      BY <1>1, <2>1, <3>1, <3>2, <3>3 DEF Settled, ResumesPaused, Nodes
    <3> QED BY <2>1, <3>1, <3>4 DEF Nodes
  <2>10. CASE cmd = "schedule"
    <3>1. zkLocation' = [zkLocation EXCEPT !.resume = TRUE] /\ updates' = <<>> /\ paused' = nextJob
      BY <2>2, <2>3, <2>4, <2>10 DEF Scheduled, ScheduleJob
    <3>2. zkLocation.paused
      BY <1>3, <1>5, <2>10 DEF Promise
    <3>3. Settled' /\ ResumesPaused'
      BY <2>1, <3>1, <3>2 DEF Settled, ResumesPaused, Active, NotPaused, Nodes, LocationInv, LocationTypes
    <3> QED BY <2>1, <3>1, <3>3 DEF Nodes
  <2>11. CASE cmd = "trigger"
    <3>1. zkLocation' = [zkLocation EXCEPT !.resume = FALSE] /\ paused' = 0
          /\ updates' = <<[cmd |-> "resume", got |-> NoData]>>
      BY <2>3, <2>4, <2>6, <2>11 DEF Triggered
    <3>2. Promise("resume")'
      BY <2>1, <3>1 DEF Promise, Settled, ResumesPaused, Active, NotPaused, Nodes
    <3> QED BY <3>1, <3>2 DEF Cmds
  <2> QED BY <2>7, <2>8, <2>9, <2>10, <2>11 DEF Cmds
<1>6. updates # <<>>
  OBVIOUS
<1> QED BY <1>1, <1>2, <1>4, <1>5, <1>6 DEF LocationInv, PauseInv

(* A failed update leaves nothing of it, but a job that is retried *)
LEMMA FailLocation ==
    ASSUME LocationInv, NEW k \in DOMAIN updates, UpdateFails(k) PROVE LocationInv'
<1>1. updates' \in Seq(InFlight)
  BY RemoveAtProperties DEF LocationInv, LocationTypes, UpdateFails
<1>2. /\ UNCHANGED <<zkLocation, loaded, overlapped, resumedEmpty>>
      /\ leftOver' = (leftOver \/ LeavesResume(updates[k].cmd))
  BY DEF UpdateFails
<1>3. /\ nextJob' \in 1..(MaxJobs + 1) /\ jobs' \subseteq 1..(nextJob' - 1)
      /\ paused' \in NotPaused..(nextJob' - 1)
  BY ScheduleTypes DEF UpdateFails, LocationInv, LocationTypes
<1>4. LocationTypes'
  <2>1. leftOver' \in BOOLEAN
    BY <1>2 DEF LocationInv, LocationTypes, LeavesResume
  <2> QED BY <1>1, <1>2, <1>3, <2>1 DEF LocationInv, LocationTypes
<1>5. ASSUME ~overlapped', ~leftOver', ~resumedEmpty'
      PROVE  updates' = <<>> /\ Settled' /\ ResumesPaused'
  <2>1. ~overlapped /\ ~leftOver /\ ~resumedEmpty /\ ~LeavesResume(updates[k].cmd)
    BY <1>2, <1>5 DEF LocationInv, LocationTypes
  <2>2. updates # <<>>
    OBVIOUS
  <2>3. PICK cmd \in Cmds, got \in {NoData, <<zkLocation>>} :
            updates = <<[cmd |-> cmd, got |-> got]>> /\ Promise(cmd)
    BY <2>1, <2>2 DEF LocationInv, PauseInv
  <2>4. k = 1 /\ updates[k].cmd = cmd
    BY <2>3
  <2>5. updates' = <<>>
    BY <2>3, <2>4, RemoveOnly DEF UpdateFails
  <2>6. ResumesPaused'
    <3>1. ResumesPaused
      BY <2>1, <2>3, <2>4 DEF Promise, LeavesResume, ResumesPaused, Cmds
    <3> QED BY <1>2, <3>1 DEF ResumesPaused
  <2>7. Settled
    BY <2>1, <2>3, <2>4 DEF Promise, LeavesResume, Settled, ResumesPaused, Cmds
  <2>8. Settled'
    <3>1. CASE cmd = "trigger"
      <4>1. paused' = nextJob
        BY <2>4, <3>1 DEF UpdateFails, ScheduleJob
      <4>2. zkLocation.paused
        BY <2>1, <2>4, <3>1 DEF LeavesResume
      <4> QED BY <1>2, <4>1, <4>2 DEF Settled, Active, NotPaused, LocationInv, LocationTypes
    <3>2. CASE cmd # "trigger"
      <4>1. paused' = paused
        BY <2>4, <3>2 DEF UpdateFails
      <4> QED BY <1>2, <2>7, <4>1 DEF Settled, Active
    <3> QED BY <3>1, <3>2
  <2> QED BY <2>5, <2>6, <2>8
<1> QED BY <1>4, <1>5 DEF LocationInv, PauseInv

LEMMA SetupLocation ==
    ASSUME LocationInv, SetupZkLocationNode PROVE LocationInv'
<1>0. /\ UNCHANGED <<jobs, nextJob, leftOver, resumedEmpty>> /\ loaded'
      /\ overlapped' = (overlapped \/ updates # <<>>) /\ overlapped \in BOOLEAN
  BY DEF SetupZkLocationNode, LocationInv, LocationTypes
<1>1. zkLocation' \in Nodes /\ paused' \in NotPaused..(nextJob - 1)
  <2>1. paused' \in {paused, 0, NotPaused}
    BY DEF SetupZkLocationNode
  <2>2. zkLocation \in Nodes
    BY DEF LocationInv, LocationTypes
  <2>3. zkLocation' \in Nodes
    <3>1. zkLocation' \in {zkLocation, [exists |-> TRUE, paused |-> TRUE, resume |-> FALSE],
                          [zkLocation EXCEPT !.paused = FALSE, !.resume = FALSE]}
      BY DEF SetupZkLocationNode
    <3>2. [zkLocation EXCEPT !.paused = FALSE, !.resume = FALSE] \in Nodes
      BY <2>2 DEF Nodes
    <3>3. [exists |-> TRUE, paused |-> TRUE, resume |-> FALSE] \in Nodes
      BY DEF Nodes
    <3> QED BY <2>2, <3>1, <3>2, <3>3, Zenon
  <2> QED BY <2>1, <2>3 DEF LocationInv, LocationTypes, NotPaused
<1>2. updates' \in Seq(InFlight)
  BY StartTypes DEF SetupZkLocationNode, LocationInv, LocationTypes, Cmds
<1>3. LocationTypes'
  BY <1>0, <1>1, <1>2 DEF LocationInv, LocationTypes, SetupZkLocationNode
<1>4. ASSUME ~overlapped', ~leftOver', ~resumedEmpty'
      PROVE  updates = <<>> /\ Settled /\ ResumesPaused
  BY <1>0, <1>4, Idle DEF LocationInv
<1>5. ASSUME ~overlapped', ~leftOver', ~resumedEmpty', updates' = updates
      PROVE  updates' = <<>> /\ Settled' /\ ResumesPaused'
  <2>1. Settled /\ ResumesPaused /\ zkLocation \in Nodes /\ updates = <<>>
    BY <1>4, <1>5 DEF LocationInv, LocationTypes
  <2>2. Start(updates, "schedule") # updates
    BY <2>1 DEF Start
  <2>3. \/ zkLocation' = [exists |-> TRUE, paused |-> TRUE, resume |-> FALSE] /\ paused' = 0
        \/ /\ zkLocation' = [zkLocation EXCEPT !.paused = FALSE, !.resume = FALSE]
           /\ paused' = NotPaused
        \/ /\ zkLocation' = zkLocation /\ ~zkLocation.resume
           /\ paused' = IF zkLocation.paused THEN 0 ELSE paused
    BY <1>5, <2>2 DEF SetupZkLocationNode
  <2> SUFFICES Settled' /\ ResumesPaused'
    BY <1>5, <2>1
  <2>4. CASE zkLocation' = [exists |-> TRUE, paused |-> TRUE, resume |-> FALSE] /\ paused' = 0
    BY <2>4 DEF Settled, ResumesPaused, Active, NotPaused
  <2>5. CASE /\ zkLocation' = [zkLocation EXCEPT !.paused = FALSE, !.resume = FALSE]
             /\ paused' = NotPaused
    BY <2>1, <2>5 DEF Settled, ResumesPaused, Active, Nodes
  <2>6. CASE /\ zkLocation' = zkLocation /\ ~zkLocation.resume
             /\ paused' = IF zkLocation.paused THEN 0 ELSE paused
    BY <2>1, <2>6 DEF Settled, ResumesPaused, Active, Nodes, NotPaused
  <2> QED BY <2>3, <2>4, <2>5, <2>6
<1>6. ASSUME ~overlapped', ~leftOver', ~resumedEmpty', updates' # updates
      PROVE  updates' = <<[cmd |-> "schedule", got |-> NoData]>> /\ Promise("schedule")'
  BY <1>4, <1>6 DEF SetupZkLocationNode, Start, Update, ResumesPaused, Promise
<1> QED BY <1>3, <1>5, <1>6 DEF LocationInv, PauseInv, Cmds

LEMMA RemoveLocation ==
    ASSUME LocationInv, RemoveZkState PROVE LocationInv'
<1>0. /\ UNCHANGED <<jobs, nextJob, updates, leftOver, resumedEmpty>>
      /\ ~loaded' /\ paused' = NotPaused /\ zkLocation' = NoSuchNode
      /\ overlapped' = (overlapped \/ updates # <<>>) /\ overlapped \in BOOLEAN /\ loaded' \in BOOLEAN
  BY DEF RemoveZkState, LocationInv, LocationTypes
<1>1. LocationTypes'
  BY <1>0 DEF LocationInv, LocationTypes, Nodes, NoSuchNode, NotPaused
<1>2. ~overlapped' /\ ~leftOver' /\ ~resumedEmpty' => updates' = <<>>
  BY <1>0
<1>3. Settled' /\ ResumesPaused'
  BY DEF RemoveZkState, NoSuchNode, Settled, ResumesPaused
<1> QED BY <1>1, <1>2, <1>3 DEF LocationInv, PauseInv

(* An update that a restart cuts off has not changed the node yet, or is the
   removal of the scheduled resume that follows a pause or a resume.           *)
LEMMA RestartLocation ==
    ASSUME LocationInv, Restart PROVE LocationInv'
<1>0. /\ paused' = NotPaused /\ jobs' = {} /\ nextJob' = 1 /\ updates' = <<>> /\ ~loaded'
      /\ UNCHANGED <<zkLocation, overlapped, resumedEmpty>>
      /\ loaded' \in BOOLEAN /\ leftOver' \in BOOLEAN
      /\ ~leftOver' => /\ ~leftOver
                       /\ \A k \in DOMAIN updates : updates[k].cmd = "unschedule" => zkLocation.paused
  BY DEF Restart, LocationInv, LocationTypes, LeavesResume
<1>1. LocationTypes'
  BY <1>0, JobsAssumption DEF LocationInv, LocationTypes, NotPaused
<1>2. ASSUME ~overlapped', ~leftOver', ~resumedEmpty'
      PROVE  updates' = <<>> /\ Settled' /\ ResumesPaused'
  <2>1. ~overlapped /\ ~leftOver /\ ~resumedEmpty
    BY <1>0, <1>2 DEF LocationInv, LocationTypes
  <2>2. ResumesPaused
    <3>1. CASE updates = <<>>
      BY <2>1, <3>1, Idle DEF LocationInv
    <3>2. CASE updates # <<>>
      <4>1. PICK cmd \in Cmds, got \in {NoData, <<zkLocation>>} :
                updates = <<[cmd |-> cmd, got |-> got]>> /\ Promise(cmd)
        BY <2>1, <3>2 DEF LocationInv, PauseInv
      <4>2. 1 \in DOMAIN updates /\ updates[1].cmd = cmd
        BY <4>1
      <4>3. cmd = "unschedule" => zkLocation.paused
        BY <1>0, <1>2, <4>2
      <4> QED BY <4>1, <4>3 DEF Promise, ResumesPaused, Cmds
    <3> QED BY <3>1, <3>2
  <2> QED BY <1>0, <2>2 DEF Settled, ResumesPaused, Active
<1> QED BY <1>1, <1>2 DEF LocationInv, PauseInv

(* The other steps leave the location alone *)
LEMMA LocationNext ==
    ASSUME LocationInv, [Next]_vars PROVE LocationInv'
<1>1. CASE UNCHANGED location
  BY <1>1 DEF location, LocationInv, LocationTypes, PauseInv, Settled, ResumesPaused, Promise, Active
<1>2. CASE AddNewLogSource \/ QueueBatch \/ RemoveBucket \/ CreateBucket
  BY <1>1, <1>2 DEF AddNewLogSource, QueueBatch, RemoveBucket, CreateBucket
<1>3. CASE \E i \in Instances : SetupReader(i) \/ SetupReaderFails(i) \/ RemoveReaderState(i)
  BY <1>1, <1>3 DEF SetupReader, SetupReaderFails, RemoveReaderState
<1>4. CASE \E k \in DOMAIN updates : UpdateReads(k) \/ UpdateWrites(k) \/ UpdateFails(k)
  BY <1>4, ReadLocation, WriteLocation, FailLocation
<1>5. CASE Crash \/ Throws
  BY <1>5, RestartLocation DEF Crash, Throws
<1>6. CASE UNCHANGED vars
  BY <1>1, <1>6 DEF vars
<1> QED BY <1>1, <1>2, <1>3, <1>4, <1>5, <1>6, CommandLocation, SetupLocation, RemoveLocation
        DEF Next, Step

(* The populator and Zookeeper agree on whether the location is paused
   (IngestionPopulator._pauseService, _resumeService, _updateZkStateNode,
   setupZkLocationNode): for any number of readers, jobs, commands, failed updates
   and restarts, as long as no two updates overlapped, no scheduled resume was left
   over and no location without a reader was resumed.                          *)
THEOREM PauseIsShared == Spec => []PauseStateAgrees
<1>1. LocationInv => PauseStateAgrees
  BY DEF LocationInv, PauseInv, PauseStateAgrees, Settled
<1>2. Init => LocationInv
  BY LocationInit
<1>3. LocationInv /\ [Next]_vars => LocationInv'
  BY LocationNext
<1> QED BY <1>1, <1>2, <1>3, PTL DEF Spec

-----------------------------------------------------------------------------
(* The types of the reader, the topic and the buckets.  What a batch carries is  *)
(* typed too: the offset it will save is that of a record of the log, or of the  *)
(* next one.                                                                     *)

Records == [v : Versions \cup {Other}, c : Contents]
RawEntries == {e \in [v : Versions, c : Contents, master : BOOLEAN] : e.c = None => ~e.master}
PublishedEntries == {e \in [v : Versions, c : Contents, master : BOOLEAN] : e.master => IsNull(e.v)}
States == [exists : BOOLEAN, done : BOOLEAN, vm : Int, km : Int]
Phases == {"idle", "init", "cseq", "list", "metadata", "log", "publish", "state", "offset"}

Readers(n) ==
    [ready : {"no", "pending", "yes", "failed"}, phase : Phases, offset : 0..(n + 1),
     st : States, snap : BOOLEAN, cseq : Unset..n, page : Seq(Versions),
     out : Seq(PublishedEntries), next : Unset..(n + 1), more : BOOLEAN]

(* A reader has an offset exactly when it is set up. *)
ReaderOK(r, n) == r \in Readers(n) /\ (r.ready = "yes" <=> r.offset # 0)

TopicOK == \A v \in Versions : queue[v] \in Seq({e \in PublishedEntries : e.v = v})

BucketsOK ==
    /\ src \in [Versions -> Contents] /\ target \in [Versions -> Contents]
    /\ log \in Seq(Records)

ZkOK == zkInit \in States /\ zkOffset \in NoNode..(Len(log) + 1)

ReadersOK ==
    /\ DOMAIN reader = Instances
    /\ \A i \in Instances : ReaderOK(reader[i], Len(log))

ListsOK ==
    /\ ingestionSource \in 0..MaxReaders /\ logReaders \in Seq(Instances)
    /\ removing \subseteq Instances

Types == BucketsOK /\ DOMAIN queue = Versions /\ TopicOK /\ ZkOK /\ ReadersOK /\ ListsOK

LEMMA NoneTypes == None \in Contents /\ Other \notin Versions
<1>1. Other \notin (Nat \ {0}) \X Nat
  BY DEF Other
<1> QED BY <1>1, IngestionAssumption DEF None, Contents

LEMMA NewReaderOK ==
    ASSUME NEW n \in Nat PROVE ReaderOK(NewReader, n)
BY DEF NewReader, ReaderOK, Readers, Phases, States, NoState, Unset

(* A reader at rest keeps its set-up and offset only *)
LEMMA RestOK ==
    ASSUME NEW n \in Nat, NEW r, ReaderOK(r, n) PROVE ReaderOK(Rest(r), n)
<1>1. NewReader \in Readers(n)
  BY NewReaderOK DEF ReaderOK
<1>2. Rest(r) = [NewReader EXCEPT !.ready = r.ready, !.offset = r.offset]
  BY DEF Rest
<1>3. Rest(r) \in Readers(n) /\ Rest(r).ready = r.ready /\ Rest(r).offset = r.offset
  BY <1>1, <1>2 DEF ReaderOK, Readers
<1> QED BY <1>3 DEF ReaderOK

LEMMA LongerLog ==
    ASSUME NEW n \in Nat, NEW r, ReaderOK(r, n) PROVE ReaderOK(r, n + 1)
BY DEF ReaderOK, Readers, Unset

-----------------------------------------------------------------------------
(* Listings: a finite set of versions has a sorted sequence *)

LEMMA BeforeIsTotal ==
    /\ \A a, b \in Versions : a # b => Before(a, b) \/ Before(b, a)
    /\ \A a, b, c \in Versions : Before(a, b) /\ Before(b, c) => Before(a, c)
<1>1. \A a \in Versions : a = <<a[1], a[2]>> /\ a[1] \in Nat /\ a[2] \in Nat
  BY IngestionAssumption
<1> QED BY <1>1 DEF Before

LEMMA LastVersion ==
    ASSUME NEW S \in SUBSET Versions, S # {}
    PROVE  \E g \in S : \A a \in S \ {g} : Before(a, g)
<1> DEFINE Good == {n \in Nat : \A T \in SUBSET S : IsFiniteSet(T) /\ T # {} /\ Cardinality(T) = n
                                  => \E g \in T : \A a \in T \ {g} : Before(a, g)}
<1>1. 0 \in Good
  BY FS_EmptySet
<1>2. ASSUME NEW n \in Nat, n \in Good PROVE n + 1 \in Good
  <2> SUFFICES ASSUME NEW T \in SUBSET S, IsFiniteSet(T), T # {}, Cardinality(T) = n + 1
               PROVE  \E g \in T : \A a \in T \ {g} : Before(a, g)
    OBVIOUS
  <2>1. PICK x \in T : TRUE
    OBVIOUS
  <2>2. IsFiniteSet(T \ {x}) /\ Cardinality(T \ {x}) = n
    BY <2>1, FS_RemoveElement
  <2>3. CASE T \ {x} = {}
    BY <2>1, <2>3
  <2>4. CASE T \ {x} # {}
    <3>1. PICK g \in T \ {x} : \A a \in (T \ {x}) \ {g} : Before(a, g)
      BY <1>2, <2>2, <2>4
    <3>2. CASE Before(x, g)
      BY <3>1, <3>2
    <3>3. CASE Before(g, x)
      <4>1. \A a \in T \ {x} : Before(a, x)
        BY <2>1, <3>1, <3>3, BeforeIsTotal
      <4> QED BY <2>1, <4>1
    <3> QED BY <2>1, <3>1, <3>2, <3>3, BeforeIsTotal
  <2> QED BY <2>3, <2>4
<1>3. IsFiniteSet(S) /\ Cardinality(S) \in Nat
  BY FS_Subset, FS_CardinalityType, IngestionAssumption
<1>4. Cardinality(S) \in Good
  <2> HIDE DEF Good
  <2> QED BY <1>1, <1>2, <1>3, NatSetInduction
<1> QED BY <1>3, <1>4

LEMMA InOrderSorts ==
    ASSUME NEW S \in SUBSET Versions
    PROVE  InOrder(S) \in [1..Cardinality(S) -> S] /\ Sorted(InOrder(S))
<1> DEFINE Good == {n \in Nat : \A T \in SUBSET S : IsFiniteSet(T) /\ Cardinality(T) = n
                                  => \E s \in [1..n -> T] : Sorted(s)}
<1>1. 0 \in Good
  <2>1. \A T : [j \in 1..0 |-> 0] \in [1..0 -> T] /\ Sorted([j \in 1..0 |-> 0])
    BY DEF Sorted
  <2> QED BY <2>1
<1>2. ASSUME NEW n \in Nat, n \in Good PROVE n + 1 \in Good
  <2> SUFFICES ASSUME NEW T \in SUBSET S, IsFiniteSet(T), Cardinality(T) = n + 1
               PROVE  \E s \in [1..(n + 1) -> T] : Sorted(s)
    OBVIOUS
  <2>1. T # {}
    BY FS_EmptySet
  <2>2. PICK g \in T : \A a \in T \ {g} : Before(a, g)
    BY <2>1, LastVersion
  <2>3. IsFiniteSet(T \ {g}) /\ Cardinality(T \ {g}) = n
    BY <2>2, FS_RemoveElement
  <2>4. PICK s \in [1..n -> T \ {g}] : Sorted(s)
    BY <1>2, <2>3
  <2> DEFINE u == [j \in 1..(n + 1) |-> IF j = n + 1 THEN g ELSE s[j]]
  <2>5. u \in [1..(n + 1) -> T]
    BY <2>2, <2>4
  <2>6. ASSUME NEW j \in 1..(n + 1), NEW k \in 1..(n + 1), j < k PROVE Before(u[j], u[k])
    <3>1. j \in 1..n /\ u[j] = s[j] /\ s[j] \in T \ {g}
      BY <2>4, <2>6
    <3>2. CASE k = n + 1
      BY <2>2, <3>1, <3>2
    <3>3. CASE k # n + 1
      <4>1. k \in 1..n /\ u[k] = s[k]
        BY <3>3
      <4> QED BY <2>4, <2>6, <3>1, <4>1 DEF Sorted
    <3> QED BY <3>2, <3>3
  <2>7. Sorted(u)
    BY <2>6 DEF Sorted
  <2> QED BY <2>5, <2>7
<1>3. IsFiniteSet(S) /\ Cardinality(S) \in Nat
  BY FS_Subset, FS_CardinalityType, IngestionAssumption
<1>4. Cardinality(S) \in Good
  <2> HIDE DEF Good
  <2> QED BY <1>1, <1>2, <1>3, NatSetInduction
<1>5. \E s \in [1..Cardinality(S) -> S] : Sorted(s)
  BY <1>3, <1>4
<1> QED BY <1>5 DEF InOrder

LEMMA ListedAfterType ==
    ASSUME NEW st PROVE ListedAfter(st) \in Seq(Versions)
<1> DEFINE here == {v \in Versions : src[v] # None}
           after == IF st.vm # Unset /\ st.km # Unset
                    THEN {v \in here : Before(<<st.km, st.vm>>, v)} ELSE here
<1>1. after \in SUBSET Versions
  OBVIOUS
<1>2. ListedAfter(st) = InOrder(after)
  BY DEF ListedAfter
<1> HIDE DEF after
<1>3. Cardinality(after) \in Nat
  BY <1>1, FS_Subset, FS_CardinalityType, IngestionAssumption
<1> QED BY <1>1, <1>2, <1>3, InOrderSorts

-----------------------------------------------------------------------------
(* The filter: no master key of a version passes *)

LEMMA EntriesType ==
    ASSUME NEW v \in Versions, NEW c \in Contents
    PROVE  Entries(v, c) \in Seq(RawEntries)
<1>1. Entry(v, c, FALSE) \in RawEntries
  BY DEF Entry, RawEntries
<1>2. c # None => Entry(v, c, TRUE) \in RawEntries
  BY DEF Entry, RawEntries
<1> HIDE DEF RawEntries
<1>3. \A e, f \in RawEntries : <<e>> \in Seq(RawEntries) /\ <<e, f>> \in Seq(RawEntries)
  OBVIOUS
<1>4. c # None => /\ <<Entry(v, c, TRUE)>> \in Seq(RawEntries)
                  /\ <<Entry(v, c, FALSE), Entry(v, c, TRUE)>> \in Seq(RawEntries)
  BY <1>1, <1>2, <1>3, Zenon
<1>5. Entries(v, c) \in {<<Entry(v, c, FALSE)>>, <<Entry(v, c, TRUE)>>,
                         <<Entry(v, c, FALSE), Entry(v, c, TRUE)>>}
      /\ (c = None => Entries(v, c) = <<Entry(v, c, FALSE)>>)
  BY DEF Entries
<1> QED BY <1>1, <1>3, <1>4, <1>5, Zenon

LEMMA FilterType ==
    ASSUME NEW es \in Seq(RawEntries)
    PROVE  Filter(es) \in Seq(PublishedEntries)
<1> DEFINE K == {e \in ToSet(es) : FilterEntry(e)}
<1>1. Filter(es) \in Seq(RawEntries \cap K)
  BY SelectedType DEF Filter
<1>2. RawEntries \cap K \subseteq PublishedEntries
  BY DEF RawEntries, PublishedEntries, FilterEntry, FilterValueOp, IsMasterKeyEntry,
         IsRetroPropagationEntry
<1> HIDE DEF K
<1> QED BY <1>1, <1>2

LEMMA FlatType ==
    ASSUME NEW n \in Nat, NEW es \in [1..n -> Seq(RawEntries)]
    PROVE  Filter(FlattenSeq(es)) \in Seq(PublishedEntries)
<1>1. es \in Seq(Seq(RawEntries))
  OBVIOUS
<1> QED BY <1>1, FlattenSeqType, FilterType

(* What is published goes to the partitions of its versions *)
LEMMA PublishedType ==
    ASSUME Types, NEW es \in Seq(PublishedEntries), queue' = Published(es)
    PROVE  DOMAIN queue' = Versions /\ TopicOK'
<1>1. ASSUME NEW v \in Versions PROVE queue'[v] \in Seq({e \in PublishedEntries : e.v = v})
  <2> DEFINE K == {e \in ToSet(es) : e.v = v}
             P == {e \in PublishedEntries : e.v = v}
  <2>1. Selected(es, K) \in Seq(PublishedEntries \cap K)
    BY SelectedType
  <2>2. PublishedEntries \cap K \subseteq P
    OBVIOUS
  <2>3. queue'[v] = queue[v] \o Selected(es, K)
    BY DEF Published
  <2>4. queue[v] \in Seq(P)
    BY DEF Types, TopicOK
  <2> HIDE DEF K, P
  <2>5. Selected(es, K) \in Seq(P)
    BY <2>1, <2>2
  <2>6. queue'[v] \in Seq(P)
    BY <2>3, <2>4, <2>5, ConcatProperties
  <2> QED BY <2>6 DEF P
<1>2. DOMAIN queue' = Versions
  BY DEF Published
<1> QED BY <1>1, <1>2 DEF TopicOK

-----------------------------------------------------------------------------
(* Steps of one reader *)

(* It changes its own record *)
LEMMA OneReader ==
    ASSUME Types, NEW i \in Instances, NEW r, reader' = [reader EXCEPT ![i] = r],
           ReaderOK(r, Len(log)), log' = log
    PROVE  ReadersOK'
<1>1. DOMAIN reader' = Instances
  BY DEF Types, ReadersOK
<1>2. ASSUME NEW j \in Instances PROVE ReaderOK(reader'[j], Len(log'))
  BY DEF Types, ReadersOK
<1> QED BY <1>1, <1>2 DEF ReadersOK

LEMMA BatchRests ==
    ASSUME Types, NEW i \in Instances, reader' = [reader EXCEPT ![i] = Rest(@)], log' = log
    PROVE  ReadersOK'
<1>1. ReaderOK(Rest(reader[i]), Len(log))
  <2>1. Len(log) \in Nat /\ ReaderOK(reader[i], Len(log))
    BY DEF Types, ReadersOK, BucketsOK
  <2> QED BY <2>1, RestOK
<1>2. reader' = [reader EXCEPT ![i] = Rest(reader[i])]
  OBVIOUS
<1> QED BY <1>1, <1>2, OneReader

(* The reader of a step *)
LEMMA TheReader ==
    ASSUME Types, NEW i \in Instances
    PROVE  Len(log) \in Nat /\ reader[i] \in Readers(Len(log)) /\ ReaderOK(reader[i], Len(log))
BY DEF Types, BucketsOK, ReadersOK, ReaderOK

(* What most steps of a batch leave alone *)
LEMMA SameBuckets ==
    ASSUME Types, UNCHANGED <<src, log, target, queue, zkInit, zkOffset>>
    PROVE  (BucketsOK /\ DOMAIN queue = Versions /\ TopicOK /\ ZkOK)'
BY DEF Types, BucketsOK, TopicOK, ZkOK

LEMMA ReadInitStateTypes ==
    ASSUME Types, UNCHANGED lists, NEW i \in Instances, ReadInitState(i) PROVE Types'
<1>1. UNCHANGED <<src, log, target, queue, zkOffset>> /\ ListsOK'
  BY DEF ReadInitState, source, mongo, lists, Types, ListsOK
<1>2. zkInit' \in States
  <2>1. EmptyState \in States
    <3>1. NoState \in States
      BY DEF NoState, States, Unset
    <3> QED BY <3>1 DEF EmptyState, States
  <2>2. zkInit' = zkInit \/ zkInit' = EmptyState
    BY DEF ReadInitState
  <2> QED BY <2>1, <2>2 DEF Types, ZkOK
<1> DEFINE ph == IF zkInit'.done THEN "log"
                 ELSE IF zkInit'.vm = Unset /\ zkInit'.km = Unset THEN "cseq" ELSE "list"
           r == [reader[i] EXCEPT !.st = zkInit', !.phase = ph]
<1>3. reader' = [reader EXCEPT ![i] = r]
  BY DEF ReadInitState
<1>4. ReaderOK(r, Len(log))
  <2>1. ph \in Phases
    BY DEF Phases
  <2>2. reader[i] \in Readers(Len(log)) /\ ReaderOK(reader[i], Len(log))
    BY TheReader
  <2> HIDE DEF ph
  <2>3. r \in Readers(Len(log))
    BY <1>2, <2>1, <2>2 DEF Readers
  <2>4. r.ready = reader[i].ready /\ r.offset = reader[i].offset
    BY <2>2 DEF Readers
  <2> QED BY <2>2, <2>3, <2>4 DEF ReaderOK
<1> HIDE DEF r
<1>5. ReadersOK'
  BY <1>1, <1>3, <1>4, OneReader
<1> QED BY <1>1, <1>2, <1>5 DEF Types, BucketsOK, TopicOK, ZkOK

LEMMA GetBucketCseqTypes ==
    ASSUME Types, UNCHANGED lists, NEW i \in Instances, GetBucketCseq(i) PROVE Types'
<1>1. UNCHANGED <<src, log, target, queue, zkInit, zkOffset>> /\ ListsOK'
  BY DEF GetBucketCseq, source, mongo, zk, lists, Types, ListsOK
<1> DEFINE r == [reader[i] EXCEPT !.cseq = Len(log), !.phase = "list"]
<1>2. reader' = [reader EXCEPT ![i] = r]
  BY DEF GetBucketCseq
<1>3. Len(log) \in Nat
  BY DEF Types, BucketsOK
<1>4. ReaderOK(r, Len(log))
  <2>1. Len(log) \in Unset..Len(log)
    BY <1>3 DEF Unset
  <2> QED BY <2>1, TheReader DEF ReaderOK, Readers, Phases
<1> HIDE DEF r
<1>5. ReadersOK'
  BY <1>1, <1>2, <1>4, OneReader
<1> QED BY <1>1, <1>5, SameBuckets DEF Types

LEMMA GetObjectVersionsListTypes ==
    ASSUME Types, UNCHANGED lists, NEW i \in Instances, GetObjectVersionsList(i) PROVE Types'
<1>1. UNCHANGED <<src, log, target, queue, zkInit, zkOffset>> /\ ListsOK'
  BY DEF GetObjectVersionsList, source, mongo, zk, lists, Types, ListsOK
<1> DEFINE all == ListedAfter(reader[i].st)
           truncated == Len(all) > PageSize
           page == IF truncated THEN SubSeq(all, 1, PageSize) ELSE all
           marker == IF truncated THEN page[PageSize] ELSE <<Unset, Unset>>
           st == [exists |-> TRUE, done |-> ~truncated, km |-> marker[1], vm |-> marker[2]]
           r == [reader[i] EXCEPT !.page = page, !.snap = TRUE, !.phase = "metadata", !.st = st]
<1>2. reader' = [reader EXCEPT ![i] = r]
  BY DEF GetObjectVersionsList
<1>3. all \in Seq(Versions)
  BY ListedAfterType
<1> HIDE DEF all
<1>4. page \in Seq(Versions) /\ (truncated => page[PageSize] \in Versions)
  <2>1. PageSize \in Nat \ {0}
    BY IngestionAssumption
  <2>2. CASE truncated
    <3>1. \A k \in 1..PageSize : all[k] \in Versions
      BY <1>3, <2>1, <2>2
    <3>2. page = SubSeq(all, 1, PageSize)
      BY <2>2
    <3>3. page \in Seq(Versions) /\ Len(page) = PageSize
      BY <1>3, <2>1, <2>2, <3>1, <3>2, SubSeqProperties
    <3> QED BY <2>1, <3>3
  <2>3. CASE ~truncated
    BY <1>3, <2>3
  <2> QED BY <2>2, <2>3
<1> HIDE DEF page
<1>5. marker[1] \in Int /\ marker[2] \in Int
  <2>1. truncated => marker[1] \in Int /\ marker[2] \in Int
    BY <1>4, IngestionAssumption
  <2> QED BY <2>1 DEF Unset
<1> HIDE DEF marker, truncated
<1>6. st \in States
  BY <1>5 DEF States, truncated
<1> HIDE DEF st
<1>7. ReaderOK(r, Len(log))
  BY <1>4, <1>6 DEF Types, ReadersOK, ReaderOK, Readers, Phases
<1> HIDE DEF r
<1>8. ReadersOK'
  BY <1>1, <1>2, <1>7, OneReader
<1> QED BY <1>1, <1>8, SameBuckets DEF Types

LEMMA GetBucketObjectsMetadataTypes ==
    ASSUME Types, UNCHANGED lists, NEW i \in Instances, GetBucketObjectsMetadata(i) PROVE Types'
<1>1. UNCHANGED <<src, log, target, queue, zkInit, zkOffset>> /\ ListsOK'
  BY DEF GetBucketObjectsMetadata, source, mongo, zk, lists, Types, ListsOK
<1> DEFINE page == reader[i].page
           es == [k \in DOMAIN page |-> Entries(page[k], src[page[k]])]
           out == Filter(FlattenSeq(es))
           r == [reader[i] EXCEPT !.phase = "publish", !.next = reader[i].cseq, !.page = <<>>,
                                  !.out = out]
<1>2. reader' = [reader EXCEPT ![i] = Rest(@)] \/ reader' = [reader EXCEPT ![i] = r]
  BY DEF GetBucketObjectsMetadata
<1>3. page \in Seq(Versions) /\ src \in [Versions -> Contents]
  BY DEF Types, ReadersOK, ReaderOK, Readers, BucketsOK
<1>4. out \in Seq(PublishedEntries)
  <2>1. Len(page) \in Nat /\ DOMAIN page = 1..Len(page)
    BY <1>3
  <2>2. \A k \in 1..Len(page) : page[k] \in Versions /\ src[page[k]] \in Contents
    BY <1>3
  <2> HIDE DEF page
  <2>3. \A k \in 1..Len(page) : Entries(page[k], src[page[k]]) \in Seq(RawEntries)
    BY <2>2, EntriesType
  <2>4. es \in [1..Len(page) -> Seq(RawEntries)]
    BY <2>1, <2>3
  <2> HIDE DEF es
  <2> QED BY <2>1, <2>4, FlatType
<1> HIDE DEF out
<1>5. ReaderOK(r, Len(log))
  <2>1. reader[i].cseq \in Unset..(Len(log) + 1)
    BY TheReader DEF Readers, Unset
  <2>2. <<>> \in Seq(Versions)
    OBVIOUS
  <2> QED BY <1>4, <2>1, <2>2, TheReader DEF ReaderOK, Readers, Phases
<1> HIDE DEF r
<1>6. ReadersOK'
  BY <1>1, <1>2, <1>5, OneReader, BatchRests
<1> QED BY <1>1, <1>6, SameBuckets DEF Types

(* The records read: SubSeq between the offset and the end of the log *)
LEMMA RaftRecordsType ==
    ASSUME Types, NEW start \in 1..(Len(log) + 1)
    PROVE  /\ RaftRecords(start) \in Seq(Records)
           /\ Len(RaftRecords(start)) \in Nat
           /\ start + Len(RaftRecords(start)) <= Len(log) + 1
<1> DEFINE end == IF start + MaxRead - 1 < Len(log) THEN start + MaxRead - 1 ELSE Len(log)
<1>1. log \in Seq(Records) /\ Len(log) \in Nat /\ MaxRead \in Nat \ {0} /\ start \in Nat
  BY IngestionAssumption DEF Types, BucketsOK
<1>2. end \in Nat /\ end <= Len(log) /\ start <= end + 1
  BY <1>1
<1>3. RaftRecords(start) = SubSeq(log, start, end)
  BY DEF RaftRecords
<1> HIDE DEF end
<1>4. \A k \in start..end : log[k] \in Records
  BY <1>1, <1>2
<1>5. SubSeq(log, start, end) \in Seq(Records)
      /\ Len(SubSeq(log, start, end)) = IF start <= end THEN end - start + 1 ELSE 0
  BY <1>1, <1>2, <1>4, SubSeqProperties
<1> QED BY <1>1, <1>2, <1>3, <1>5

LEMMA LogEntriesType ==
    ASSUME NEW read \in Seq(Records) PROVE LogEntries(read) \in Seq(PublishedEntries)
<1> DEFINE mine == Selected(read, {rec \in ToSet(read) : rec.v # Other})
           es == [k \in DOMAIN mine |-> Entries(mine[k].v, mine[k].c)]
           M == [v : Versions, c : Contents]
<1>1. LogEntries(read) = Filter(FlattenSeq(es))
  BY Zenon DEF LogEntries
<1>2. mine \in Seq(M)
  <2>1. mine \in Seq(Records \cap {rec \in ToSet(read) : rec.v # Other})
    BY SelectedType
  <2>2. Records \cap {rec \in ToSet(read) : rec.v # Other} \subseteq M
    BY DEF Records
  <2> HIDE DEF mine, M
  <2> QED BY <2>1, <2>2
<1> HIDE DEF mine, M
<1>3. Len(mine) \in Nat /\ DOMAIN mine = 1..Len(mine)
  BY <1>2
<1>4. \A k \in 1..Len(mine) : mine[k].v \in Versions /\ mine[k].c \in Contents
  <2>1. \A k \in 1..Len(mine) : mine[k] \in M
    BY <1>2
  <2> QED BY <2>1 DEF M
<1>5. \A k \in 1..Len(mine) : Entries(mine[k].v, mine[k].c) \in Seq(RawEntries)
  BY <1>4, EntriesType
<1>6. es \in [1..Len(mine) -> Seq(RawEntries)]
  BY <1>3, <1>5
<1> HIDE DEF es
<1> QED BY <1>1, <1>3, <1>6, FlatType

LEMMA ProcessReadRecordsTypes ==
    ASSUME Types, UNCHANGED lists, NEW i \in Instances, ProcessReadRecords(i) PROVE Types'
<1>1. UNCHANGED <<src, log, target, queue, zkInit, zkOffset>> /\ ListsOK'
  BY DEF ProcessReadRecords, source, mongo, zk, lists, Types, ListsOK
<1> DEFINE start == reader[i].offset
           read == RaftRecords(start)
           out == LogEntries(read)
           next == IF start > Len(log) THEN 0 ELSE NextLogOffset(start, Len(read))
           more == start <= Len(log) /\ start + Len(read) <= Len(log)
           r == [reader[i] EXCEPT !.phase = "publish", !.out = out, !.next = next, !.more = more]
<1>2. reader' = [reader EXCEPT ![i] = r]
  BY DEF ProcessReadRecords
<1>3. start \in 1..(Len(log) + 1) /\ Len(log) \in Nat
  <2>1. start # 0
    BY TheReader DEF ProcessReadRecords, ReaderOK
  <2>2. start \in 0..(Len(log) + 1) /\ Len(log) \in Nat
    BY TheReader DEF Readers
  <2> HIDE DEF start
  <2> QED BY <2>1, <2>2
<1>4. read \in Seq(Records) /\ Len(read) \in Nat /\ start + Len(read) <= Len(log) + 1
  BY <1>3, RaftRecordsType
<1> HIDE DEF read
<1>5. out \in Seq(PublishedEntries)
  BY <1>4, LogEntriesType
<1> HIDE DEF out
<1>6. next \in Unset..(Len(log) + 1) /\ more \in BOOLEAN
  BY <1>3, <1>4 DEF NextLogOffset, Unset
<1> HIDE DEF next, more
<1>7. ReaderOK(r, Len(log))
  BY <1>5, <1>6, TheReader DEF ReaderOK, Readers, Phases
<1> HIDE DEF r
<1>8. ReadersOK'
  BY <1>1, <1>2, <1>7, OneReader
<1> QED BY <1>1, <1>8, SameBuckets DEF Types

LEMMA PublishEntriesTypes ==
    ASSUME Types, UNCHANGED lists, NEW i \in Instances, PublishEntries(i) PROVE Types'
<1>1. UNCHANGED <<src, log, target, zkInit, zkOffset>> /\ ListsOK'
  BY DEF PublishEntries, source, mongo, zk, lists, Types, ListsOK
<1> DEFINE r == [reader[i] EXCEPT !.phase = "state", !.out = <<>>, !.cseq = Unset]
<1>2. reader' = [reader EXCEPT ![i] = r]
  BY DEF PublishEntries
<1>3. ReaderOK(r, Len(log))
  <2>1. Unset \in Unset..Len(log) /\ <<>> \in Seq(PublishedEntries)
    BY TheReader DEF Unset
  <2> QED BY <2>1, TheReader DEF ReaderOK, Readers, Phases
<1> HIDE DEF r
<1>4. ReadersOK'
  BY <1>1, <1>2, <1>3, OneReader
<1>5. DOMAIN queue' = Versions /\ TopicOK'
  BY TheReader, PublishedType DEF PublishEntries, Readers
<1> QED BY <1>1, <1>4, <1>5 DEF Types, BucketsOK, ZkOK

LEMMA PublishFailsTypes ==
    ASSUME Types, UNCHANGED lists, NEW i \in Instances, PublishFails(i) PROVE Types'
<1>1. UNCHANGED <<src, log, target, zkInit, zkOffset>> /\ ListsOK'
  BY DEF PublishFails, source, mongo, zk, lists, Types, ListsOK
<1>2. ReadersOK'
  BY <1>1, BatchRests DEF PublishFails
<1>3. PICK n \in 0..Len(reader[i].out) : queue' = Published(SubSeq(reader[i].out, 1, n))
  BY DEF PublishFails
<1>4. SubSeq(reader[i].out, 1, n) \in Seq(PublishedEntries)
  <2>1. reader[i].out \in Seq(PublishedEntries)
    BY TheReader DEF Readers
  <2>2. \A k \in 1..n : reader[i].out[k] \in PublishedEntries
    BY <1>3, <2>1
  <2> QED BY <1>3, <2>1, <2>2, SubSeqProperties
<1>5. DOMAIN queue' = Versions /\ TopicOK'
  BY <1>3, <1>4, PublishedType
<1> QED BY <1>1, <1>2, <1>5 DEF Types, BucketsOK, ZkOK

LEMMA SavedType ==
    ASSUME NEW st \in States PROVE Saved(st) \in States
<1>1. NullKey \in Int
  BY IngestionAssumption
<1> QED BY <1>1 DEF Saved, States

LEMMA WriteInitStateTypes ==
    ASSUME Types, UNCHANGED lists, NEW i \in Instances, WriteInitState(i) PROVE Types'
<1>1. UNCHANGED <<src, log, target, queue, zkOffset>> /\ ListsOK'
  BY DEF WriteInitState, source, mongo, lists, Types, ListsOK
<1>2. zkInit' \in States
  <2>1. Saved(reader[i].st) \in States
    BY TheReader, SavedType DEF Readers
  <2> QED BY <2>1 DEF WriteInitState, Types, ZkOK
<1> DEFINE r == [reader[i] EXCEPT !.phase = "offset"]
<1>3. reader' = [reader EXCEPT ![i] = Rest(@)] \/ reader' = [reader EXCEPT ![i] = r]
  BY DEF WriteInitState
<1>4. ReaderOK(r, Len(log))
  BY TheReader DEF ReaderOK, Readers, Phases
<1> HIDE DEF r
<1>5. ReadersOK'
  BY <1>1, <1>3, <1>4, OneReader, BatchRests
<1> QED BY <1>1, <1>2, <1>5 DEF Types, BucketsOK, TopicOK, ZkOK

LEMMA WriteInitStateFailsTypes ==
    ASSUME Types, UNCHANGED lists, NEW i \in Instances, WriteInitStateFails(i) PROVE Types'
<1>1. UNCHANGED <<src, log, target, queue, zkOffset>> /\ ListsOK'
  BY DEF WriteInitStateFails, source, mongo, lists, Types, ListsOK
<1>2. zkInit' \in States
  <2>1. Saved(reader[i].st) \in States /\ zkInit \in States
    BY TheReader, SavedType DEF Readers, Types, ZkOK
  <2>2. PICK ok \in SUBSET {"done", "km", "vm"} :
          zkInit' = [f \in DOMAIN zkInit |-> IF f \in ok THEN Saved(reader[i].st)[f] ELSE zkInit[f]]
    BY DEF WriteInitStateFails
  <2> DEFINE s == Saved(reader[i].st)
  <2>3. zkInit' = [exists |-> zkInit.exists,
                   done |-> IF "done" \in ok THEN s.done ELSE zkInit.done,
                   vm |-> IF "vm" \in ok THEN s.vm ELSE zkInit.vm,
                   km |-> IF "km" \in ok THEN s.km ELSE zkInit.km]
    BY <2>1, <2>2 DEF States
  <2> HIDE DEF s
  <2>4. s \in States
    BY <2>1 DEF s
  <2> QED BY <2>1, <2>3, <2>4 DEF States
<1>3. ReadersOK'
  BY <1>1, BatchRests DEF WriteInitStateFails
<1> QED BY <1>1, <1>2, <1>3 DEF Types, BucketsOK, TopicOK, ZkOK

LEMMA SaveLogOffsetTypes ==
    ASSUME Types, UNCHANGED lists, NEW i \in Instances, NEW again, SaveLogOffset(i, again)
    PROVE  Types'
<1>1. UNCHANGED <<src, log, target, queue, zkInit>> /\ ListsOK'
  BY DEF SaveLogOffset, source, mongo, lists, Types, ListsOK
<1> DEFINE was == reader[i]
           off == IF Saves(was) THEN NewOffset(was) ELSE was.offset
           over == [was EXCEPT !.offset = off]
           r == [Rest(over) EXCEPT !.phase = "init"]
<1>2. ReaderOK(was, Len(log)) /\ was \in Readers(Len(log)) /\ Len(log) \in Nat
  BY TheReader
<1>3. Saves(was) => was.ready = "yes" /\ NewOffset(was) \in 1..(Len(log) + 1)
  <2>1. Saves(was) => was.ready = "yes"
    BY DEF SaveLogOffset
  <2>2. was.next \in Unset..(Len(log) + 1) /\ was.offset \in 0..(Len(log) + 1)
    BY <1>2 DEF Readers
  <2>3. Saves(was) => was.offset # 0
    BY <1>2, <2>1 DEF ReaderOK
  <2> QED BY <1>2, <2>1, <2>2, <2>3 DEF NewOffset, Unset
<1>4. ReaderOK(over, Len(log))
  <2>1. off \in 0..(Len(log) + 1) /\ (was.ready = "yes" <=> off # 0)
    BY <1>2, <1>3 DEF ReaderOK, Readers
  <2> HIDE DEF off
  <2>2. over \in Readers(Len(log)) /\ over.ready = was.ready /\ over.offset = off
    BY <1>2, <2>1 DEF Readers
  <2> QED BY <2>1, <2>2 DEF ReaderOK
<1>5. zkOffset' = zkOffset \/ (zkOffset' = over.offset /\ over.offset \in 0..(Len(log) + 1))
  BY <1>4 DEF SaveLogOffset, ReaderOK, Readers
<1>6. reader' = [reader EXCEPT ![i] = r] \/ reader' = [reader EXCEPT ![i] = Rest(over)]
  BY DEF SaveLogOffset
<1> HIDE DEF over
<1>7. ReaderOK(Rest(over), Len(log))
  BY <1>2, <1>4, RestOK
<1>8. ReaderOK(r, Len(log))
  BY <1>7 DEF ReaderOK, Readers, Phases
<1> HIDE DEF r
<1>9. ReadersOK'
  BY <1>1, <1>6, <1>7, <1>8, OneReader
<1>10. zkOffset' \in NoNode..(Len(log) + 1)
  BY <1>2, <1>5 DEF Types, ZkOK, NoNode
<1> QED BY <1>1, <1>9, <1>10 DEF Types, BucketsOK, TopicOK, ZkOK

LEMMA SaveLogOffsetFailsTypes ==
    ASSUME Types, UNCHANGED lists, NEW i \in Instances, SaveLogOffsetFails(i) PROVE Types'
<1>1. UNCHANGED <<src, log, target, queue, zkInit, zkOffset>> /\ ListsOK'
  BY DEF SaveLogOffsetFails, source, mongo, zk, lists, Types, ListsOK
<1> DEFINE was == reader[i]
           over == [was EXCEPT !.offset = NewOffset(was)]
<1>2. ReaderOK(was, Len(log)) /\ was \in Readers(Len(log)) /\ Len(log) \in Nat
  BY TheReader
<1>3. NewOffset(was) \in 1..(Len(log) + 1) /\ was.ready = "yes"
  <2>1. was.ready = "yes"
    BY DEF SaveLogOffsetFails
  <2>2. was.next \in Unset..(Len(log) + 1) /\ was.offset \in 0..(Len(log) + 1)
    BY <1>2 DEF Readers
  <2>3. was.offset # 0
    BY <1>2, <2>1 DEF ReaderOK
  <2> QED BY <1>2, <2>1, <2>2, <2>3 DEF NewOffset, Unset
<1>4. ReaderOK(over, Len(log))
  <2>1. PICK off \in 1..(Len(log) + 1) : off = NewOffset(was)
    BY <1>3
  <2>2. off \in 0..(Len(log) + 1) /\ off # 0
    BY <1>2
  <2>3. over = [was EXCEPT !.offset = off]
    BY <2>1
  <2> HIDE DEF over
  <2>4. over \in Readers(Len(log)) /\ over.ready = was.ready /\ over.offset = off
    BY <1>2, <2>2, <2>3 DEF Readers
  <2> QED BY <1>3, <2>2, <2>4 DEF ReaderOK
<1>5. reader' = [reader EXCEPT ![i] = Rest(over)]
  BY DEF SaveLogOffsetFails
<1> HIDE DEF over
<1>6. ReaderOK(Rest(over), Len(log))
  BY <1>2, <1>4, RestOK
<1>7. ReadersOK'
  BY <1>1, <1>5, <1>6, OneReader
<1> QED BY <1>1, <1>7, SameBuckets DEF Types

LEMMA BatchFailsTypes ==
    ASSUME Types, UNCHANGED lists, NEW i \in Instances, BatchFails(i) PROVE Types'
<1>1. UNCHANGED <<src, log, target, queue, zkInit, zkOffset>> /\ ListsOK'
  BY DEF BatchFails, source, mongo, zk, lists, Types, ListsOK
<1>2. ReadersOK'
  BY <1>1, BatchRests DEF BatchFails
<1> QED BY <1>1, <1>2, SameBuckets DEF Types

-----------------------------------------------------------------------------
(* The source, Mongo and the populator *)

(* A write of the source is a record more, and its contents are typed. *)
LEMMA LoggedTypes ==
    ASSUME Types, UNCHANGED <<queue, zkInit, zkOffset, reader, lists>>,
           NEW v \in Versions \cup {Other}, NEW c \in Contents,
           log' = Append(log, [v |-> v, c |-> c]),
           src' \in [Versions -> Contents], target' \in [Versions -> Contents]
    PROVE  Types'
<1>1. [v |-> v, c |-> c] \in Records
  BY DEF Records
<1> HIDE DEF Records
<1>2. log \in Seq(Records) /\ Len(log) \in Nat
  BY DEF Types, BucketsOK
<1>3. log' \in Seq(Records) /\ Len(log') = Len(log) + 1
  BY <1>1, <1>2
<1>4. ReadersOK'
  <2>1. ASSUME NEW i \in Instances PROVE ReaderOK(reader'[i], Len(log'))
    BY <1>2, <1>3, LongerLog DEF Types, ReadersOK
  <2> QED BY <2>1 DEF Types, ReadersOK
<1>5. zkOffset \in NoNode..(Len(log) + 1)
  BY DEF Types, ZkOK
<1>6. ZkOK'
  BY <1>2, <1>3, <1>5 DEF Types, ZkOK, NoNode
<1> QED BY <1>3, <1>4, <1>6 DEF Types, BucketsOK, TopicOK, ListsOK, lists

LEMMA SourceTypes ==
    ASSUME Types, UNCHANGED lists, SourceStep PROVE Types'
<1>0. Revision \in Nat /\ src \in [Versions -> Contents] /\ target \in [Versions -> Contents]
  BY DEF Types, BucketsOK, Revision
<1> HIDE DEF Revision
<1>1. ASSUME NEW v \in Versions, SourcePut(v) PROVE Types'
  <2> DEFINE c == [rev |-> Revision, tags |-> 0, retro |-> FALSE]
  <2>1. c \in Contents
    BY <1>0 DEF Contents
  <2>2. UNCHANGED <<queue, target, zkInit, zkOffset, reader>> /\ Logged(v, c)
    BY <1>1 DEF SourcePut, mongo, zk
  <2> HIDE DEF c
  <2> QED BY <1>0, <2>1, <2>2, LoggedTypes DEF Logged
<1>2. ASSUME NEW v \in Versions, SourcePutTagging(v) PROVE Types'
  <2> DEFINE c == [src[v] EXCEPT !.rev = Revision, !.tags = src[v].tags + 1]
  <2>0. src[v] \in Contents /\ src[v].tags + 1 \in Nat
    BY <1>0 DEF Contents
  <2>1. c \in Contents
    BY <1>0, <2>0 DEF Contents
  <2>2. UNCHANGED <<queue, target, zkInit, zkOffset, reader>> /\ Logged(v, c)
    BY <1>2 DEF SourcePutTagging, mongo, zk
  <2> HIDE DEF c
  <2> QED BY <1>0, <2>1, <2>2, LoggedTypes DEF Logged
<1>3. ASSUME NEW v \in Versions, SourceDelete(v) PROVE Types'
  <2>1. UNCHANGED <<queue, target, zkInit, zkOffset, reader>> /\ Logged(v, None)
    BY <1>3 DEF SourceDelete, mongo, zk
  <2> QED BY <1>0, <2>1, LoggedTypes, NoneTypes DEF Logged
<1>4. ASSUME NEW v \in Versions, ZenkoPut(v) PROVE Types'
  <2> DEFINE c == [rev |-> Revision, tags |-> 0, retro |-> TRUE]
  <2>1. c \in Contents
    BY <1>0 DEF Contents
  <2>2. UNCHANGED <<queue, zkInit, zkOffset, reader>> /\ Logged(v, c)
        /\ target' = [target EXCEPT ![v] = c]
    BY <1>4 DEF ZenkoPut, zk
  <2> HIDE DEF c
  <2> QED BY <1>0, <2>1, <2>2, LoggedTypes DEF Logged
<1>5. CASE OtherBucketPut
  BY <1>0, <1>5, LoggedTypes, NoneTypes DEF OtherBucketPut, mongo, zk
<1> QED BY <1>1, <1>2, <1>3, <1>4, <1>5 DEF SourceStep

LEMMA MongoTypes ==
    ASSUME Types, UNCHANGED lists, NEW v \in Versions, MongoStep(v) PROVE Types'
<1>1. UNCHANGED <<src, log, zkInit, zkOffset, reader>>
  BY DEF MongoStep, ProcessKafkaEntry, ProcessedAgain, ProcessKafkaEntryFails, source, zk
<1>2. queue' = queue \/ (queue[v] # <<>> /\ queue' = [queue EXCEPT ![v] = Tail(@)])
  BY DEF MongoStep, ProcessKafkaEntry, ProcessedAgain, ProcessKafkaEntryFails, Consumed,
         ProcessDeleteOpQueueEntry, ProcessObjectQueueEntry
<1>3. DOMAIN queue' = Versions /\ TopicOK'
  <2>1. ASSUME NEW w \in Versions, queue[v] # <<>>, queue' = [queue EXCEPT ![v] = Tail(@)]
        PROVE  queue'[w] \in Seq({e \in PublishedEntries : e.v = w})
    <3> DEFINE P == {e \in PublishedEntries : e.v = w}
    <3>1. queue[w] \in Seq(P) /\ DOMAIN queue = Versions
      BY DEF Types, TopicOK
    <3> HIDE DEF P
    <3>2. queue[w] # <<>> => Tail(queue[w]) \in Seq(P)
      BY <3>1
    <3>3. queue'[w] \in Seq(P)
      BY <2>1, <3>1, <3>2
    <3> QED BY <3>3 DEF P
  <2>2. DOMAIN queue' = Versions
    BY <1>2 DEF Types
  <2> QED BY <1>2, <2>1, <2>2 DEF Types, TopicOK
<1>4. target' \in [Versions -> Contents]
  <2>1. \/ target' = target
        \/ target' = [target EXCEPT ![v] = None]
        \/ queue[v] # <<>> /\ target' = [target EXCEPT ![v] = Head(queue[v]).c]
    BY DEF MongoStep, ProcessKafkaEntry, ProcessedAgain, ProcessKafkaEntryFails,
           ProcessDeleteOpQueueEntry, ProcessObjectQueueEntry
  <2>2. queue[v] # <<>> => Head(queue[v]).c \in Contents
    <3> DEFINE P == {e \in PublishedEntries : e.v = v}
    <3>1. queue[v] \in Seq(P)
      BY DEF Types, TopicOK
    <3> HIDE DEF P
    <3>2. queue[v] # <<>> => Head(queue[v]) \in P
      BY <3>1
    <3> QED BY <3>2 DEF P, PublishedEntries
  <2> QED BY <2>1, <2>2, NoneTypes DEF Types, BucketsOK
<1> QED BY <1>1, <1>3, <1>4 DEF Types, BucketsOK, ZkOK, ReadersOK, ListsOK, lists

LEMMA RemovePausedType ==
    ASSUME NEW S, NEW rs \in Seq(S) PROVE RemovePausedReaders(rs) \in Seq(S)
<1> DEFINE h == (Len(rs) + 1) \div 2
<1>1. Len(rs) \in Nat /\ h \in Nat /\ \A k \in 1..Len(rs) : rs[k] \in S
  OBVIOUS
<1>2. RemovePausedReaders(rs) = rs \/ RemovePausedReaders(rs) = SubSeq(rs, 1 + h, Len(rs))
  BY DEF RemovePausedReaders
<1> HIDE DEF h
<1>3. \A k \in (1 + h)..Len(rs) : rs[k] \in S
  BY <1>1
<1>4. SubSeq(rs, 1 + h, Len(rs)) \in Seq(S)
  BY <1>1, <1>3, SubSeqProperties
<1> QED BY <1>2, <1>4

LEMMA WithoutType ==
    ASSUME NEW S, NEW rs \in Seq(S), NEW i PROVE Without(rs, i) \in Seq(S)
<1>1. CASE \E k \in DOMAIN rs : rs[k] = i
  <2> DEFINE T == {k \in 1..Len(rs) : rs[k] = i}
  <2>1. T \subseteq Nat /\ T # {} /\ DOMAIN rs = 1..Len(rs) /\ Len(rs) \in Nat
    BY <1>1
  <2>2. PICK m \in T : \A k \in T : m <= k
    <3> HIDE DEF T
    <3> QED BY <2>1, LeastNatural
  <2>3. m \in DOMAIN rs /\ rs[m] = i /\ \A j \in 1..(m - 1) : rs[j] # i
    BY <2>1, <2>2
  <2>4. PICK k \in 1..Len(rs) : Without(rs, i) = RemoveAt(rs, k)
    BY <1>1, <2>1, <2>3 DEF Without
  <2> QED BY <2>4, RemoveAtProperties
<1>2. CASE ~ \E k \in DOMAIN rs : rs[k] = i
  BY <1>2 DEF Without
<1> QED BY <1>1, <1>2

(* The batches that start *)
LEMMA ProcessLogEntriesOK ==
    ASSUME NEW n \in Nat, NEW rs, NEW readers, \A i \in Instances : ReaderOK(rs[i], n)
    PROVE  \A i \in Instances : ReaderOK(ProcessLogEntries(readers, rs)[i], n)
<1> SUFFICES ASSUME NEW i \in Instances PROVE ReaderOK(ProcessLogEntries(readers, rs)[i], n)
  OBVIOUS
<1> DEFINE r == [Rest(rs[i]) EXCEPT !.phase = "init"]
<1>1. ReaderOK(Rest(rs[i]), n)
  BY RestOK
<1>2. ReaderOK(r, n)
  BY <1>1 DEF ReaderOK, Readers, Phases
<1>3. ProcessLogEntries(readers, rs)[i] \in {r, rs[i]}
  BY DEF ProcessLogEntries
<1> HIDE DEF r
<1> QED BY <1>2, <1>3

LEMMA TickTypes ==
    ASSUME Types, log' = log, NEW readers, NEW rs,
           \A j \in Instances : ReaderOK(rs[j], Len(log)),
           reader' = ProcessLogEntries(readers, rs)
    PROVE  ReadersOK'
<1>1. Len(log) \in Nat
  BY DEF Types, BucketsOK
<1>2. \A j \in Instances : ReaderOK(reader'[j], Len(log))
  BY <1>1, ProcessLogEntriesOK
<1> QED BY <1>2 DEF ReadersOK, ProcessLogEntries

LEMMA AddNewLogSourceTypes ==
    ASSUME Types, AddNewLogSource PROVE Types'
<1>1. PICK i \in Instances :
        /\ ingestionSource' = i
        /\ reader' = [reader EXCEPT ![i] = [NewReader EXCEPT !.ready = "pending"]]
  BY DEF AddNewLogSource
<1>2. UNCHANGED <<src, log, target, queue, zkInit, zkOffset, logReaders, removing>>
  BY DEF AddNewLogSource, source, mongo, zk
<1>3. ReaderOK([NewReader EXCEPT !.ready = "pending"], Len(log))
  <2>1. ReaderOK(NewReader, Len(log)) /\ NewReader.offset = 0
    BY TheReader, <1>1, NewReaderOK DEF NewReader
  <2> QED BY <2>1 DEF ReaderOK, Readers
<1>4. ReadersOK'
  BY <1>1, <1>2, <1>3, OneReader
<1>5. ingestionSource' \in 0..MaxReaders
  BY <1>1 DEF Instances
<1> QED BY <1>2, <1>4, <1>5, SameBuckets DEF Types, ListsOK

LEMMA QueueBatchTypes ==
    ASSUME Types, QueueBatch PROVE Types'
<1>1. UNCHANGED <<src, log, target, queue, zkInit, zkOffset>>
  BY DEF QueueBatch, source, mongo, zk
<1>2. ReadersOK'
  BY <1>1, TickTypes DEF QueueBatch, Types, ReadersOK
<1>3. ListsOK'
  <2>1. logReaders \in Seq(Instances) /\ ingestionSource \in 0..MaxReaders /\ removing \subseteq Instances
    BY DEF Types, ListsOK
  <2>2. Without(logReaders, ingestionSource) \in Seq(Instances)
    BY <2>1, WithoutType
  <2>3. RemovePausedReaders(Without(logReaders, ingestionSource)) \in Seq(Instances)
        /\ RemovePausedReaders(logReaders) \in Seq(Instances)
    BY <2>1, <2>2, RemovePausedType
  <2>4. ingestionSource \in ToSet(logReaders) => ingestionSource \in Instances
    BY <2>1 DEF ToSet
  <2> QED BY <2>1, <2>3, <2>4, IngestionAssumption DEF QueueBatch, CloseLogState, ListsOK
<1> QED BY <1>1, <1>2, <1>3, SameBuckets DEF Types

LEMMA SetupReaderTypes ==
    ASSUME Types, NEW i \in Instances, SetupReader(i) \/ SetupReaderFails(i) PROVE Types'
<1>1. UNCHANGED <<src, log, target, queue, zkInit, ingestionSource, removing>>
  BY DEF SetupReader, SetupReaderFails, source, mongo, zk
<1>2. logReaders' \in Seq(Instances)
  <2>1. logReaders \in Seq(Instances) /\ Append(logReaders, i) \in Seq(Instances)
    BY DEF Types, ListsOK
  <2> QED BY <2>1, RemovePausedType DEF SetupReader, SetupReaderFails
<1>3. zkOffset' \in NoNode..(Len(log) + 1)
  BY TheReader DEF SetupReader, SetupReaderFails, zk, Types, ZkOK, NoNode
<1> DEFINE first_ == IF zkOffset > 0 THEN zkOffset ELSE 1
           set == [reader[i] EXCEPT !.ready = "yes", !.offset = first_]
           fail == [reader[i] EXCEPT !.ready = "failed"]
<1>4. ReaderOK(set, Len(log))
  <2>1. first_ \in 0..(Len(log) + 1) /\ first_ # 0
    BY TheReader DEF Types, ZkOK, NoNode
  <2> HIDE DEF first_
  <2> QED BY <2>1, TheReader DEF ReaderOK, Readers
<1>5. reader[i].ready = "pending" => ReaderOK(fail, Len(log))
  BY TheReader DEF ReaderOK, Readers
<1>6. reader[i].ready = "pending"
      /\ \/ reader' = ProcessLogEntries(logReaders', [reader EXCEPT ![i] = set])
         \/ reader' = ProcessLogEntries(logReaders', [reader EXCEPT ![i] = fail])
  BY DEF SetupReader, SetupReaderFails
<1> HIDE DEF set, fail
<1>7. ASSUME NEW r, ReaderOK(r, Len(log)),
             reader' = ProcessLogEntries(logReaders', [reader EXCEPT ![i] = r])
      PROVE  ReadersOK'
  <2> DEFINE rs == [reader EXCEPT ![i] = r]
  <2>1. \A j \in Instances : ReaderOK(rs[j], Len(log))
    BY <1>7 DEF Types, ReadersOK
  <2> HIDE DEF rs
  <2>2. reader' = ProcessLogEntries(logReaders', rs)
    BY <1>7 DEF rs
  <2> QED BY <1>1, <2>1, <2>2, TickTypes
<1>8. ReadersOK'
  BY <1>4, <1>5, <1>6, <1>7
<1> QED BY <1>1, <1>2, <1>3, <1>8 DEF Types, BucketsOK, TopicOK, ZkOK, ListsOK

LEMMA RemoveReaderStateTypes ==
    ASSUME Types, NEW i \in Instances, RemoveReaderState(i) PROVE Types'
<1>1. UNCHANGED <<src, log, target, queue, reader, ingestionSource, logReaders>>
      /\ zkInit' = NoState /\ zkOffset' = NoNode /\ removing' \subseteq removing
  BY DEF RemoveReaderState, source, mongo
<1>2. NoState \in States /\ NoNode \in NoNode..(Len(log) + 1)
  BY TheReader DEF NoState, States, NoNode, Unset
<1> QED BY <1>1, <1>2 DEF Types, BucketsOK, TopicOK, ZkOK, ReadersOK, ListsOK

(* A location that is resumed has its reader active again *)
LEMMA UpdateTypes ==
    ASSUME Types, NEW k \in DOMAIN updates, UpdateReads(k) \/ UpdateWrites(k) \/ UpdateFails(k)
    PROVE  Types'
<1>1. UNCHANGED <<src, log, target, queue, zkInit, zkOffset, reader, ingestionSource, removing>>
  BY DEF UpdateReads, UpdateWrites, UpdateFails, readerVars, source, mongo, zk, lists
<1>2. \/ logReaders' = logReaders \/ logReaders' = <<>>
      \/ ingestionSource # 0 /\ logReaders' = Append(logReaders, ingestionSource)
  BY DEF UpdateReads, UpdateWrites, UpdateFails, lists, Paused, Resumed, Unscheduled, Scheduled,
         Triggered
<1>3. logReaders' \in Seq(Instances)
  <2>1. ingestionSource # 0 => ingestionSource \in Instances
    BY IngestionAssumption DEF Types, ListsOK, Instances
  <2>2. logReaders \in Seq(Instances)
    BY DEF Types, ListsOK
  <2>3. <<>> \in Seq(Instances)
    OBVIOUS
  <2>4. ingestionSource # 0 => Append(logReaders, ingestionSource) \in Seq(Instances)
    BY <2>1, <2>2
  <2> QED BY <1>2, <2>2, <2>3, <2>4
<1> QED BY <1>1, <1>3 DEF Types, BucketsOK, TopicOK, ZkOK, ReadersOK, ListsOK

LEMMA RestartTypes ==
    ASSUME Types, Restart PROVE Types'
<1>1. UNCHANGED <<src, log, target, queue, zkInit, zkOffset>>
  BY DEF Restart, source, mongo, zk
<1>2. ReadersOK'
  <2>1. Len(log) \in Nat
    BY DEF Types, BucketsOK
  <2> QED BY <1>1, <2>1, NewReaderOK DEF Restart, ReadersOK
<1>3. ListsOK'
  BY IngestionAssumption DEF Restart, ListsOK
<1> QED BY <1>1, <1>2, <1>3, SameBuckets DEF Types

LEMMA BatchTypes ==
    ASSUME Types, UNCHANGED lists, NEW i \in Instances, BatchStep(i) \/ BatchFault(i) PROVE Types'
BY ReadInitStateTypes, GetBucketCseqTypes, GetObjectVersionsListTypes, GetBucketObjectsMetadataTypes,
   ProcessReadRecordsTypes, PublishEntriesTypes, PublishFailsTypes, WriteInitStateTypes,
   WriteInitStateFailsTypes, SaveLogOffsetTypes, SaveLogOffsetFailsTypes, BatchFailsTypes
   DEF BatchStep, BatchFault

LEMMA TypesNext ==
    ASSUME Types, [Next]_vars PROVE Types'
<1>1. CASE UNCHANGED <<readerVars, lists>>
  BY <1>1 DEF readerVars, lists, Types, BucketsOK, TopicOK, ZkOK, ReadersOK, ListsOK
<1>2. CASE UNCHANGED vars
  BY <1>1, <1>2 DEF vars
<1>3. CASE SourceStep /\ UNCHANGED <<config, lists, location, dirty>>
  BY <1>3, SourceTypes
<1>4. CASE (\E i \in Instances : BatchStep(i) \/ BatchFault(i)) /\ UNCHANGED <<config, lists, location, dirty>>
  BY <1>4, BatchTypes
<1>5. CASE (\E v \in Versions : MongoStep(v)) /\ UNCHANGED <<config, lists, location, dirty>>
  BY <1>5, MongoTypes
<1>6. CASE \E i \in Instances : SetupReader(i) \/ SetupReaderFails(i) \/ RemoveReaderState(i)
  BY <1>6, SetupReaderTypes, RemoveReaderStateTypes
<1>7. CASE \E k \in DOMAIN updates : UpdateReads(k) \/ UpdateWrites(k) \/ UpdateFails(k)
  BY <1>7, UpdateTypes
<1>8. CASE Command \/ SetupZkLocationNode \/ RemoveZkState \/ CreateBucket
  <2>1. UNCHANGED <<src, log, target, queue, zkInit, zkOffset, reader, lists>>
    BY <1>8 DEF Command, SetupZkLocationNode, RemoveZkState, CreateBucket, readerVars, source, mongo, zk
  <2> QED BY <2>1 DEF lists, Types, BucketsOK, TopicOK, ZkOK, ReadersOK, ListsOK
<1>9. CASE RemoveBucket
  <2>1. UNCHANGED <<src, log, queue, zkInit, zkOffset, reader, lists>>
        /\ target' = [v \in Versions |-> None]
    BY <1>9 DEF RemoveBucket, source, zk
  <2> QED BY <2>1, NoneTypes DEF lists, Types, BucketsOK, TopicOK, ZkOK, ReadersOK, ListsOK
<1>10. CASE Crash \/ Throws
  BY <1>10, RestartTypes DEF Crash, Throws
<1> QED BY <1>2, <1>3, <1>4, <1>5, <1>6, <1>7, <1>8, <1>9, <1>10,
           AddNewLogSourceTypes, QueueBatchTypes DEF Next, Step

LEMMA TypesInit ==
    ASSUME Init PROVE Types
<1>1. PICK s \in Scenarios : InitReader(s)
  BY DEF Init
<1>2. PICK order : /\ order = SetToSeq(s.initial)
                   /\ log = [k \in 1..(Len(order) + 1) |->
                        IF k = 1 THEN [v |-> Other, c |-> None]
                        ELSE [v |-> order[k - 1], c |-> [rev |-> k, tags |-> 0, retro |-> FALSE]]]
  BY <1>1 DEF InitReader
<1>3. /\ src = [v \in Versions |-> IF \E k \in DOMAIN log : log[k].v = v
                                   THEN log[CHOOSE k \in DOMAIN log : log[k].v = v].c ELSE None]
      /\ target = [v \in Versions |-> None] /\ queue = [v \in Versions |-> <<>>]
      /\ zkInit = NoState /\ zkOffset = NoNode /\ reader = [i \in Instances |-> NewReader]
  BY <1>1 DEF InitReader
<1>4. order \in Seq(Versions) /\ Len(order) \in Nat
  <2>1. s.initial \in SUBSET Versions /\ IsFiniteSet(s.initial)
    BY FS_Subset, IngestionAssumption
  <2>2. PICK f \in [1..Cardinality(s.initial) -> s.initial] : IsInjective(f)
    <3>1. PICK f : f \in Bijection(1..Cardinality(s.initial), s.initial)
      BY <2>1, FS_CardinalityType DEF ExistsBijection
    <3> QED BY <3>1 DEF Bijection, Injection, IsInjective
  <2>3. order \in [1..Cardinality(s.initial) -> s.initial]
    BY <1>2, <2>2 DEF SetToSeq
  <2>4. Cardinality(s.initial) \in Nat
    BY <2>1, FS_CardinalityType
  <2> QED BY <2>1, <2>3, <2>4
<1>5. log \in Seq(Records) /\ Len(log) \in Nat
  <2>1. ASSUME NEW k \in 1..(Len(order) + 1) PROVE log[k] \in Records
    <3>1. CASE k = 1
      BY <1>2, <3>1, NoneTypes DEF Records
    <3>2. CASE k # 1
      <4>1. k - 1 \in 1..Len(order) /\ k \in Nat
        BY <1>4, <3>2
      <4>2. order[k - 1] \in Versions /\ [rev |-> k, tags |-> 0, retro |-> FALSE] \in Contents
        BY <1>4, <4>1 DEF Contents
      <4> QED BY <1>2, <3>2, <4>2 DEF Records
    <3> QED BY <3>1, <3>2
  <2>2. DOMAIN log = 1..(Len(order) + 1) /\ log = [k \in 1..(Len(order) + 1) |-> log[k]]
    BY <1>2
  <2> HIDE DEF Records
  <2>3. log \in [1..(Len(order) + 1) -> Records]
    BY <2>1, <2>2
  <2> QED BY <1>4, <2>3
<1>6. src \in [Versions -> Contents] /\ target \in [Versions -> Contents]
  <2>1. \A k \in DOMAIN log : log[k].c \in Contents
    <3>1. \A k \in DOMAIN log : log[k] \in Records
      BY <1>5
    <3>2. \A rec \in Records : rec.c \in Contents
      BY DEF Records
    <3> QED BY <3>1, <3>2
  <2>2. ASSUME NEW v \in Versions PROVE src[v] \in Contents
    BY <1>3, <2>1, NoneTypes
  <2> QED BY <1>3, <2>2, NoneTypes
<1>7. TopicOK
  BY <1>3 DEF TopicOK
<1>8. ZkOK
  BY <1>3, <1>5 DEF ZkOK, NoState, States, NoNode, Unset
<1>9. ReadersOK
  BY <1>3, <1>5, NewReaderOK DEF ReadersOK
<1>10. ListsOK
  BY IngestionAssumption DEF Init, ListsOK
<1> QED BY <1>3, <1>5, <1>6, <1>7, <1>8, <1>9, <1>10 DEF Types, BucketsOK

(* The state of the reader, the topic, the two buckets and the location is well  *)
(* formed at any number of writes, faults, commands and readers; in particular   *)
(* the offset a reader saves is within the log (IngestionReader, LogReader), and  *)
(* the filter publishes no master key of a version (IngestionQueuePopulator)      *)
THEOREM TypeCorrect == Spec => []TypeOK
<1>1. Types /\ LocationInv => TypeOK
  <2> SUFFICES ASSUME Types, LocationInv PROVE TypeOK
    OBVIOUS
  <2>1. \A k \in DOMAIN log : log[k].v \in Versions \cup {Other} /\ log[k].c \in Contents
    <3>1. \A k \in DOMAIN log : log[k] \in Records
      BY DEF Types, BucketsOK
    <3>2. \A rec \in Records : rec.v \in Versions \cup {Other} /\ rec.c \in Contents
      BY DEF Records
    <3> QED BY <3>1, <3>2
  <2>2. ASSUME NEW v \in Versions, NEW k \in DOMAIN queue[v]
        PROVE  queue[v][k].v = v /\ queue[v][k].c \in Contents /\ (queue[v][k].master => IsNull(v))
    <3> DEFINE P == {e \in PublishedEntries : e.v = v}
    <3>1. queue[v] \in Seq(P)
      BY DEF Types, TopicOK
    <3> HIDE DEF P
    <3>2. queue[v][k] \in P
      BY <3>1
    <3> QED BY <3>2 DEF P, PublishedEntries
  <2>3. zkInit \in [exists : BOOLEAN, done : BOOLEAN, vm : Int, km : Int]
        /\ zkOffset \in NoNode..(Len(log) + 1)
    BY DEF Types, ZkOK, States
  <2>4. ASSUME NEW i \in Instances
        PROVE  /\ reader[i].ready \in {"no", "pending", "yes", "failed"}
               /\ reader[i].phase \in {"idle", "init", "cseq", "list", "metadata", "log", "publish", "state", "offset"}
               /\ reader[i].offset \in 0..(Len(log) + 1)
               /\ reader[i].ready = "yes" <=> reader[i].offset # 0
    BY TheReader DEF ReaderOK, Readers, Phases
  <2>5. ReaderTypeOK
    BY <2>1, <2>2, <2>3, <2>4 DEF ReaderTypeOK, Types, BucketsOK
  <2>6. ToSet(logReaders) \subseteq Instances
    BY DEF Types, ListsOK, ToSet
  <2>7. paused \in NotPaused..MaxJobs
    BY JobsAssumption DEF LocationInv, LocationTypes, NotPaused
  <2> QED BY <2>5, <2>6, <2>7 DEF TypeOK, Types, ListsOK, LocationInv, LocationTypes, Nodes
<1>2. Init => Types
  BY TypesInit
<1>3. Types /\ [Next]_vars => Types'
  BY TypesNext
<1> QED BY <1>1, <1>2, <1>3, LocationInit, LocationNext, PTL DEF Spec

-----------------------------------------------------------------------------
(* What the Zenko bucket has.  A version that does not have its contents of the
   source yet is one whose deletion or change is still to be read in the log, or
   to be listed.  This is stated for the state as it is, and for what it will be
   when the batch in progress is over.  Until the bucket is removed and created
   again, only the first reader has batches.                                   *)

Worker == 1
W == reader[Worker]

(* The log has a record of v at o, or later *)
Due(v, o) == \E k \in DOMAIN log : log[k].v = v /\ o <= k

ToList(st, v) == ~st.done /\ (st.vm # Unset /\ st.km # Unset => Before(<<st.km, st.vm>>, v))

(* The contents of v in the Zenko bucket once the topic is consumed, when the
   entries of more are published; it is known unless the last entry of v was not
   applied                                                                     *)
Final(v, more) ==
    IF more # <<>> THEN more[Len(more)].c
    ELSE IF queue[v] # <<>> THEN queue[v][Len(queue[v])].c ELSE target[v]
Known(v, more) == more # <<>> \/ queue[v] # <<>> \/ v \notin dropped

(* offs are the offsets the log may be read from *)
Caught(v, more, st, offs) ==
    Known(v, more) =>
      /\ src[v] = None /\ Final(v, more) # None => skipped \/ \A o \in offs : Due(v, o)
      /\ src[v] # None /\ ~src[v].retro /\ Final(v, more) # src[v] =>
            ~config \/ ToList(st, v) \/ \A o \in offs : Due(v, o)

Marks == {zkOffset, W.offset}
Stands == \A v \in Versions : Caught(v, <<>>, zkInit, Marks)

(* The batch in progress: what it publishes of v, the state it saves, the offset
   it goes on from                                                             *)
Of(es, v) == Selected(es, {e \in ToSet(es) : e.v = v})
Extra(v) == IF W.phase = "publish" THEN Of(W.out, v) ELSE <<>>
Progress == IF W.snap /\ W.phase # "offset" THEN W.st ELSE zkInit
Offsets ==
    Marks \cup (IF W.phase \in {"list", "metadata"} THEN {W.cseq}
                ELSE IF W.phase \in {"publish", "state", "offset"} THEN {W.next} ELSE {})
Listed(v) == W.phase = "metadata" /\ v \in ToSet(W.page)
WillStand == \A v \in Versions : Listed(v) \/ Caught(v, Extra(v), Progress, Offsets)

(* Any entry of the batch may be the last one published *)
OutOK ==
    W.phase = "publish" => \A j \in DOMAIN W.out :
        W.out[j].c = src[W.out[j].v] \/ \A o \in Marks : Due(W.out[j].v, o)

SrcIsLog ==
    \A v \in Versions, k \in DOMAIN log :
        log[k].v = v /\ (\A j \in (k + 1)..Len(log) : log[j].v # v) => src[v] = log[k].c

BatchOK ==
    /\ W.phase \in {"idle", "init", "cseq", "list", "log"} => ~W.snap
    /\ W.phase \in {"init", "cseq"} => W.cseq = Unset
    /\ W.phase \in {"cseq", "list"} => W.st = zkInit /\ zkInit.exists /\ ~zkInit.done
    /\ W.phase = "cseq" => zkInit.vm = Unset /\ zkInit.km = Unset
    /\ W.phase = "metadata" => W.snap
    /\ W.phase = "log" => zkInit.done
    /\ W.snap => ~zkInit.done \/ W.phase = "offset"
    /\ W.snap /\ ~W.st.done => W.st.km # Unset /\ W.st.vm # Unset

OnlyWorker ==
    /\ \A i \in Instances \ {Worker} : reader[i] = NewReader
    /\ ingestionSource \in {0, Worker} /\ removing \subseteq {Worker} /\ logReaders \in Seq({Worker})
    /\ config => removing = {}
    /\ config /\ ingestionSource = 0 =>
          logReaders = <<>> /\ W.phase = "idle" /\ W.ready # "pending"

ZkOrdered ==
    /\ W.ready = "yes" => zkOffset <= W.offset
    /\ ~zkInit.exists => zkInit = NoState
    /\ ~zkInit.done => (zkInit.km = Unset <=> zkInit.vm = Unset)
    /\ ~config => target = [v \in Versions |-> None]

Sound == Stands /\ WillStand /\ OutOK /\ SrcIsLog /\ BatchOK /\ OnlyWorker /\ ZkOrdered
Kept == ~torn /\ ~dirty => Sound

-----------------------------------------------------------------------------
(* What keeps a version caught up *)

LEMMA CaughtStays ==
    ASSUME NEW v, NEW more, NEW st, NEW offs, Caught(v, more, st, offs),
           src'[v] = src[v], config' = config, skipped => skipped',
           \A o : Due(v, o) => Due(v, o)',
           Known(v, more)' => Known(v, more) /\ Final(v, more)' = Final(v, more)
    PROVE  Caught(v, more, st, offs)'
BY DEF Caught, ToList

(* A record that was just logged is due from any offset *)
LEMMA JustLogged ==
    ASSUME NEW v, NEW more, NEW st, NEW offs, \A o \in offs : Due(v, o)'
    PROVE  Caught(v, more, st, offs)'
BY DEF Caught

(* Fewer offsets, or lower ones *)
LEMMA FewerOffsets ==
    ASSUME NEW v, NEW more, NEW st, NEW offs, NEW fewer, Caught(v, more, st, offs),
           (\A o \in offs : Due(v, o)) => \A o \in fewer : Due(v, o)
    PROVE  Caught(v, more, st, fewer)
BY DEF Caught

LEMMA LowerDue ==
    ASSUME Types, NEW v, NEW o \in Int, NEW p \in Int, Due(v, o), p <= o \/ p <= 1
    PROVE  Due(v, p)
<1>1. Len(log) \in Nat /\ DOMAIN log = 1..Len(log)
  BY DEF Types, BucketsOK
<1> QED BY <1>1 DEF Due

-----------------------------------------------------------------------------
(* The worker *)

LEMMA WorkerTypes ==
    ASSUME Types
    PROVE  /\ Worker \in Instances /\ Len(log) \in Nat /\ W \in Readers(Len(log))
           /\ ReaderOK(W, Len(log))
<1>1. Worker \in Instances
  BY IngestionAssumption DEF Worker, Instances
<1> QED BY <1>1, TheReader DEF W

LEMMA OffsetTypes ==
    ASSUME Types
    PROVE  /\ Len(log) \in Nat
           /\ \A o \in Offsets : o \in Int /\ o <= Len(log) + 1
           /\ \A o \in Marks : o \in Int /\ o <= Len(log) + 1
<1>1. Len(log) \in Nat /\ W.offset \in 0..(Len(log) + 1) /\ W.cseq \in Unset..Len(log)
      /\ W.next \in Unset..(Len(log) + 1)
  BY WorkerTypes DEF Readers
<1>2. zkOffset \in NoNode..(Len(log) + 1)
  BY DEF Types, ZkOK
<1>3. \A o \in Offsets : o \in {zkOffset, W.offset, W.cseq, W.next}
  BY DEF Offsets, Marks
<1> QED BY <1>1, <1>2, <1>3 DEF Marks, Unset, NoNode

(* Only the worker has a batch, or is being set up *)
LEMMA TheWorker ==
    ASSUME OnlyWorker, NEW i \in Instances, reader[i].phase # "idle" \/ reader[i].ready = "pending"
    PROVE  i = Worker
BY DEF OnlyWorker, NewReader

(* A step of its batch replaces its record *)
LEMMA WorkerMoves ==
    ASSUME Types, OnlyWorker, UNCHANGED <<config, lists>>, NEW r,
           reader' = [reader EXCEPT ![Worker] = r],
           W.phase # "idle" \/ W.ready = "pending"
    PROVE  W' = r /\ OnlyWorker'
<1>1. DOMAIN reader = Instances /\ Worker \in Instances
  BY WorkerTypes DEF Types, ReadersOK
<1>2. W' = r
  BY <1>1 DEF W
<1>3. \A i \in Instances \ {Worker} : reader'[i] = NewReader
  BY <1>1 DEF OnlyWorker
<1> QED BY <1>2, <1>3 DEF OnlyWorker, lists

(* When no batch is in progress, or nothing is read yet, what stands will stand *)
LEMMA Quiet ==
    ASSUME Stands', W'.phase \in {"idle", "init", "cseq", "log"}, ~W'.snap
    PROVE  WillStand' /\ OutOK'
<1>1. Progress' = zkInit' /\ Offsets' = Marks' /\ \A v \in Versions : Extra(v)' = <<>>
  BY DEF Progress, Offsets, Extra
<1> QED BY <1>1 DEF Stands, WillStand, OutOK

LEMMA AtRest ==
    ASSUME Stands', SrcIsLog', OnlyWorker', ZkOrdered',
           W'.phase \in {"idle", "init"}, ~W'.snap, W'.cseq = Unset
    PROVE  Sound'
BY Quiet DEF Sound, BatchOK

LEMMA RestFields ==
    ASSUME NEW r
    PROVE  /\ Rest(r).phase = "idle" /\ ~Rest(r).snap /\ Rest(r).cseq = Unset
           /\ Rest(r).ready = r.ready /\ Rest(r).offset = r.offset
BY DEF Rest, NewReader

-----------------------------------------------------------------------------
(* The source and Mongo *)

LEMMA LoggedSound ==
    ASSUME Types, Sound, NEW v \in Versions \cup {Other}, NEW c,
           log' = Append(log, [v |-> v, c |-> c]),
           v \in Versions => src'[v] = c,
           \A w \in Versions \ {v} : src'[w] = src[w] /\ target'[w] = target[w],
           UNCHANGED <<queue, dropped, zkInit, zkOffset, reader, skipped, config, lists>>,
           ZkOrdered'
    PROVE  Sound'
<1>1. /\ Len(log) \in Nat /\ DOMAIN log = 1..Len(log)
      /\ Len(log') = Len(log) + 1 /\ DOMAIN log' = 1..(Len(log) + 1)
      /\ \A k \in 1..Len(log) : log'[k] = log[k]
      /\ log'[Len(log) + 1] = [v |-> v, c |-> c]
  <2>1. log \in Seq(Records)
    BY DEF Types, BucketsOK
  <2> QED BY <2>1 DEF Records
<1>2. \A w, o : Due(w, o) => Due(w, o)'
  BY <1>1 DEF Due
<1>3. \A o \in Int : o <= Len(log) + 1 => Due(v, o)'
  <2>1. log'[Len(log) + 1].v = v
    BY <1>1
  <2> QED BY <1>1, <2>1 DEF Due
<1>4. ASSUME NEW w \in Versions, NEW more, NEW st, NEW offs, Caught(w, more, st, offs),
             \A o \in offs : o \in Int /\ o <= Len(log) + 1
      PROVE  Caught(w, more, st, offs)'
  <2>1. CASE w = v
    BY <1>3, <1>4, <2>1, JustLogged
  <2>2. CASE w # v
    <3>1. src'[w] = src[w] /\ target'[w] = target[w]
      BY <2>2
    <3>2. Known(w, more)' => Known(w, more) /\ Final(w, more)' = Final(w, more)
      BY <3>1 DEF Known, Final
    <3> QED BY <1>2, <1>4, <3>1, <3>2, CaughtStays
  <2> QED BY <2>1, <2>2
<1>5. /\ W' = W /\ Marks' = Marks /\ Offsets' = Offsets /\ Progress' = Progress
      /\ \A w : Extra(w)' = Extra(w) /\ Listed(w)' = Listed(w)
  BY DEF W, Marks, Offsets, Progress, Extra, Listed
<1>6. Stands'
  <2> SUFFICES ASSUME NEW w \in Versions PROVE Caught(w, <<>>, zkInit, Marks)'
    BY DEF Stands
  <2>1. Caught(w, <<>>, zkInit, Marks)
    BY DEF Sound, Stands
  <2> QED BY <1>4, <1>5, <2>1, OffsetTypes
<1>7. WillStand'
  <2> SUFFICES ASSUME NEW w \in Versions, ~Listed(w)' PROVE Caught(w, Extra(w), Progress, Offsets)'
    BY DEF WillStand
  <2>1. Caught(w, Extra(w), Progress, Offsets)
    BY <1>5 DEF Sound, WillStand
  <2> QED BY <1>4, <1>5, <2>1, OffsetTypes
<1>8. OutOK'
  <2> SUFFICES ASSUME W.phase = "publish", NEW j \in DOMAIN W.out
               PROVE  W.out[j].c = src'[W.out[j].v] \/ \A o \in Marks : Due(W.out[j].v, o)'
    BY <1>5 DEF OutOK
  <2>1. PICK e : e = W.out[j] /\ e = W'.out[j]
    BY <1>5
  <2>2. e.v \in Versions
    <3>1. PICK out \in Seq(PublishedEntries) : out = W.out
      BY WorkerTypes DEF Readers
    <3>2. e = out[j] /\ j \in DOMAIN out
      BY <2>1, <3>1
    <3>3. e \in PublishedEntries
      BY <3>2
    <3> QED BY <3>3 DEF PublishedEntries
  <2>3. e.c = src[e.v] \/ \A o \in Marks : Due(e.v, o)
    BY <2>1 DEF Sound, OutOK
  <2>4. CASE e.v = v
    <3>1. \A o \in Marks : Due(v, o)'
      BY <1>3, OffsetTypes
    <3> QED BY <2>1, <2>4, <3>1
  <2>5. CASE e.v # v
    <3>1. src'[e.v] = src[e.v]
      BY <2>2, <2>5
    <3>2. e.c = src'[e.v] \/ \A o \in Marks : Due(e.v, o)'
      BY <1>2, <2>3, <3>1
    <3> QED BY <2>1, <3>2
  <2> QED BY <2>4, <2>5
<1>9. SrcIsLog'
  <2> SUFFICES ASSUME NEW w \in Versions, NEW k \in 1..(Len(log) + 1), log'[k].v = w,
                      \A j \in (k + 1)..(Len(log) + 1) : log'[j].v # w
               PROVE  src'[w] = log'[k].c
    BY <1>1 DEF SrcIsLog
  <2>1. CASE k = Len(log) + 1
    BY <1>1, <2>1
  <2>2. CASE k # Len(log) + 1
    <3>1. k \in 1..Len(log) /\ Len(log) + 1 \in (k + 1)..(Len(log) + 1)
      BY <1>1, <2>2
    <3>2. w # v /\ log[k].v = w
      BY <1>1, <3>1
    <3>3. \A j \in (k + 1)..Len(log) : j \in 1..Len(log) /\ j \in (k + 1)..(Len(log) + 1)
      BY <1>1, <3>1
    <3>4. \A j \in (k + 1)..Len(log) : log[j].v # w
      BY <1>1, <3>3
    <3>5. src[w] = log[k].c
      BY <1>1, <3>1, <3>2, <3>4 DEF Sound, SrcIsLog
    <3> QED BY <1>1, <3>1, <3>2, <3>5
  <2> QED BY <2>1, <2>2
<1>10. BatchOK' /\ OnlyWorker'
  BY <1>5 DEF Sound, BatchOK, OnlyWorker, lists
<1> QED BY <1>6, <1>7, <1>8, <1>9, <1>10 DEF Sound

LEMMA SourceSound ==
    ASSUME Types, Sound, SourceStep, UNCHANGED <<config, lists>> PROVE Sound'
<1>0. src \in [Versions -> Contents] /\ target \in [Versions -> Contents]
  BY DEF Types, BucketsOK
<1>1. UNCHANGED <<queue, dropped, zkInit, zkOffset, reader, skipped>>
  BY DEF SourceStep, SourcePut, SourcePutTagging, SourceDelete, ZenkoPut, OtherBucketPut, mongo, zk,
         scanHistory
<1>2. ASSUME UNCHANGED target PROVE ZkOrdered'
  BY <1>1, <1>2 DEF Sound, ZkOrdered, W
<1>3. ASSUME NEW v \in Versions, SourcePut(v) \/ SourcePutTagging(v) \/ SourceDelete(v) PROVE Sound'
  <2>1. PICK c : Logged(v, c)
    BY <1>3 DEF SourcePut, SourcePutTagging, SourceDelete
  <2>2. target' = target
    BY <1>3 DEF SourcePut, SourcePutTagging, SourceDelete, mongo
  <2> QED BY <1>0, <1>1, <1>2, <2>1, <2>2, LoggedSound DEF Logged
<1>4. ASSUME NEW v \in Versions, config, ZenkoPut(v) PROVE Sound'
  <2>1. PICK c : Logged(v, c) /\ target' = [target EXCEPT ![v] = c]
    BY <1>4 DEF ZenkoPut
  <2>2. ZkOrdered'
    BY <1>1, <1>4 DEF Sound, ZkOrdered, W
  <2> QED BY <1>0, <1>1, <2>1, <2>2, LoggedSound DEF Logged
<1>5. CASE OtherBucketPut
  <2>1. log' = Append(log, [v |-> Other, c |-> None]) /\ UNCHANGED <<src, target>>
    BY <1>5 DEF OtherBucketPut, mongo
  <2> QED BY <1>1, <1>2, <2>1, LoggedSound, NoneTypes
<1> QED BY <1>3, <1>4, <1>5 DEF SourceStep

(* An entry applied, applied again or given up leaves the final contents as they
   were, or unknown                                                            *)
LEMMA MongoFinal ==
    ASSUME Types, NEW v \in Versions, MongoStep(v), NEW w \in Versions, NEW more, Known(w, more)'
    PROVE  Known(w, more) /\ Final(w, more)' = Final(w, more)
<1>0. target \in [Versions -> Contents] /\ DOMAIN queue = Versions
  BY DEF Types, BucketsOK
<1>1. /\ queue[v] # <<>>
      /\ queue' = queue \/ queue' = [queue EXCEPT ![v] = Tail(@)]
      /\ \A u \in Versions \ {v} : target'[u] = target[u] /\ (u \in dropped' <=> u \in dropped)
  BY <1>0 DEF MongoStep, ProcessKafkaEntry, ProcessedAgain, ProcessKafkaEntryFails, Consumed,
         ProcessDeleteOpQueueEntry, ProcessObjectQueueEntry
<1>2. CASE w # v
  <2>1. queue'[w] = queue[w] /\ target'[w] = target[w] /\ (w \in dropped' <=> w \in dropped)
    BY <1>0, <1>1, <1>2
  <2> QED BY <2>1 DEF Known, Final
<1>3. CASE more # <<>>
  BY <1>3 DEF Known, Final
<1>4. CASE w = v /\ more = <<>>
  <2> DEFINE P == {e \in PublishedEntries : e.v = v}
  <2>1. PICK q \in Seq(P) : q = queue[v]
    BY DEF Types, TopicOK
  <2> HIDE DEF P
  <2>2. q # <<>> /\ Len(q) \in Nat /\ Head(q) = q[1]
    BY <1>1, <2>1
  <2>3. Tail(q) # <<>> => Len(Tail(q)) \in Nat /\ Tail(q)[Len(Tail(q))] = q[Len(q)]
    BY <2>1, <2>2
  <2>4. Tail(q) = <<>> => Len(q) = 1
    <3>1. PICK t \in Seq(P) : t = Tail(q) /\ Len(t) = Len(q) - 1
      BY <2>1, <2>2, HeadTailProperties
    <3>2. t = <<>> => Len(t) = 0
      OBVIOUS
    <3> QED BY <2>2, <3>1, <3>2
  <2>5. queue'[v] = q \/ queue'[v] = Tail(q)
    BY <1>0, <1>1, <2>1
  <2>6. Known(v, more)
    BY <1>1 DEF Known
  <2>7. CASE queue'[v] # <<>>
    BY <1>1, <1>4, <2>1, <2>3, <2>5, <2>6, <2>7 DEF Final
  <2>8. CASE queue'[v] = <<>>
    <3>1. v \notin dropped' /\ Len(q) = 1 /\ queue'[v] # queue[v]
      BY <1>1, <1>4, <2>1, <2>2, <2>4, <2>5, <2>8 DEF Known
    <3>2. ProcessKafkaEntry(v, config)
      BY <3>1 DEF MongoStep, ProcessedAgain, ProcessKafkaEntryFails
    <3>3. target'[v] = Head(q).c
      BY <1>0, <2>1, <3>1, <3>2 DEF ProcessKafkaEntry, ProcessDeleteOpQueueEntry, ProcessObjectQueueEntry
    <3> QED BY <1>1, <1>4, <2>1, <2>2, <2>6, <2>8, <3>1, <3>3 DEF Final
  <2> QED BY <1>4, <2>7, <2>8
<1> QED BY <1>2, <1>3, <1>4

LEMMA MongoSound ==
    ASSUME Types, Sound, NEW v \in Versions, MongoStep(v), UNCHANGED <<config, lists>> PROVE Sound'
<1>1. UNCHANGED <<src, log, zkInit, zkOffset, reader, skipped>>
  BY DEF MongoStep, ProcessKafkaEntry, ProcessedAgain, ProcessKafkaEntryFails, source, zk, scanHistory
<1>2. \A w, o : Due(w, o) => Due(w, o)'
  BY <1>1 DEF Due
<1>3. ASSUME NEW w \in Versions, NEW more, NEW st, NEW offs, Caught(w, more, st, offs)
      PROVE  Caught(w, more, st, offs)'
  <2>1. Known(w, more)' => Known(w, more) /\ Final(w, more)' = Final(w, more)
    BY MongoFinal
  <2> QED BY <1>1, <1>2, <1>3, <2>1, CaughtStays
<1>4. /\ W' = W /\ Marks' = Marks /\ Offsets' = Offsets /\ Progress' = Progress
      /\ \A w : Extra(w)' = Extra(w) /\ Listed(w)' = Listed(w)
  BY <1>1 DEF W, Marks, Offsets, Progress, Extra, Listed
<1>5. Stands'
  BY <1>1, <1>3, <1>4 DEF Sound, Stands
<1>6. WillStand'
  BY <1>3, <1>4 DEF Sound, WillStand
<1>7. OutOK' /\ SrcIsLog' /\ BatchOK' /\ OnlyWorker'
  BY <1>1, <1>2, <1>4 DEF Sound, OutOK, SrcIsLog, BatchOK, OnlyWorker, lists
<1>8. ZkOrdered'
  <2>1. ~config => UNCHANGED target
    BY DEF MongoStep, ProcessKafkaEntry, ProcessedAgain, ProcessKafkaEntryFails
  <2> QED BY <1>1, <1>4, <2>1 DEF Sound, ZkOrdered
<1> QED BY <1>5, <1>6, <1>7, <1>8 DEF Sound

-----------------------------------------------------------------------------
(* The populator *)

(* What a step does to the batch in progress, if it does anything: the reader
   may read the log from elsewhere                                             *)
LEMMA SameBatch ==
    ASSUME Types, Sound,
           UNCHANGED <<src, log, target, dropped, skipped, queue, zkInit, config>>,
           W'.phase = W.phase, W'.snap = W.snap, W'.st = W.st, W'.cseq = W.cseq,
           W'.page = W.page, W'.out = W.out, W'.next = W.next,
           \A v : (\A o \in Marks : Due(v, o)) => (\A o \in Marks : Due(v, o))',
           OnlyWorker', ZkOrdered'
    PROVE  Sound'
<1>1. \A v, o : Due(v, o) <=> Due(v, o)'
  BY DEF Due
<1>2. ASSUME NEW v \in Versions, NEW more, NEW st, NEW offs, Caught(v, more, st, offs)
      PROVE  Caught(v, more, st, offs)'
  <2>1. Known(v, more)' => Known(v, more) /\ Final(v, more)' = Final(v, more)
    BY DEF Known, Final
  <2> QED BY <1>1, <1>2, <2>1, CaughtStays
<1>3. PICK marks, offs, late : /\ marks = Marks /\ offs = Offsets /\ offs = marks \cup late
        /\ late = IF W.phase \in {"list", "metadata"} THEN {W.cseq}
                  ELSE IF W.phase \in {"publish", "state", "offset"} THEN {W.next} ELSE {}
  BY DEF Offsets
<1>4. PICK marks2, offs2 : marks2 = Marks' /\ offs2 = Offsets' /\ offs2 = marks2 \cup late
  BY <1>3 DEF Offsets
<1>5. \A v : (\A o \in marks : Due(v, o)) => \A o \in marks2 : Due(v, o)
  BY <1>1, <1>3, <1>4
<1>6. \A v : (\A o \in offs : Due(v, o)) => \A o \in offs2 : Due(v, o)
  BY <1>3, <1>4, <1>5
<1>7. Progress' = Progress /\ \A v : Extra(v)' = Extra(v) /\ Listed(v)' = Listed(v)
  BY DEF Progress, Extra, Listed
<1>8. Stands'
  <2> SUFFICES ASSUME NEW v \in Versions PROVE Caught(v, <<>>, zkInit, Marks)'
    BY DEF Stands
  <2>1. Caught(v, <<>>, zkInit, marks)
    BY <1>3 DEF Sound, Stands
  <2>2. Caught(v, <<>>, zkInit, marks2)
    BY <1>5, <2>1, FewerOffsets
  <2> QED BY <1>2, <1>4, <2>2
<1>9. WillStand'
  <2> SUFFICES ASSUME NEW v \in Versions, ~Listed(v)' PROVE Caught(v, Extra(v), Progress, Offsets)'
    BY DEF WillStand
  <2>1. Caught(v, Extra(v), Progress, offs)
    BY <1>3, <1>7 DEF Sound, WillStand
  <2>2. Caught(v, Extra(v), Progress, offs2)
    BY <1>6, <2>1, FewerOffsets
  <2> QED BY <1>2, <1>4, <1>7, <2>2
<1>10. OutOK'
  BY DEF Sound, OutOK
<1>11. SrcIsLog' /\ BatchOK'
  BY DEF Sound, SrcIsLog, BatchOK
<1> QED BY <1>8, <1>9, <1>10, <1>11 DEF Sound

(* A tick may start a batch *)
LEMMA TickSound ==
    ASSUME Types, Sound,
           UNCHANGED <<src, log, target, dropped, skipped, queue, zkInit, config>>,
           NEW r, W' = r \/ (r.phase = "idle" /\ W' = [Rest(r) EXCEPT !.phase = "init"]),
           r.phase = W.phase, r.snap = W.snap, r.st = W.st, r.cseq = W.cseq,
           r.page = W.page, r.out = W.out, r.next = W.next,
           \A v : (\A o \in Marks : Due(v, o)) => Due(v, zkOffset') /\ Due(v, r.offset),
           OnlyWorker', ZkOrdered'
    PROVE  Sound'
<1>1. \A v, o : Due(v, o) <=> Due(v, o)'
  BY DEF Due
<1>2. W'.offset = r.offset
  BY DEF Rest, NewReader
<1>3. \A v : (\A o \in Marks : Due(v, o)) => (\A o \in Marks : Due(v, o))'
  BY <1>1, <1>2 DEF Marks
<1>4. CASE W' = r
  BY <1>3, <1>4, SameBatch
<1>5. CASE r.phase = "idle" /\ W' = [Rest(r) EXCEPT !.phase = "init"]
  <2>1. W'.phase = "init" /\ ~W'.snap /\ W'.cseq = Unset
    BY <1>5 DEF Rest, NewReader
  <2>2. Stands'
    <3> SUFFICES ASSUME NEW v \in Versions PROVE Caught(v, <<>>, zkInit, Marks)'
      BY DEF Stands
    <3>1. PICK marks, marks2 : marks = Marks /\ marks2 = Marks'
      OBVIOUS
    <3>2. Caught(v, <<>>, zkInit, marks)
      BY <3>1 DEF Sound, Stands
    <3>3. Caught(v, <<>>, zkInit, marks2)
      BY <1>1, <1>3, <3>1, <3>2, FewerOffsets
    <3>4. Known(v, <<>>)' => Known(v, <<>>) /\ Final(v, <<>>)' = Final(v, <<>>)
      BY DEF Known, Final
    <3> QED BY <1>1, <3>1, <3>3, <3>4, CaughtStays
  <2>3. SrcIsLog'
    BY DEF Sound, SrcIsLog
  <2> QED BY <2>1, <2>2, <2>3, AtRest
<1> QED BY <1>4, <1>5

(* The readers that start a batch are active *)
LEMMA Ticks ==
    ASSUME Types, NEW readers \in Seq({Worker}), NEW rs, DOMAIN rs = Instances,
           reader' = ProcessLogEntries(readers, rs)
    PROVE  /\ \A i \in Instances \ {Worker} : reader'[i] = rs[i]
           /\ \/ W' = rs[Worker]
              \/ rs[Worker].phase = "idle" /\ W' = [Rest(rs[Worker]) EXCEPT !.phase = "init"]
<1>1. ToSet(readers) \subseteq {Worker}
  BY DEF ToSet
<1>2. \A i \in Instances :
        reader'[i] = IF i \in ToSet(readers) /\ rs[i].phase = "idle" /\ Active
                     THEN [Rest(rs[i]) EXCEPT !.phase = "init"] ELSE rs[i]
  BY DEF ProcessLogEntries
<1> QED BY <1>1, <1>2, WorkerTypes DEF W

LEMMA AddNewLogSourceSound ==
    ASSUME Types, Sound, AddNewLogSource PROVE Sound'
<1>1. /\ config /\ ingestionSource = 0
      /\ UNCHANGED <<src, log, target, dropped, skipped, queue, zkInit, zkOffset, config, logReaders, removing>>
  BY DEF AddNewLogSource, source, mongo, zk, scanHistory
<1>2. logReaders = <<>> /\ removing = {} /\ W.phase = "idle" /\ ~W.snap
  BY <1>1 DEF Sound, OnlyWorker, BatchOK
<1>3. PICK i \in Instances :
        /\ ~InUse(i) /\ \A j \in 1..(i - 1) : InUse(j)
        /\ ingestionSource' = i /\ reader' = [reader EXCEPT ![i] = [NewReader EXCEPT !.ready = "pending"]]
  BY DEF AddNewLogSource
<1>4. ~InUse(Worker)
  <2>1. ToSet(<<>>) = {}
    BY DEF ToSet
  <2> QED BY <1>1, <1>2, <2>1 DEF InUse, W, Worker
<1>5. i = Worker
  <2>1. i \in Nat \ {0}
    BY IngestionAssumption DEF Instances
  <2> QED BY <1>3, <1>4, <2>1 DEF Worker
<1> DEFINE r == [NewReader EXCEPT !.ready = "pending"]
<1>6. W' = r
  BY <1>3, <1>5, WorkerTypes DEF Types, ReadersOK, W
<1>7. r.phase = "idle" /\ ~r.snap /\ r.cseq = Unset /\ r.offset = 0 /\ r.ready = "pending"
  BY DEF NewReader
<1> HIDE DEF r
<1>8. Stands'
  <2> SUFFICES ASSUME NEW v \in Versions PROVE Caught(v, <<>>, zkInit, Marks)'
    BY DEF Stands
  <2>0. Marks' = {zkOffset, 0} /\ zkOffset \in Marks
    BY <1>1, <1>6, <1>7 DEF Marks
  <2>1. PICK marks, marks2 : marks = Marks /\ marks2 = Marks' /\ marks2 = {zkOffset, 0} /\ zkOffset \in marks
    BY <2>0
  <2>2. Caught(v, <<>>, zkInit, marks)
    BY <2>1 DEF Sound, Stands
  <2>3. zkOffset \in Int
    BY OffsetTypes DEF Marks
  <2>4. (\A o \in marks : Due(v, o)) => \A o \in marks2 : Due(v, o)
    BY <2>1, <2>3, LowerDue
  <2>5. Caught(v, <<>>, zkInit, marks2)
    BY <2>2, <2>4, FewerOffsets
  <2>6. Known(v, <<>>)' => Known(v, <<>>) /\ Final(v, <<>>)' = Final(v, <<>>)
    BY <1>1 DEF Known, Final
  <2>7. \A o : Due(v, o) => Due(v, o)'
    BY <1>1 DEF Due
  <2> QED BY <1>1, <2>1, <2>5, <2>6, <2>7, CaughtStays
<1>9. OnlyWorker'
  <2>1. \A j \in Instances \ {Worker} : reader'[j] = NewReader
    BY <1>3, <1>5 DEF Sound, OnlyWorker, Types, ReadersOK
  <2> QED BY <1>1, <1>3, <1>5, <2>1 DEF Sound, OnlyWorker, Worker
<1>10. SrcIsLog' /\ ZkOrdered'
  BY <1>1, <1>6, <1>7 DEF Sound, SrcIsLog, ZkOrdered
<1> QED BY <1>6, <1>7, <1>8, <1>9, <1>10, AtRest

LEMMA QueueBatchSound ==
    ASSUME Types, Sound, QueueBatch PROVE Sound'
<1>1. UNCHANGED <<src, log, target, dropped, skipped, queue, zkInit, zkOffset, config>>
  BY DEF QueueBatch, source, mongo, zk, scanHistory
<1>2. logReaders \in Seq({Worker}) /\ ingestionSource \in {0, Worker} /\ removing \subseteq {Worker}
  BY DEF Sound, OnlyWorker
<1>3. Without(logReaders, ingestionSource) \in Seq({Worker})
  BY <1>2, WithoutType
<1>4. RemovePausedReaders(Without(logReaders, ingestionSource)) \in Seq({Worker})
      /\ RemovePausedReaders(logReaders) \in Seq({Worker})
  BY <1>2, <1>3, RemovePausedType
<1>5. /\ logReaders' \in Seq({Worker})
      /\ \/ ingestionSource' = ingestionSource /\ removing' = removing
         \/ ~config /\ ingestionSource' = 0 /\ removing' = removing \cup {Worker}
  <2>1. ToSet(logReaders) \subseteq {Worker}
    BY <1>2 DEF ToSet
  <2> QED BY <1>2, <1>4, <2>1 DEF QueueBatch, CloseLogState
<1>6. PICK r : r = W
  OBVIOUS
<1>7. /\ \A i \in Instances \ {Worker} : reader'[i] = reader[i]
      /\ W' = r \/ (r.phase = "idle" /\ W' = [Rest(r) EXCEPT !.phase = "init"])
  BY <1>5, <1>6, Ticks DEF QueueBatch, Types, ReadersOK, W
<1>8. OnlyWorker'
  <2>1. ~(config /\ ingestionSource = 0)
    BY DEF QueueBatch
  <2>2. ~(config' /\ ingestionSource' = 0)
    BY <1>1, <1>5, <2>1
  <2>3. config' => removing' = {}
    BY <1>1, <1>5 DEF Sound, OnlyWorker
  <2> QED BY <1>2, <1>5, <1>7, <2>2, <2>3 DEF Sound, OnlyWorker
<1>9. ZkOrdered'
  <2>1. W'.ready = r.ready /\ W'.offset = r.offset
    BY <1>7 DEF Rest, NewReader
  <2> QED BY <1>1, <1>6, <2>1 DEF Sound, ZkOrdered
<1>10. \A v : (\A o \in Marks : Due(v, o)) => Due(v, zkOffset') /\ Due(v, r.offset)
  BY <1>1, <1>6 DEF Marks
<1> QED BY <1>1, <1>6, <1>7, <1>8, <1>9, <1>10, TickSound

LEMMA SetupReaderSound ==
    ASSUME Types, Sound, NEW i \in Instances, SetupReader(i) \/ SetupReaderFails(i) PROVE Sound'
<1>0. i = Worker /\ W.ready = "pending"
  BY TheWorker DEF Sound, SetupReader, SetupReaderFails, W
<1>1. UNCHANGED <<src, log, target, dropped, skipped, queue, zkInit, config, ingestionSource, removing>>
  BY DEF SetupReader, SetupReaderFails, source, mongo, zk, scanHistory
<1>2. logReaders' \in Seq({Worker})
  <2>1. logReaders \in Seq({Worker})
    BY DEF Sound, OnlyWorker
  <2>2. Append(logReaders, i) \in Seq({Worker})
    BY <1>0, <2>1
  <2> QED BY <2>1, <2>2, RemovePausedType DEF SetupReader, SetupReaderFails
<1>3. zkOffset \in Int /\ zkOffset >= NoNode /\ W \in Readers(Len(log)) /\ Len(log) \in Nat
      /\ DOMAIN reader = Instances
  BY WorkerTypes DEF Types, ZkOK, NoNode, ReadersOK
<1> DEFINE first_ == IF zkOffset > 0 THEN zkOffset ELSE 1
           set == [W EXCEPT !.ready = "yes", !.offset = first_]
           fail == [W EXCEPT !.ready = "failed"]
           SameFields(r) == /\ r.phase = W.phase /\ r.snap = W.snap /\ r.st = W.st /\ r.cseq = W.cseq
                            /\ r.page = W.page /\ r.out = W.out /\ r.next = W.next
<1>4. PICK r : /\ SameFields(r)
               /\ reader' = ProcessLogEntries(logReaders', [reader EXCEPT ![i] = r])
               /\ \/ zkOffset' = zkOffset /\ r.offset = W.offset /\ r.ready = "failed"
                  \/ /\ zkOffset' = IF zkOffset = NoNode THEN 0 ELSE zkOffset
                     /\ r.offset = IF zkOffset > 0 THEN zkOffset ELSE 1
  <2>1. CASE SetupReader(i)
    <3>1. PICK r : r = set
      OBVIOUS
    <3>2. SameFields(r) /\ r.offset = first_
      BY <1>3, <3>1 DEF Readers
    <3>3. reader' = ProcessLogEntries(logReaders', [reader EXCEPT ![i] = r])
      BY <1>0, <2>1, <3>1 DEF SetupReader, W
    <3> QED BY <2>1, <3>2, <3>3 DEF SetupReader
  <2>2. CASE SetupReaderFails(i)
    <3>1. PICK r : r = fail
      OBVIOUS
    <3>2. SameFields(r) /\ r.offset = W.offset /\ r.ready = "failed"
      BY <1>3, <3>1 DEF Readers
    <3>3. reader' = ProcessLogEntries(logReaders', [reader EXCEPT ![i] = r])
      BY <1>0, <2>2, <3>1 DEF SetupReaderFails, W
    <3> QED BY <2>2, <3>2, <3>3 DEF SetupReaderFails, zk
  <2> QED BY <2>1, <2>2
<1> DEFINE rs == [reader EXCEPT ![i] = r]
<1>5. DOMAIN rs = Instances /\ rs[Worker] = r /\ \A j \in Instances \ {Worker} : rs[j] = reader[j]
  BY <1>0, <1>3, WorkerTypes
<1>6. /\ \A j \in Instances \ {Worker} : reader'[j] = reader[j]
      /\ W' = r \/ (r.phase = "idle" /\ W' = [Rest(r) EXCEPT !.phase = "init"])
  <2>1. PICK rs0 : rs0 = rs
    OBVIOUS
  <2>2. PICK readers : readers = logReaders'
    OBVIOUS
  <2>3. reader' = ProcessLogEntries(readers, rs0)
    BY <1>4, <2>1, <2>2
  <2> HIDE DEF rs
  <2>4. /\ readers \in Seq({Worker}) /\ DOMAIN rs0 = Instances /\ rs0[Worker] = r
        /\ \A j \in Instances \ {Worker} : rs0[j] = reader[j]
    BY <1>2, <1>5, <2>1, <2>2
  <2>5. /\ \A j \in Instances \ {Worker} : reader'[j] = rs0[j]
        /\ \/ W' = rs0[Worker]
           \/ rs0[Worker].phase = "idle" /\ W' = [Rest(rs0[Worker]) EXCEPT !.phase = "init"]
    BY <2>3, <2>4, Ticks
  <2> QED BY <2>4, <2>5
<1>7. W'.ready = r.ready /\ W'.offset = r.offset
  BY <1>6 DEF Rest, NewReader
<1>8. OnlyWorker'
  <2>1. ~(config /\ ingestionSource = 0)
    BY <1>0 DEF Sound, OnlyWorker
  <2> QED BY <1>1, <1>2, <1>6, <2>1 DEF Sound, OnlyWorker
<1>9. ZkOrdered'
  <2>1. W'.ready = "yes" => zkOffset' <= W'.offset
    BY <1>3, <1>4, <1>7
  <2> QED BY <1>1, <2>1 DEF Sound, ZkOrdered
<1>10. ASSUME NEW v, \A o \in Marks : Due(v, o) PROVE Due(v, zkOffset') /\ Due(v, r.offset)
  <2>1. Due(v, zkOffset) /\ Due(v, W.offset)
    BY <1>10 DEF Marks
  <2>2. W.offset \in Int
    BY OffsetTypes DEF Marks
  <2>3. /\ zkOffset' \in Int /\ (zkOffset' <= zkOffset \/ zkOffset' <= 1)
        /\ r.offset = W.offset \/ (r.offset \in Int /\ (r.offset <= zkOffset \/ r.offset <= 1))
    BY <1>3, <1>4 DEF NoNode
  <2> QED BY <1>3, <2>1, <2>2, <2>3, LowerDue
<1> HIDE DEF rs
<1> QED BY <1>1, <1>4, <1>6, <1>8, <1>9, <1>10, TickSound

(* The saved state is removed once the bucket is *)
LEMMA RemoveReaderStateSound ==
    ASSUME Types, Sound, NEW i \in Instances, RemoveReaderState(i) PROVE Sound'
<1>1. /\ i \in removing /\ reader[i].phase = "idle"
      /\ UNCHANGED <<src, log, target, dropped, skipped, queue, reader, config, ingestionSource, logReaders>>
      /\ zkInit' = NoState /\ zkOffset' = NoNode /\ removing' = removing \ {i}
  BY DEF RemoveReaderState, source, mongo, scanHistory
<1>2. i = Worker /\ ~config /\ W' = W /\ W.phase = "idle" /\ ~W.snap
  BY <1>1 DEF Sound, OnlyWorker, BatchOK, W
<1>3. Stands'
  <2> SUFFICES ASSUME NEW v \in Versions PROVE Caught(v, <<>>, zkInit, Marks)'
    BY DEF Stands
  <2>0. Marks' = {NoNode, W.offset} /\ zkOffset \in Int /\ zkOffset \in Marks /\ W.offset \in Marks
    BY <1>1, <1>2, OffsetTypes DEF Marks
  <2>1. PICK marks, marks2 : marks = Marks /\ marks2 = Marks' /\ marks2 = {NoNode, W.offset}
    BY <2>0
  <2>2. Caught(v, <<>>, zkInit, marks)
    BY <2>1 DEF Sound, Stands
  <2>3. (\A o \in marks : Due(v, o)) => \A o \in marks2 : Due(v, o)
    BY <2>0, <2>1, LowerDue DEF NoNode
  <2>4. Caught(v, <<>>, zkInit, marks2)
    BY <2>2, <2>3, FewerOffsets
  <2>5. Known(v, <<>>)' => Known(v, <<>>) /\ Final(v, <<>>)' = Final(v, <<>>)
    BY <1>1 DEF Known, Final
  <2>6. \A o : Due(v, o) => Due(v, o)'
    BY <1>1 DEF Due
  <2>7. PICK st : st = zkInit
    OBVIOUS
  <2>8. Caught(v, <<>>, st, marks2)'
    BY <1>1, <2>4, <2>5, <2>6, <2>7, CaughtStays
  <2> QED BY <1>1, <1>2, <2>1, <2>8 DEF Caught
<1>4. OnlyWorker'
  BY <1>1, <1>2 DEF Sound, OnlyWorker
<1>5. ZkOrdered'
  <2>1. W.ready = "yes" => NoNode <= W.offset
    BY WorkerTypes DEF Readers, NoNode
  <2> QED BY <1>1, <1>2, <2>1 DEF Sound, ZkOrdered, NoState
<1>6. SrcIsLog' /\ BatchOK'
  BY <1>1, <1>2 DEF Sound, SrcIsLog, BatchOK
<1>7. WillStand' /\ OutOK'
  BY <1>2, <1>3, Quiet
<1> QED BY <1>3, <1>4, <1>5, <1>6, <1>7 DEF Sound

(* Commands and the node of the location leave the batch alone *)
LEMMA LocationSound ==
    ASSUME Types, Sound,
           Command \/ SetupZkLocationNode \/ RemoveZkState
             \/ \E k \in DOMAIN updates : UpdateReads(k) \/ UpdateWrites(k) \/ UpdateFails(k)
    PROVE  Sound'
<1>1. UNCHANGED <<src, log, target, dropped, skipped, queue, zkInit, zkOffset, reader, config,
                  ingestionSource, removing>>
  BY DEF Command, SetupZkLocationNode, RemoveZkState, UpdateReads, UpdateWrites, UpdateFails, readerVars,
         source, mongo, zk, scanHistory, lists
<1>2. \/ logReaders' = logReaders \/ logReaders' = <<>>
      \/ ingestionSource # 0 /\ logReaders' = Append(logReaders, ingestionSource)
  BY DEF Command, SetupZkLocationNode, RemoveZkState, UpdateReads, UpdateWrites, UpdateFails, lists,
         Paused, Resumed, Unscheduled, Scheduled, Triggered
<1>3. W' = W /\ Marks' = Marks
  BY <1>1 DEF W, Marks
<1>4. OnlyWorker'
  <2>1. logReaders \in Seq({Worker}) /\ ingestionSource \in {0, Worker}
    BY DEF Sound, OnlyWorker
  <2>2. <<>> \in Seq({Worker}) /\ Append(logReaders, Worker) \in Seq({Worker})
    BY <2>1
  <2>3. logReaders' \in Seq({Worker})
    BY <1>2, <2>1, <2>2
  <2>4. config /\ ingestionSource = 0 => logReaders' = <<>>
    BY <1>2 DEF Sound, OnlyWorker
  <2> QED BY <1>1, <1>3, <2>3, <2>4 DEF Sound, OnlyWorker
<1>5. ZkOrdered'
  BY <1>1, <1>3 DEF Sound, ZkOrdered
<1>6. \A v, o : Due(v, o) <=> Due(v, o)'
  BY <1>1 DEF Due
<1>7. \A v : (\A o \in Marks : Due(v, o)) => (\A o \in Marks : Due(v, o))'
  BY <1>3, <1>6
<1> QED BY <1>1, <1>3, <1>4, <1>5, <1>7, SameBatch

(* The objects of the Zenko bucket go with it, and no version of the source has to
   be in it any more                                                            *)
LEMMA RemoveBucketSound ==
    ASSUME Types, Sound, RemoveBucket PROVE Sound'
<1>1. /\ config /\ ~config' /\ target' = [v \in Versions |-> None]
      /\ UNCHANGED <<src, log, dropped, skipped, queue, zkInit, zkOffset, reader, lists>>
  BY DEF RemoveBucket, source, zk, scanHistory
<1>2. W' = W /\ Marks' = Marks /\ Offsets' = Offsets
      /\ \A w : Extra(w)' = Extra(w) /\ Listed(w)' = Listed(w)
  BY <1>1 DEF W, Marks, Offsets, Extra, Listed
<1>3. \A v, o : Due(v, o) <=> Due(v, o)'
  BY <1>1 DEF Due
<1>4. ASSUME NEW v \in Versions, NEW more, NEW st, NEW st2, NEW offs, Caught(v, more, st, offs)
      PROVE  Caught(v, more, st2, offs)'
  <2> SUFFICES ASSUME Known(v, more)', src[v] = None, Final(v, more)' # None
               PROVE  skipped \/ \A o \in offs : Due(v, o)
    BY <1>1, <1>3 DEF Caught
  <2>1. Final(v, more)' = Final(v, more) /\ Known(v, more)
    BY <1>1 DEF Final, Known
  <2> QED BY <1>4, <2>1 DEF Caught
<1>5. Stands'
  <2> SUFFICES ASSUME NEW v \in Versions PROVE Caught(v, <<>>, zkInit, Marks)'
    BY DEF Stands
  <2>1. Caught(v, <<>>, zkInit, Marks)
    BY DEF Sound, Stands
  <2> QED BY <1>1, <1>2, <1>4, <2>1
<1>6. WillStand'
  <2> SUFFICES ASSUME NEW v \in Versions, ~Listed(v)' PROVE Caught(v, Extra(v), Progress, Offsets)'
    BY DEF WillStand
  <2>1. Caught(v, Extra(v), Progress, Offsets)
    BY <1>2 DEF Sound, WillStand
  <2>2. PICK st2 : st2 = Progress'
    OBVIOUS
  <2> QED BY <1>2, <1>4, <2>1, <2>2
<1>7. OutOK' /\ SrcIsLog' /\ BatchOK'
  BY <1>1, <1>2, <1>3 DEF Sound, OutOK, SrcIsLog, BatchOK
<1>8. OnlyWorker' /\ ZkOrdered'
  BY <1>1, <1>2 DEF Sound, OnlyWorker, ZkOrdered, lists
<1> QED BY <1>5, <1>6, <1>7, <1>8 DEF Sound

(* A bucket created when nothing is left of the one before is listed from the start *)
LEMMA CreateBucketSound ==
    ASSUME Types, Sound, CreateBucket, ~dirty' PROVE Sound'
<1>1. /\ config' /\ UNCHANGED <<readerVars, lists>>
      /\ ingestionSource = 0 /\ removing = {} /\ logReaders = <<>> /\ ~zkInit.exists
      /\ \A i \in Instances : reader[i].phase = "idle" /\ reader[i].ready # "pending"
  <2>1. /\ config' /\ UNCHANGED <<readerVars, lists>>
        /\ dirty' = (\/ dirty \/ ingestionSource # 0 \/ removing # {} \/ logReaders # <<>>
                     \/ zkInit.exists \/ zkOffset # NoNode
                     \/ \E i \in Instances : reader[i].phase # "idle" \/ reader[i].ready = "pending")
    BY DEF CreateBucket
  <2> QED BY <2>1
<1>2. UNCHANGED <<src, log, target, dropped, skipped, queue, zkInit, zkOffset, reader, lists>>
  BY <1>1 DEF readerVars
<1>3. W' = W /\ Marks' = Marks /\ W.phase = "idle" /\ W.ready # "pending" /\ ~W.snap
      /\ zkInit = NoState
  BY <1>1, <1>2, WorkerTypes DEF Sound, BatchOK, ZkOrdered, W, Marks
<1>4. Stands'
  <2> SUFFICES ASSUME NEW v \in Versions PROVE Caught(v, <<>>, zkInit, Marks)'
    BY DEF Stands
  <2>1. ToList(zkInit, v)'
    BY <1>2, <1>3 DEF ToList, NoState
  <2>2. Caught(v, <<>>, zkInit, Marks)
    BY DEF Sound, Stands
  <2>3. \A o : Due(v, o) => Due(v, o)'
    BY <1>2 DEF Due
  <2>4. Known(v, <<>>)' => Known(v, <<>>) /\ Final(v, <<>>)' = Final(v, <<>>)
    BY <1>2 DEF Known, Final
  <2> QED BY <1>2, <1>3, <2>1, <2>2, <2>3, <2>4 DEF Caught
<1>5. SrcIsLog' /\ BatchOK'
  BY <1>2, <1>3 DEF Sound, SrcIsLog, BatchOK
<1>6. OnlyWorker' /\ ZkOrdered'
  BY <1>1, <1>2, <1>3 DEF Sound, OnlyWorker, ZkOrdered, lists
<1> QED BY <1>3, <1>4, <1>5, <1>6, Quiet DEF Sound

(* The next process reads the log from the saved offset *)
LEMMA RestartSound ==
    ASSUME Types, Sound, Restart, ~dirty' PROVE Sound'
<1>1. /\ UNCHANGED <<src, log, target, dropped, skipped, queue, zkInit, zkOffset, config>>
      /\ reader' = [i \in Instances |-> NewReader]
      /\ ingestionSource' = 0 /\ logReaders' = <<>> /\ removing' = {} /\ removing = {} /\ config
  BY DEF Restart, source, mongo, zk, scanHistory
<1>2. W' = NewReader /\ W'.phase = "idle" /\ ~W'.snap /\ W'.cseq = Unset /\ W'.offset = 0 /\ W'.ready = "no"
  BY <1>1, WorkerTypes DEF W, NewReader
<1>3. Stands'
  <2> SUFFICES ASSUME NEW v \in Versions PROVE Caught(v, <<>>, zkInit, Marks)'
    BY DEF Stands
  <2>0. Marks' = {zkOffset, 0} /\ zkOffset \in Marks /\ zkOffset \in Int
    BY <1>1, <1>2, OffsetTypes DEF Marks
  <2>1. PICK marks, marks2 : marks = Marks /\ marks2 = Marks' /\ marks2 = {zkOffset, 0}
    BY <2>0
  <2>2. Caught(v, <<>>, zkInit, marks)
    BY <2>1 DEF Sound, Stands
  <2>3. (\A o \in marks : Due(v, o)) => \A o \in marks2 : Due(v, o)
    BY <2>0, <2>1, LowerDue
  <2>4. Caught(v, <<>>, zkInit, marks2)
    BY <2>2, <2>3, FewerOffsets
  <2>5. Known(v, <<>>)' => Known(v, <<>>) /\ Final(v, <<>>)' = Final(v, <<>>)
    BY <1>1 DEF Known, Final
  <2>6. \A o : Due(v, o) => Due(v, o)'
    BY <1>1 DEF Due
  <2> QED BY <1>1, <2>1, <2>4, <2>5, <2>6, CaughtStays
<1>4. OnlyWorker'
  <2>1. <<>> \in Seq({Worker})
    OBVIOUS
  <2> QED BY <1>1, <1>2, <2>1 DEF OnlyWorker
<1>5. SrcIsLog' /\ ZkOrdered'
  BY <1>1, <1>2 DEF Sound, SrcIsLog, ZkOrdered
<1> QED BY <1>2, <1>3, <1>4, <1>5, AtRest

-----------------------------------------------------------------------------
(* The batch.  A step that only changes the record of the worker keeps what was
   caught up.                                                                  *)

LEMMA NothingMoves ==
    ASSUME UNCHANGED <<src, log, target, dropped, queue, config>>, skipped => skipped',
           NEW v, NEW more, NEW st, NEW offs, Caught(v, more, st, offs)
    PROVE  Caught(v, more, st, offs)'
<1>1. Known(v, more)' => Known(v, more) /\ Final(v, more)' = Final(v, more)
  BY DEF Known, Final
<1>2. \A o : Due(v, o) => Due(v, o)'
  BY DEF Due
<1> QED BY <1>1, <1>2, CaughtStays

LEMMA ListsMore ==
    ASSUME NEW v, NEW more, NEW st, NEW st2, NEW offs, Caught(v, more, st, offs),
           ToList(st, v) => ToList(st2, v)
    PROVE  Caught(v, more, st2, offs)
BY DEF Caught

LEMMA WorkerRests ==
    ASSUME Types, Sound, NEW i \in Instances, i = Worker, reader' = [reader EXCEPT ![i] = Rest(@)],
           W.phase # "idle", UNCHANGED <<config, lists>>
    PROVE  /\ W'.phase = "idle" /\ ~W'.snap /\ W'.cseq = Unset
           /\ W'.ready = W.ready /\ W'.offset = W.offset /\ OnlyWorker'
<1>1. PICK r : r = Rest(W)
  OBVIOUS
<1>2. reader' = [reader EXCEPT ![Worker] = r]
  BY <1>1 DEF W
<1>3. W' = r /\ OnlyWorker'
  BY <1>2, WorkerMoves DEF Sound
<1> QED BY <1>1, <1>3, RestFields

(* A batch that stops before anything is written *)
LEMMA StoppedSound ==
    ASSUME Types, Sound, NEW i \in Instances, i = Worker, reader' = [reader EXCEPT ![i] = Rest(@)],
           W.phase # "idle",
           UNCHANGED <<src, log, target, dropped, skipped, queue, zkInit, zkOffset, config, lists>>
    PROVE  Sound'
<1>1. /\ W'.phase = "idle" /\ ~W'.snap /\ W'.cseq = Unset
      /\ W'.ready = W.ready /\ W'.offset = W.offset /\ OnlyWorker'
  BY WorkerRests
<1>2. Marks' = Marks
  BY <1>1 DEF Marks
<1>3. Stands'
  BY <1>2, NothingMoves DEF Sound, Stands
<1>4. SrcIsLog' /\ ZkOrdered'
  BY <1>1 DEF Sound, SrcIsLog, ZkOrdered
<1> QED BY <1>1, <1>3, <1>4, AtRest

LEMMA BatchFailsSound ==
    ASSUME Types, Sound, NEW i \in Instances, BatchFails(i), UNCHANGED <<config, lists>> PROVE Sound'
<1>1. reader[i].phase # "idle" /\ reader' = [reader EXCEPT ![i] = Rest(@)]
      /\ UNCHANGED <<src, log, target, dropped, skipped, queue, zkInit, zkOffset>>
  BY DEF BatchFails, source, mongo, zk, scanHistory
<1>2. i = Worker /\ W.phase # "idle"
  BY <1>1, TheWorker DEF Sound, W
<1> QED BY <1>1, <1>2, StoppedSound

LEMMA ReadInitStateSound ==
    ASSUME Types, Sound, NEW i \in Instances, ReadInitState(i), UNCHANGED <<config, lists>> PROVE Sound'
<1>1. /\ reader[i].phase = "init"
      /\ UNCHANGED <<src, log, target, dropped, skipped, queue, zkOffset>>
      /\ zkInit' = IF zkInit.exists THEN zkInit ELSE EmptyState
  BY DEF ReadInitState, source, mongo, scanHistory
<1>2. i = Worker /\ W.phase = "init" /\ ~W.snap /\ W.cseq = Unset
  BY <1>1, TheWorker DEF Sound, W, BatchOK
<1> DEFINE ph == IF zkInit'.done THEN "log"
                 ELSE IF zkInit'.vm = Unset /\ zkInit'.km = Unset THEN "cseq" ELSE "list"
<1>3. PICK r : r = [W EXCEPT !.st = zkInit', !.phase = ph]
  OBVIOUS
<1>4. reader' = [reader EXCEPT ![Worker] = r]
  BY <1>2, <1>3 DEF ReadInitState, W
<1>5. W' = r /\ OnlyWorker'
  BY <1>2, <1>4, WorkerMoves DEF Sound
<1>6. /\ r.st = zkInit' /\ r.phase = ph /\ r.snap = W.snap /\ r.cseq = W.cseq
      /\ r.offset = W.offset /\ r.ready = W.ready
  BY <1>3, WorkerTypes DEF Readers
<1>7. ZkOrdered' /\ SrcIsLog'
  BY <1>1, <1>5, <1>6 DEF Sound, ZkOrdered, SrcIsLog, EmptyState, NoState
<1>8. zkInit'.exists /\ (zkInit'.done => zkInit' = zkInit)
  BY <1>1 DEF EmptyState, NoState
<1>9. PICK st, st2 : st = zkInit /\ st2 = zkInit'
  OBVIOUS
<1>10. \A v : ToList(st, v) => ToList(st2, v)
  BY <1>1, <1>9 DEF Sound, ZkOrdered, EmptyState, NoState, ToList
<1>11. PICK marks : marks = Marks /\ marks = Marks' /\ zkOffset \in marks
  <2>1. Marks' = Marks
    BY <1>1, <1>5, <1>6 DEF Marks
  <2> QED BY <2>1 DEF Marks
<1>12. \A v \in Versions : Caught(v, <<>>, st2, marks)
  BY <1>9, <1>10, <1>11, ListsMore DEF Sound, Stands
<1>13. Stands'
  BY <1>1, <1>9, <1>11, <1>12, NothingMoves DEF Stands
<1>14. WillStand'
  <2>1. CASE ph \in {"log", "cseq"}
    BY <1>2, <1>5, <1>6, <1>13, <2>1, Quiet
  <2>2. CASE ph = "list"
    <3>1. Progress' = st2 /\ Offsets' = marks \cup {Unset} /\ \A v : Extra(v)' = <<>>
      BY <1>2, <1>5, <1>6, <1>9, <1>11, <2>2 DEF Progress, Offsets, Extra
    <3>2. PICK offs : offs = Offsets' /\ offs = marks \cup {Unset}
      BY <3>1
    <3>3. zkOffset \in Int
      BY OffsetTypes DEF Marks
    <3>4. \A v : (\A o \in marks : Due(v, o)) => \A o \in offs : Due(v, o)
      BY <1>11, <3>2, <3>3, LowerDue DEF Unset
    <3>5. \A v \in Versions : Caught(v, <<>>, st2, offs)
      BY <1>12, <3>4, FewerOffsets
    <3>6. \A v \in Versions : Caught(v, <<>>, st2, offs)'
      BY <1>1, <3>5, NothingMoves
    <3> QED BY <3>1, <3>2, <3>6 DEF WillStand
  <2> QED BY <2>1, <2>2
<1>15. OutOK' /\ BatchOK'
  BY <1>2, <1>5, <1>6, <1>8 DEF OutOK, BatchOK
<1> QED BY <1>5, <1>7, <1>13, <1>14, <1>15 DEF Sound

(* The sequence number: the listing that follows misses the deletions logged so far *)
LEMMA GetBucketCseqSound ==
    ASSUME Types, Sound, NEW i \in Instances, GetBucketCseq(i), UNCHANGED <<config, lists>> PROVE Sound'
<1>1. /\ reader[i].phase = "cseq" /\ Len(log) > 0
      /\ UNCHANGED <<src, log, target, dropped, queue, zkInit, zkOffset>>
      /\ skipped' = (skipped \/ SkipsDeletion(reader[i].st))
  BY DEF GetBucketCseq, source, mongo, zk
<1>2. i = Worker /\ W.phase = "cseq" /\ ~W.snap /\ W.cseq = Unset /\ W.st = zkInit
      /\ zkInit.exists /\ ~zkInit.done /\ zkInit.vm = Unset /\ zkInit.km = Unset
  BY <1>1, TheWorker DEF Sound, W, BatchOK
<1>3. PICK r : r = [W EXCEPT !.cseq = Len(log), !.phase = "list"]
  OBVIOUS
<1>4. reader' = [reader EXCEPT ![Worker] = r]
  BY <1>2, <1>3 DEF GetBucketCseq, W
<1>5. W' = r /\ OnlyWorker'
  BY <1>2, <1>4, WorkerMoves DEF Sound
<1>6. /\ r.st = W.st /\ r.phase = "list" /\ r.snap = W.snap /\ r.cseq = Len(log)
      /\ r.offset = W.offset /\ r.ready = W.ready
  BY <1>3, WorkerTypes DEF Readers
<1>7. ZkOrdered' /\ SrcIsLog'
  BY <1>1, <1>5, <1>6 DEF Sound, ZkOrdered, SrcIsLog
<1>8. PICK st, marks, n : st = zkInit /\ marks = Marks /\ marks = Marks' /\ n = Len(log)
  BY <1>1, <1>5, <1>6 DEF Marks
<1>9. skipped => skipped'
  BY <1>1
<1>10. Stands'
  BY <1>1, <1>8, <1>9, NothingMoves DEF Sound, Stands
<1>11. WillStand'
  <2>1. Progress' = st /\ Offsets' = marks \cup {n} /\ \A v : Extra(v)' = <<>>
    BY <1>1, <1>2, <1>5, <1>6, <1>8 DEF Progress, Offsets, Extra
  <2>2. PICK offs : offs = Offsets' /\ offs = marks \cup {n}
    BY <2>1
  <2>3. ASSUME NEW v \in Versions PROVE Caught(v, <<>>, st, offs)'
    <3>1. Caught(v, <<>>, st, marks)'
      BY <1>1, <1>8, <1>9, NothingMoves DEF Sound, Stands
    <3>2. ToList(st, v)
      BY <1>2, <1>8 DEF ToList
    <3>3. ASSUME ~skipped', src[v] = None, Known(v, <<>>), Final(v, <<>>) # None
          PROVE  Due(v, n)'
      <4>1. WillBeThere(v)
        BY <3>3 DEF WillBeThere, Known, Final, Last
      <4>2. Last(log).v = v
        BY <1>1, <1>2, <3>3, <4>1 DEF SkipsDeletion, W
      <4> QED BY <1>1, <1>8, <4>2, WorkerTypes DEF Due, Last, Types, BucketsOK
    <3>4. (Known(v, <<>>)' <=> Known(v, <<>>)) /\ Final(v, <<>>)' = Final(v, <<>>)
      BY <1>1 DEF Known, Final
    <3> QED BY <1>1, <2>2, <3>1, <3>2, <3>3, <3>4 DEF Caught, ToList
  <2> QED BY <2>1, <2>2, <2>3 DEF WillStand
<1>12. OutOK' /\ BatchOK'
  BY <1>1, <1>2, <1>5, <1>6 DEF OutOK, BatchOK
<1> QED BY <1>5, <1>7, <1>10, <1>11, <1>12 DEF Sound

(* The listing has every version once, in order *)
LEMMA InOrderCovers ==
    ASSUME NEW S \in SUBSET Versions
    PROVE  /\ InOrder(S) \in Seq(S) /\ Sorted(InOrder(S))
           /\ \A v \in S : \E k \in 1..Len(InOrder(S)) : InOrder(S)[k] = v
<1>1. PICK s, n : s = InOrder(S) /\ n = Cardinality(S)
  OBVIOUS
<1>2. s \in [1..n -> S] /\ Sorted(s)
  BY <1>1, InOrderSorts
<1>3. IsFiniteSet(S) /\ n \in Nat
  BY <1>1, FS_Subset, FS_CardinalityType, IngestionAssumption
<1>4. \A a \in Versions : ~Before(a, a)
  <2>1. \A a \in Versions : a[1] \in Nat /\ a[2] \in Nat
    BY IngestionAssumption
  <2> QED BY <2>1 DEF Before
<1>5. ASSUME NEW j \in 1..n, NEW k \in 1..n, j # k PROVE s[j] # s[k]
  <2>1. j < k \/ k < j
    BY <1>3, <1>5
  <2>2. Before(s[j], s[k]) \/ Before(s[k], s[j])
    BY <1>2, <2>1 DEF Sorted
  <2>3. s[j] \in Versions
    BY <1>2
  <2> QED BY <1>4, <2>2, <2>3
<1>6. s \in Injection(1..n, S)
  BY <1>2, <1>5 DEF Injection, IsInjective
<1>7. Cardinality(1..n) = n
  BY <1>3, FS_Interval
<1>8. s \in Surjection(1..n, S)
  BY <1>1, <1>3, <1>6, <1>7, FS_Injection
<1>9. \A v \in S : \E k \in 1..n : s[k] = v
  BY <1>8 DEF Surjection
<1>10. Len(s) = n /\ s \in Seq(S)
  BY <1>2, <1>3
<1> QED BY <1>1, <1>2, <1>9, <1>10

(* What is still to list is in the page, or after it *)
LEMMA ListsOrLeaves ==
    ASSUME NEW all \in Seq(Versions), Sorted(all), NEW k \in 1..Len(all), NEW v, all[k] = v,
           NEW page, page = IF Len(all) > PageSize THEN SubSeq(all, 1, PageSize) ELSE all,
           v \notin ToSet(page)
    PROVE  /\ Len(all) > PageSize /\ page[PageSize] \in Versions
           /\ Before(page[PageSize], v)
<1>1. PageSize \in Nat \ {0} /\ Len(all) \in Nat
  BY IngestionAssumption
<1>2. CASE Len(all) <= PageSize
  <2>1. page = all
    BY <1>1, <1>2
  <2>2. k \in DOMAIN all /\ all[k] = v
    OBVIOUS
  <2>3. v \in ToSet(all)
    BY <2>2 DEF ToSet
  <2> QED BY <2>1, <2>3
<1>3. CASE Len(all) > PageSize
  <2>1. \A j \in 1..PageSize : all[j] \in Versions
    BY <1>1, <1>3
  <2>2. page = SubSeq(all, 1, PageSize)
    BY <1>3
  <2>3. page \in Seq(Versions) /\ Len(page) = PageSize /\ \A j \in 1..PageSize : page[j] = all[j]
    BY <1>1, <1>3, <2>1, <2>2, SubSeqProperties
  <2>4. k > PageSize
    <3>1. SUFFICES ASSUME k <= PageSize PROVE FALSE
      BY <1>1
    <3>2. k \in 1..PageSize /\ page[k] = v /\ DOMAIN page = 1..PageSize
      BY <1>1, <2>3, <3>1
    <3> QED BY <3>2 DEF ToSet
  <2>5. PageSize \in 1..Len(all) /\ PageSize \in 1..PageSize
    BY <1>1, <1>3
  <2>6. Before(all[PageSize], all[k])
    BY <1>1, <2>4, <2>5 DEF Sorted
  <2> QED BY <1>3, <2>1, <2>3, <2>5, <2>6
<1> QED BY <1>1, <1>2, <1>3

LEMMA GetObjectVersionsListSound ==
    ASSUME Types, Sound, NEW i \in Instances, GetObjectVersionsList(i), UNCHANGED <<config, lists>>
    PROVE  Sound'
<1>1. /\ reader[i].phase = "list"
      /\ UNCHANGED <<src, log, target, dropped, skipped, queue, zkInit, zkOffset>>
  BY DEF GetObjectVersionsList, source, mongo, zk, scanHistory
<1>2. i = Worker /\ W.phase = "list" /\ ~W.snap /\ W.st = zkInit /\ zkInit.exists /\ ~zkInit.done
  BY <1>1, TheWorker DEF Sound, W, BatchOK
<1> DEFINE all == ListedAfter(zkInit)
           truncated == Len(all) > PageSize
           page == IF truncated THEN SubSeq(all, 1, PageSize) ELSE all
           marker == IF truncated THEN page[PageSize] ELSE <<Unset, Unset>>
           next == [exists |-> TRUE, done |-> ~truncated, km |-> marker[1], vm |-> marker[2]]
<1>3. PICK p, st : p = page /\ st = next
  OBVIOUS
<1>4. PICK r : r = [W EXCEPT !.page = p, !.snap = TRUE, !.phase = "metadata", !.st = st]
  OBVIOUS
<1>5. reader' = [reader EXCEPT ![Worker] = r]
  BY <1>2, <1>3, <1>4 DEF GetObjectVersionsList, W
<1>6. W' = r /\ OnlyWorker'
  BY <1>2, <1>5, WorkerMoves DEF Sound
<1>7. /\ r.st = st /\ r.phase = "metadata" /\ r.snap /\ r.cseq = W.cseq /\ r.page = p
      /\ r.offset = W.offset /\ r.ready = W.ready
  BY <1>4, WorkerTypes DEF Readers
<1>8. ZkOrdered' /\ SrcIsLog'
  BY <1>1, <1>6, <1>7 DEF Sound, ZkOrdered, SrcIsLog
<1> DEFINE here == {v \in Versions : src[v] # None}
           after == IF zkInit.vm # Unset /\ zkInit.km # Unset
                    THEN {v \in here : Before(<<zkInit.km, zkInit.vm>>, v)} ELSE here
<1>9. PICK S, s : S = after /\ s = all /\ s = InOrder(S) /\ S \in SUBSET Versions
  BY DEF ListedAfter
<1>10. /\ s \in Seq(S) /\ s \in Seq(Versions) /\ Len(s) \in Nat /\ Sorted(s)
       /\ \A v \in S : \E k \in 1..Len(s) : s[k] = v
  <2> HIDE DEF all, after
  <2>1. s \in Seq(S) /\ Sorted(s) /\ \A v \in S : \E k \in 1..Len(s) : s[k] = v
    BY <1>9, InOrderCovers
  <2>2. s \in Seq(Versions) /\ Len(s) \in Nat
    BY <1>9, <2>1
  <2> QED BY <2>1, <2>2
<1>11. ASSUME NEW v \in Versions, src[v] # None, ToList(zkInit, v)
       PROVE  v \in ToSet(p) \/ ToList(st, v)
  <2>1. v \in S
    BY <1>9, <1>11 DEF ToList
  <2>2. PICK k \in 1..Len(s) : s[k] = v
    BY <1>10, <2>1
  <2>3. p = IF Len(s) > PageSize THEN SubSeq(s, 1, PageSize) ELSE s
    BY <1>3, <1>9
  <2> HIDE DEF all
  <2>4. ASSUME v \notin ToSet(p) PROVE ToList(st, v)
    <3>1. Len(s) > PageSize /\ p[PageSize] \in Versions /\ Before(p[PageSize], v)
      BY <1>10, <2>2, <2>3, <2>4, ListsOrLeaves
    <3>2. truncated /\ marker = p[PageSize]
      BY <1>3, <1>9, <3>1
    <3>3. ~st.done /\ st.km = p[PageSize][1] /\ st.vm = p[PageSize][2]
      BY <1>3, <3>2
    <3>4. p[PageSize] = <<st.km, st.vm>>
      BY <3>1, <3>3, IngestionAssumption
    <3> QED BY <3>1, <3>3, <3>4 DEF ToList
  <2> QED BY <2>4
<1>12. ~st.done => st.km # Unset /\ st.vm # Unset
  <2>1. SUFFICES ASSUME ~st.done PROVE st.km # Unset /\ st.vm # Unset
    OBVIOUS
  <2>2. truncated
    BY <1>3, <2>1
  <2>3. p = SubSeq(s, 1, PageSize) /\ Len(s) > PageSize /\ PageSize \in Nat \ {0}
    BY <1>3, <1>9, <2>2, IngestionAssumption
  <2>4. \A j \in 1..PageSize : s[j] \in Versions
    BY <1>10, <2>3
  <2>5. Len(p) = PageSize /\ \A j \in 1..PageSize : p[j] = s[j]
    BY <1>10, <2>3, <2>4, SubSeqProperties
  <2>6. p[PageSize] \in Versions
    BY <2>3, <2>4, <2>5
  <2>7. st.km = p[PageSize][1] /\ st.vm = p[PageSize][2]
    BY <1>3, <2>2
  <2>8. p[PageSize][1] \in Nat /\ p[PageSize][2] \in Nat
    BY <2>6, IngestionAssumption
  <2> QED BY <2>7, <2>8 DEF Unset
<1> HIDE DEF all, truncated, page, marker, next, here, after
<1>13. PICK was, marks, offs : was = zkInit /\ marks = Marks /\ marks = Marks' /\ offs = Offsets
                               /\ offs = Offsets'
  <2>1. Marks' = Marks /\ Offsets' = Offsets
    BY <1>1, <1>2, <1>6, <1>7 DEF Marks, Offsets
  <2> QED BY <2>1
<1>14. Stands'
  BY <1>1, <1>13, NothingMoves DEF Sound, Stands
<1>15. WillStand'
  <2>1. Progress' = st /\ \A v : Extra(v)' = <<>> /\ (Listed(v)' <=> v \in ToSet(p))
    BY <1>6, <1>7 DEF Progress, Extra, Listed
  <2>2. Progress = was /\ \A v : Extra(v) = <<>> /\ ~Listed(v)
    BY <1>2, <1>13 DEF Progress, Extra, Listed
  <2>3. ASSUME NEW v \in Versions, v \notin ToSet(p) PROVE Caught(v, <<>>, st, offs)'
    <3>1. Caught(v, <<>>, was, offs)
      BY <1>13, <2>2 DEF Sound, WillStand
    <3>2. Caught(v, <<>>, st, offs)
      BY <1>11, <1>13, <2>3, <3>1 DEF Caught
    <3> QED BY <1>1, <3>2, NothingMoves
  <2> QED BY <1>13, <2>1, <2>3 DEF WillStand
<1>16. OutOK' /\ BatchOK'
  BY <1>1, <1>2, <1>6, <1>7, <1>12 DEF OutOK, BatchOK
<1> QED BY <1>6, <1>8, <1>14, <1>15, <1>16 DEF Sound

-----------------------------------------------------------------------------
(* What a batch publishes *)

(* The entries of v that pass the filter *)
Passing(v) == {e \in RawEntries : e.v = v /\ FilterEntry(e)}

(* Of the entries of a version, the first one passes, unless the version comes from
   Zenko                                                                        *)
LEMMA EntriesPass ==
    ASSUME NEW v \in Versions, NEW c \in Contents
    PROVE  /\ Entries(v, c) \in Seq({e \in RawEntries : e.v = v /\ e.c = c})
           /\ ~c.retro => \E x : x.c = c /\ LastIn(Entries(v, c), Passing(v), x)
<1> DEFINE T == {e \in RawEntries : e.v = v /\ e.c = c}
<1>1. PICK a, b : a = Entry(v, c, FALSE) /\ b = Entry(v, c, TRUE)
  OBVIOUS
<1>2. a \in T /\ a.v = v /\ a.c = c /\ ~a.master
  BY <1>1 DEF Entry, RawEntries
<1>3. b.v = v /\ b.c = c /\ b.master /\ (c # None => b \in T)
  BY <1>1 DEF Entry, RawEntries
<1>4. Entries(v, c) = IF c = None THEN <<a>> ELSE IF IsNull(v) THEN <<b>> ELSE <<a, b>>
  BY <1>1, Zenon DEF Entries
<1>5. Entries(v, c) \in Seq(T)
  <2> HIDE DEF T
  <2>1. <<a>> \in Seq(T)
    BY <1>2
  <2>2. c # None => <<b>> \in Seq(T) /\ <<a, b>> \in Seq(T)
    BY <1>2, <1>3
  <2> QED BY <1>4, <2>1, <2>2
<1>6. ASSUME ~c.retro PROVE \E x : x.c = c /\ LastIn(Entries(v, c), Passing(v), x)
  <2>1. c = None \/ ~IsNull(v) => a \in Passing(v)
    BY <1>2, <1>6 DEF Passing, FilterEntry, FilterValueOp, IsRetroPropagationEntry, IsMasterKeyEntry
  <2>2. c # None /\ IsNull(v) => b \in Passing(v)
    BY <1>3, <1>6 DEF Passing, FilterEntry, FilterValueOp, IsRetroPropagationEntry, IsMasterKeyEntry
  <2>3. c # None /\ ~IsNull(v) => b \notin Passing(v)
    BY <1>3, <1>6 DEF Passing, FilterEntry, FilterValueOp, IsRetroPropagationEntry, IsMasterKeyEntry
  <2>4. a \in Passing(v) => LastIn(<<a>>, Passing(v), a)
    BY DEF LastIn
  <2>5. b \in Passing(v) => LastIn(<<b>>, Passing(v), b)
    BY DEF LastIn
  <2>6. a \in Passing(v) /\ b \notin Passing(v) => LastIn(<<a, b>>, Passing(v), a)
    BY DEF LastIn
  <2>7. CASE c = None
    BY <1>2, <1>4, <2>1, <2>4, <2>7
  <2>8. CASE c # None /\ IsNull(v)
    BY <1>3, <1>4, <2>2, <2>5, <2>8
  <2>9. CASE c # None /\ ~IsNull(v)
    BY <1>2, <1>4, <2>1, <2>3, <2>6, <2>9
  <2> QED BY <2>7, <2>8, <2>9
<1> QED BY <1>5, <1>6

(* The last entry of v that passes is the last one published *)
LEMMA LastPublished ==
    ASSUME NEW es \in Seq(RawEntries), NEW v, NEW x, LastIn(es, Passing(v), x)
    PROVE  Of(Filter(es), v) # <<>> /\ Of(Filter(es), v)[Len(Of(Filter(es), v))] = x
<1> DEFINE K == {e \in ToSet(es) : FilterEntry(e)}
           f == Filter(es)
           L == {e \in ToSet(f) : e.v = v}
           o == Of(f, v)
<1>1. x \in Passing(v) /\ x \in ToSet(es)
  BY DEF LastIn, ToSet
<1>2. x \in K /\ \A e \in K : FilterEntry(e)
  BY <1>1 DEF Passing
<1>3. f = Selected(es, K) /\ o = Selected(f, L)
  BY DEF Filter, Of
<1>4. \A e \in L : e.v = v
  OBVIOUS
<1>5. L = {e \in ToSet(f) : e.v = v}
  OBVIOUS
<1> HIDE DEF K, f, L, o
<1>6. f \in Seq(RawEntries \cap K) /\ LastIn(f, Passing(v), x)
  BY <1>2, <1>3, SelectedType, SelectedKeepsLast
<1>7. x \in L
  BY <1>1, <1>5, <1>6 DEF LastIn, ToSet, Passing
<1>8. o \in Seq((RawEntries \cap K) \cap L) /\ LastIn(o, Passing(v), x)
  BY <1>3, <1>6, <1>7, SelectedType, SelectedKeepsLast
<1>9. (RawEntries \cap K) \cap L \subseteq Passing(v)
  BY <1>2, <1>4 DEF Passing
<1>10. PICK q \in Seq(Passing(v)) : q = o
  BY <1>8, <1>9
<1>11. PICK j \in 1..Len(q) : q[j] = x /\ \A k \in (j + 1)..Len(q) : q[k] \notin Passing(v)
  BY <1>8, <1>10 DEF LastIn
<1>12. Len(q) \in Nat /\ \A k \in 1..Len(q) : q[k] \in Passing(v)
  BY <1>10
<1>13. j = Len(q) /\ q # <<>>
  BY <1>11, <1>12
<1> QED BY <1>10, <1>11, <1>13 DEF o, f

(* What is published of v is of the batch *)
LEMMA PublishedOf ==
    ASSUME NEW T, NEW es \in Seq(T), NEW v, Of(es, v) # <<>>
    PROVE  /\ Len(Of(es, v)) \in Nat \ {0}
           /\ \E j \in DOMAIN es : es[j].v = v /\ Of(es, v)[Len(Of(es, v))] = es[j]
<1> DEFINE L == {e \in ToSet(es) : e.v = v}
<1>1. Of(es, v) \in Seq(T \cap L)
  BY SelectedType DEF Of
<1>2. \A e \in L : e.v = v /\ \E j \in DOMAIN es : es[j] = e
  BY DEF ToSet
<1> HIDE DEF L
<1>3. PICK q \in Seq(T \cap L) : q = Of(es, v)
  BY <1>1
<1>4. Len(q) \in Nat \ {0} /\ q[Len(q)] \in L
  BY <1>3
<1> QED BY <1>2, <1>3, <1>4

(* A page is published as it is in the source, but for what comes from Zenko *)
LEMMA PagePublished ==
    ASSUME Types, NEW page \in Seq(Versions),
           NEW out, out = Filter(FlattenSeq([k \in DOMAIN page |-> Entries(page[k], src[page[k]])]))
    PROVE  /\ \A j \in DOMAIN out : out[j].c = src[out[j].v]
           /\ \A v \in ToSet(page) : ~src[v].retro => Of(out, v) # <<>>
<1> DEFINE es == [k \in DOMAIN page |-> Entries(page[k], src[page[k]])]
           T == {e \in RawEntries : e.c = src[e.v]}
           K == {e \in ToSet(FlattenSeq(es)) : FilterEntry(e)}
<1>1. src \in [Versions -> Contents] /\ DOMAIN page = 1..Len(page) /\ Len(page) \in Nat
  BY DEF Types, BucketsOK
<1>2. \A k \in 1..Len(page) : page[k] \in Versions /\ src[page[k]] \in Contents
  BY <1>1
<1>3. ASSUME NEW k \in 1..Len(page) PROVE Entries(page[k], src[page[k]]) \in Seq(T)
  <2>1. PICK v \in Versions, c \in Contents : v = page[k] /\ c = src[v]
    BY <1>2
  <2> DEFINE U == {e \in RawEntries : e.v = v /\ e.c = c}
  <2>2. Entries(v, c) \in Seq(U)
    BY EntriesPass
  <2>3. U \subseteq T
    BY <2>1
  <2> HIDE DEF U, T
  <2>4. Entries(v, c) \in Seq(T)
    BY <2>2, <2>3
  <2> QED BY <2>1, <2>4
<1>4. T \subseteq RawEntries /\ \A e \in T : e.c = src[e.v]
  OBVIOUS
<1> HIDE DEF T
<1>5. es \in Seq(Seq(T)) /\ Len(es) = Len(page) /\ \A k \in 1..Len(page) : es[k] = Entries(page[k], src[page[k]])
  <2>1. es \in [1..Len(page) -> Seq(T)]
    BY <1>1, <1>3
  <2> QED BY <1>1, <2>1
<1> HIDE DEF es
<1>6. FlattenSeq(es) \in Seq(T)
  BY <1>5, FlattenSeqType
<1>7. FlattenSeq(es) \in Seq(RawEntries)
  BY <1>4, <1>6
<1>8. out = Selected(FlattenSeq(es), K) /\ out = Filter(FlattenSeq(es))
  BY DEF Filter, es
<1>9. out \in Seq(T \cap K)
  BY <1>6, <1>8, SelectedType
<1>10. \A j \in DOMAIN out : out[j].c = src[out[j].v]
  <2>1. \A j \in DOMAIN out : out[j] \in T
    BY <1>9
  <2> QED BY <1>4, <2>1
<1>11. ASSUME NEW v \in ToSet(page), ~src[v].retro PROVE Of(out, v) # <<>>
  <2>1. PICK k \in 1..Len(page) : page[k] = v
    BY <1>1 DEF ToSet
  <2>2. v \in Versions /\ src[v] \in Contents /\ es[k] = Entries(v, src[v])
    BY <1>2, <1>5, <2>1
  <2>3. PICK x : LastIn(es[k], Passing(v), x)
    BY <1>11, <2>2, EntriesPass
  <2>4. PICK i \in 1..Len(es[k]) : es[k][i] \in Passing(v)
    BY <2>3 DEF LastIn
  <2>5. PICK j \in 1..Len(FlattenSeq(es)) : FlattenSeq(es)[j] = es[k][i]
    BY <1>5, <2>1, FlattenedHas
  <2>6. PICK y : LastIn(FlattenSeq(es), Passing(v), y)
    BY <1>6, <2>4, <2>5, LastExists
  <2> QED BY <1>7, <1>8, <2>6, LastPublished
<1> QED BY <1>10, <1>11

LEMMA GetBucketObjectsMetadataSound ==
    ASSUME Types, Sound, NEW i \in Instances, GetBucketObjectsMetadata(i), UNCHANGED <<config, lists>>
    PROVE  Sound'
<1>1. /\ reader[i].phase = "metadata"
      /\ UNCHANGED <<src, log, target, dropped, skipped, queue, zkInit, zkOffset>>
  BY DEF GetBucketObjectsMetadata, source, mongo, zk, scanHistory
<1>2. i = Worker /\ W.phase = "metadata" /\ W.snap
  BY <1>1, TheWorker DEF Sound, W, BatchOK
<1> DEFINE es == [k \in DOMAIN W.page |-> Entries(W.page[k], src[W.page[k]])]
<1>3. CASE reader' = [reader EXCEPT ![i] = Rest(@)]
  BY <1>1, <1>2, <1>3, StoppedSound
<1>4. CASE ~(reader' = [reader EXCEPT ![i] = Rest(@)])
  <2>1. PICK out : out = Filter(FlattenSeq(es))
    OBVIOUS
  <2>2. PICK r : r = [W EXCEPT !.phase = "publish", !.next = W.cseq, !.page = <<>>, !.out = out]
    OBVIOUS
  <2>3. reader' = [reader EXCEPT ![Worker] = r] /\ \A v \in ToSet(W.page) : src[v] # None
    BY <1>2, <1>4, <2>1, <2>2 DEF GetBucketObjectsMetadata, W
  <2>4. W' = r /\ OnlyWorker'
    BY <1>2, <2>3, WorkerMoves DEF Sound
  <2>5. /\ r.st = W.st /\ r.phase = "publish" /\ r.snap /\ r.next = W.cseq /\ r.out = out
        /\ r.offset = W.offset /\ r.ready = W.ready
    BY <1>2, <2>2, WorkerTypes DEF Readers
  <2>6. PICK page \in Seq(Versions) : page = W.page
    BY WorkerTypes DEF Readers
  <2>7. /\ \A j \in DOMAIN out : out[j].c = src[out[j].v]
        /\ \A v \in ToSet(page) : ~src[v].retro => Of(out, v) # <<>>
    BY <2>1, <2>6, PagePublished
  <2>8. out \in Seq(PublishedEntries)
    <3>1. /\ Len(page) \in Nat /\ DOMAIN page = 1..Len(page) /\ es = [k \in DOMAIN page |-> Entries(page[k], src[page[k]])]
      BY <2>6
    <3>2. \A k \in 1..Len(page) : page[k] \in Versions /\ src[page[k]] \in Contents
      BY <2>6 DEF Types, BucketsOK
    <3>3. \A k \in 1..Len(page) : Entries(page[k], src[page[k]]) \in Seq(RawEntries)
      BY <3>2, EntriesType
    <3>4. es \in [1..Len(page) -> Seq(RawEntries)]
      BY <3>1, <3>3
    <3> HIDE DEF es
    <3> QED BY <2>1, <3>1, <3>4, FlatType
  <2> HIDE DEF es
  <2>9. ZkOrdered' /\ SrcIsLog'
    BY <1>1, <2>4, <2>5 DEF Sound, ZkOrdered, SrcIsLog
  <2>10. PICK st, marks, offs : st = W.st /\ marks = Marks /\ offs = Offsets
    OBVIOUS
  <2>11. /\ marks = Marks' /\ offs = Offsets' /\ st = Progress /\ st = Progress'
         /\ \A v : Extra(v)' = Of(out, v) /\ Extra(v) = <<>> /\ (Listed(v) <=> v \in ToSet(page))
    <3>1. Marks' = Marks /\ Offsets' = Offsets /\ Progress = W.st /\ Progress' = W.st
      BY <1>1, <1>2, <2>4, <2>5 DEF Marks, Offsets, Progress
    <3>2. \A v : Extra(v)' = Of(out, v) /\ Extra(v) = <<>> /\ (Listed(v) <=> v \in ToSet(page))
      BY <1>2, <2>4, <2>5, <2>6 DEF Extra, Listed, Of
    <3> QED BY <2>10, <3>1, <3>2
  <2>12. Stands'
    BY <1>1, <2>10, <2>11, NothingMoves DEF Sound, Stands
  <2>13. WillStand'
    <3> SUFFICES ASSUME NEW v \in Versions PROVE Caught(v, Extra(v), Progress, Offsets)'
      BY DEF WillStand
    <3>1. CASE Of(out, v) # <<>>
      <4>1. PICK q : q = Of(out, v)
        OBVIOUS
      <4>2. q[Len(q)].c = src[v]
        BY <2>7, <2>8, <3>1, <4>1, PublishedOf
      <4>3. Final(v, q)' = src'[v]
        BY <1>1, <3>1, <4>1, <4>2 DEF Final
      <4>4. Caught(v, q, st, offs)'
        BY <4>3 DEF Caught
      <4> QED BY <2>11, <4>1, <4>4
    <3>2. CASE Of(out, v) = <<>> /\ v \in ToSet(page)
      <4>1. src[v] # None /\ src[v].retro
        BY <2>3, <2>6, <2>7, <3>2
      <4>2. Caught(v, <<>>, st, offs)'
        BY <1>1, <4>1 DEF Caught
      <4> QED BY <2>11, <3>2, <4>2
    <3>3. CASE Of(out, v) = <<>> /\ v \notin ToSet(page)
      <4>1. Caught(v, <<>>, st, offs)
        BY <2>10, <2>11, <3>3 DEF Sound, WillStand
      <4>2. Caught(v, <<>>, st, offs)'
        BY <1>1, <4>1, NothingMoves
      <4> QED BY <2>11, <3>3, <4>2
    <3> QED BY <3>1, <3>2, <3>3
  <2>14. OutOK'
    BY <1>1, <2>4, <2>5, <2>7 DEF OutOK
  <2>15. BatchOK'
    BY <1>1, <1>2, <2>4, <2>5 DEF Sound, BatchOK
  <2> QED BY <2>4, <2>9, <2>12, <2>13, <2>14, <2>15 DEF Sound
<1> QED BY <1>3, <1>4

-----------------------------------------------------------------------------
(* A batch of the log *)

(* The records read, from start to before n *)
LEMMA RecordsRead ==
    ASSUME Types, NEW start \in 1..(Len(log) + 1)
    PROVE  /\ RaftRecords(start) \in Seq(Records) /\ Len(RaftRecords(start)) \in Nat
           /\ start + Len(RaftRecords(start)) <= Len(log) + 1
           /\ \A j \in 1..Len(RaftRecords(start)) :
                start + j - 1 \in 1..Len(log) /\ RaftRecords(start)[j] = log[start + j - 1]
<1> DEFINE end == IF start + MaxRead - 1 < Len(log) THEN start + MaxRead - 1 ELSE Len(log)
<1>1. log \in Seq(Records) /\ Len(log) \in Nat /\ MaxRead \in Nat \ {0} /\ start \in Nat
  BY IngestionAssumption DEF Types, BucketsOK
<1>2. end \in Nat /\ end <= Len(log) /\ start <= end + 1
  BY <1>1
<1>3. RaftRecords(start) = SubSeq(log, start, end)
  BY DEF RaftRecords
<1> HIDE DEF end
<1>4. \A k \in start..end : log[k] \in Records
  BY <1>1, <1>2
<1>5. Len(SubSeq(log, start, end)) = IF start <= end THEN end - start + 1 ELSE 0
  BY <1>1, <1>2, <1>4, SubSeqProperties
<1>6. \A j \in 1..(end - start + 1) : SubSeq(log, start, end)[j] = log[start + j - 1]
  BY <1>1, <1>2, <1>4, SubSeqProperties
<1>7. \A j \in 1..(end - start + 1) : start + j - 1 \in 1..Len(log)
  BY <1>1, <1>2
<1>8. PICK n \in Nat : n = Len(RaftRecords(start)) /\ n <= end - start + 1
  <2>1. PICK n : n = end - start + 1
    OBVIOUS
  <2>2. n \in Nat /\ n <= end - start + 1 /\ n = IF start <= end THEN end - start + 1 ELSE 0
    BY <1>1, <1>2, <2>1
  <2>3. n = Len(SubSeq(log, start, end))
    BY <1>5, <2>2, Zenon
  <2> QED BY <1>3, <2>2, <2>3, Zenon
<1>9. \A j \in 1..n : start + j - 1 \in 1..Len(log) /\ RaftRecords(start)[j] = log[start + j - 1]
  <2> SUFFICES ASSUME NEW j \in 1..n
               PROVE  start + j - 1 \in 1..Len(log) /\ RaftRecords(start)[j] = log[start + j - 1]
    OBVIOUS
  <2>1. j \in 1..(end - start + 1)
    BY <1>1, <1>2, <1>8
  <2> QED BY <1>3, <1>6, <1>7, <2>1
<1>10. start + n <= Len(log) + 1
  BY <1>1, <1>2, <1>8
<1>11. RaftRecords(start) \in Seq(Records)
  BY <1>1, RaftRecordsType
<1> QED BY <1>8, <1>9, <1>10, <1>11

(* The last record of a version, when none is left to read, is the source's *)
LEMMA LastRecordRead ==
    ASSUME Types, SrcIsLog, NEW start \in 1..(Len(log) + 1), NEW v \in Versions,
           Due(v, start), ~Due(v, start + Len(RaftRecords(start)))
    PROVE  \E rec \in Records :
              /\ LastIn(RaftRecords(start), {x \in Records : x.v = v}, rec) /\ src[v] = rec.c
<1> DEFINE V == {x \in Records : x.v = v}
<1>1. PICK read, n : read = RaftRecords(start) /\ n = Len(read)
  OBVIOUS
<1>2. /\ read \in Seq(Records) /\ n \in Nat /\ start + n <= Len(log) + 1 /\ Len(log) \in Nat
      /\ start \in Nat \ {0}
      /\ \A j \in 1..n : start + j - 1 \in 1..Len(log) /\ read[j] = log[start + j - 1]
  <2>1. Len(log) \in Nat /\ start \in Nat \ {0}
    BY WorkerTypes
  <2>2. /\ RaftRecords(start) \in Seq(Records) /\ Len(RaftRecords(start)) \in Nat
        /\ start + Len(RaftRecords(start)) <= Len(log) + 1
        /\ \A j \in 1..Len(RaftRecords(start)) :
                start + j - 1 \in 1..Len(log) /\ RaftRecords(start)[j] = log[start + j - 1]
    BY RecordsRead
  <2> QED BY <1>1, <2>1, <2>2
<1>3. PICK k \in 1..Len(log) : log[k].v = v /\ start <= k
  BY <1>2 DEF Due, Types, BucketsOK
<1>4. \A j \in 1..Len(log) : log[j].v = v => j < start + n
  BY <1>1, <1>2 DEF Due, Types, BucketsOK
<1>5. k < start + n
  BY <1>3, <1>4
<1>6. k - start + 1 \in 1..n /\ start + (k - start + 1) - 1 = k
  BY <1>2, <1>3, <1>5
<1>7. read[k - start + 1] \in V
  <2>1. PICK j \in 1..n : j = k - start + 1 /\ start + j - 1 = k
    BY <1>6
  <2>2. read[j] = log[k] /\ read[j] \in Records
    BY <1>1, <1>2, <2>1
  <2> QED BY <1>3, <2>1, <2>2
<1>8. PICK rec \in Records : LastIn(read, V, rec)
  <2> HIDE DEF V
  <2> QED BY <1>1, <1>2, <1>6, <1>7, LastExists
<1>9. PICK j \in 1..n : read[j] = rec /\ rec \in V /\ \A m \in (j + 1)..n : read[m] \notin V
  <2> HIDE DEF V
  <2> QED BY <1>1, <1>8 DEF LastIn
<1>10. PICK l \in 1..Len(log) : l = start + j - 1 /\ log[l] = rec /\ rec.v = v
  BY <1>2, <1>9
<1>11. ASSUME NEW m \in (l + 1)..Len(log) PROVE log[m].v # v
  <2>1. SUFFICES ASSUME log[m].v = v PROVE FALSE
    OBVIOUS
  <2>2. m \in 1..Len(log) /\ m < start + n
    BY <1>2, <1>4, <1>10, <2>1
  <2>3. m - start + 1 \in (j + 1)..n /\ m - start + 1 \in 1..n /\ start + (m - start + 1) - 1 = m
    BY <1>2, <1>10, <2>2
  <2>4. read[m - start + 1] = log[m]
    BY <1>2, <2>3
  <2>5. read[m - start + 1] \in Records
    BY <1>1, <1>2, <2>3
  <2> QED BY <1>9, <2>1, <2>3, <2>4, <2>5
<1>12. src[v] = rec.c
  BY <1>10, <1>11 DEF SrcIsLog, Types, BucketsOK
<1> QED BY <1>1, <1>8, <1>12

(* What is published was due, and what is no longer due was published, but for what
   comes from Zenko                                                             *)
PublishesLog(out, start, next) ==
    /\ out \in Seq(PublishedEntries)
    /\ \A j \in DOMAIN out : Due(out[j].v, start)
    /\ \A v \in Versions : Due(v, start) /\ ~Due(v, next) =>
          src[v].retro \/ (Of(out, v) # <<>> /\ Of(out, v)[Len(Of(out, v))].c = src[v])

LEMMA LogPublished ==
    ASSUME Types, SrcIsLog, NEW start \in 1..(Len(log) + 1),
           NEW read, read = RaftRecords(start),
           NEW out, out = LogEntries(read)
    PROVE  PublishesLog(out, start, start + Len(read))
<1> DEFINE mine == Selected(read, {rec \in ToSet(read) : rec.v # Other})
           es == [k \in DOMAIN mine |-> Entries(mine[k].v, mine[k].c)]
           M == {rec \in Records : rec.v # Other /\ Due(rec.v, start)}
           T == {e \in RawEntries : Due(e.v, start)}
           K == {e \in ToSet(FlattenSeq(es)) : FilterEntry(e)}
           R == {rec \in ToSet(read) : rec.v # Other}
<1>0. out = Filter(FlattenSeq(es))
  BY Zenon DEF LogEntries
<1>1. /\ read \in Seq(Records) /\ Len(read) \in Nat /\ start \in Nat \ {0} /\ Len(log) \in Nat
      /\ \A j \in 1..Len(read) : start + j - 1 \in 1..Len(log) /\ read[j] = log[start + j - 1]
  <2>1. Len(log) \in Nat /\ start \in Nat \ {0}
    BY WorkerTypes
  <2>2. /\ RaftRecords(start) \in Seq(Records) /\ Len(RaftRecords(start)) \in Nat
        /\ \A j \in 1..Len(RaftRecords(start)) :
                start + j - 1 \in 1..Len(log) /\ RaftRecords(start)[j] = log[start + j - 1]
    BY RecordsRead
  <2> QED BY <2>1, <2>2
<1>2. ASSUME NEW rec \in ToSet(read) PROVE rec \in Records /\ Due(rec.v, start)
  <2>0. DOMAIN read = 1..Len(read)
    BY <1>1
  <2>1. PICK j \in 1..Len(read) : read[j] = rec
    BY <1>2, <2>0 DEF ToSet
  <2>2. rec \in Records
    BY <1>1, <2>1
  <2>3. log[start + j - 1] = rec /\ start + j - 1 \in DOMAIN log /\ start <= start + j - 1
    BY <1>1, <2>1 DEF Types, BucketsOK
  <2> QED BY <2>2, <2>3 DEF Due
<1>3. mine \in Seq(Records \cap R) /\ mine = Selected(read, R)
  <2> HIDE DEF R
  <2> QED BY <1>1, SelectedType DEF R
<1> HIDE DEF mine
<1>4. Records \cap R \subseteq M
  BY <1>2
<1>5. mine \in Seq(M) /\ Len(mine) \in Nat /\ DOMAIN mine = 1..Len(mine)
  <2> HIDE DEF M, R
  <2> QED BY <1>3, <1>4
<1>6. \A k \in 1..Len(mine) : /\ mine[k] \in Records /\ mine[k].v \in Versions /\ mine[k].c \in Contents
                              /\ Due(mine[k].v, start)
  <2>1. \A k \in 1..Len(mine) : mine[k] \in M
    <3> HIDE DEF M
    <3> QED BY <1>5
  <2> QED BY <2>1 DEF Records
<1> HIDE DEF M, R
<1>7. ASSUME NEW k \in 1..Len(mine) PROVE Entries(mine[k].v, mine[k].c) \in Seq(T)
  <2>1. PICK v \in Versions, c \in Contents : v = mine[k].v /\ c = mine[k].c /\ Due(v, start)
    BY <1>6
  <2> DEFINE U == {e \in RawEntries : e.v = v /\ e.c = c}
  <2>2. Entries(v, c) \in Seq(U)
    BY EntriesPass
  <2>3. U \subseteq T
    BY <2>1
  <2> HIDE DEF U, T
  <2>4. Entries(v, c) \in Seq(T)
    BY <2>2, <2>3
  <2> QED BY <2>1, <2>4
<1>8. T \subseteq RawEntries /\ \A e \in T : Due(e.v, start)
  OBVIOUS
<1> HIDE DEF T
<1>9. /\ es \in Seq(Seq(T)) /\ Len(es) = Len(mine)
      /\ \A k \in 1..Len(mine) : es[k] = Entries(mine[k].v, mine[k].c)
  <2>1. es \in [1..Len(mine) -> Seq(T)]
    BY <1>5, <1>7
  <2> QED BY <1>5, <2>1
<1> HIDE DEF es
<1>10. FlattenSeq(es) \in Seq(T)
  BY <1>9, FlattenSeqType
<1>11. FlattenSeq(es) \in Seq(RawEntries)
  BY <1>8, <1>10
<1>12. out = Selected(FlattenSeq(es), K) /\ out = Filter(FlattenSeq(es))
  BY <1>0 DEF Filter
<1>13. out \in Seq(T \cap K) /\ out \in Seq(PublishedEntries)
  BY <1>10, <1>11, <1>12, SelectedType, FilterType
<1>14. \A j \in DOMAIN out : Due(out[j].v, start)
  <2>1. \A j \in DOMAIN out : out[j] \in T
    BY <1>13
  <2> QED BY <1>8, <2>1
<1>15. ASSUME NEW v \in Versions, Due(v, start), ~Due(v, start + Len(read)), ~src[v].retro
       PROVE  Of(out, v) # <<>> /\ Of(out, v)[Len(Of(out, v))].c = src[v]
  <2> DEFINE V == {x \in Records : x.v = v}
  <2>1. PICK rec \in Records : LastIn(read, V, rec) /\ src[v] = rec.c
    BY <1>15, LastRecordRead
  <2>2. rec \in R /\ rec.v = v
    <3>1. rec \in V /\ rec \in ToSet(read)
      <4> HIDE DEF V
      <4> QED BY <2>1 DEF LastIn, ToSet
    <3> QED BY <3>1, NoneTypes DEF R
  <2>3. LastIn(mine, V, rec)
    <3> HIDE DEF V
    <3> QED BY <1>1, <1>3, <2>1, <2>2, SelectedKeepsLast
  <2>4. PICK j \in 1..Len(mine) : mine[j] = rec /\ \A m \in (j + 1)..Len(mine) : mine[m] \notin V
    <3> HIDE DEF V
    <3> QED BY <2>3 DEF LastIn
  <2>5. rec.v = v /\ rec.c = src[v] /\ rec.c \in Contents /\ es[j] = Entries(v, src[v])
    BY <1>6, <1>9, <2>1, <2>2, <2>4
  <2>6. PICK x : x.c = src[v] /\ LastIn(es[j], Passing(v), x)
    BY <1>15, <2>5, EntriesPass
  <2>7. ASSUME NEW m \in (j + 1)..Len(mine), NEW a \in 1..Len(es[m]) PROVE es[m][a] \notin Passing(v)
    <3>1. m \in 1..Len(mine)
      BY <1>5, <2>4
    <3>2. mine[m].v # v
      BY <1>6, <2>4, <3>1
    <3>3. PICK u \in Versions, c \in Contents : u = mine[m].v /\ c = mine[m].c
      BY <1>6, <3>1
    <3> DEFINE U == {e \in RawEntries : e.v = u /\ e.c = c}
    <3>4. es[m] = Entries(u, c)
      BY <1>9, <3>1, <3>3
    <3>5. es[m] \in Seq(U)
      BY <3>4, EntriesPass
    <3>6. es[m][a] \in U
      <4> HIDE DEF U
      <4> QED BY <3>5
    <3> QED BY <3>2, <3>3, <3>6 DEF Passing
  <2>8. LastIn(FlattenSeq(es), Passing(v), x)
    BY <1>9, <2>6, <2>7, FlattenedLast
  <2> QED BY <1>11, <1>12, <2>6, <2>8, LastPublished
<1> QED BY <1>13, <1>14, <1>15 DEF PublishesLog

LEMMA ProcessReadRecordsSound ==
    ASSUME Types, Sound, NEW i \in Instances, ProcessReadRecords(i), UNCHANGED <<config, lists>>
    PROVE  Sound'
<1>1. /\ reader[i].phase = "log" /\ reader[i].ready = "yes"
      /\ UNCHANGED <<src, log, target, dropped, skipped, queue, zkInit, zkOffset>>
  BY DEF ProcessReadRecords, source, mongo, zk, scanHistory
<1>2. i = Worker /\ W.phase = "log" /\ ~W.snap /\ zkInit.done /\ zkOffset <= W.offset
  BY <1>1, TheWorker DEF Sound, W, BatchOK, ZkOrdered
<1>3. W.offset \in 1..(Len(log) + 1) /\ Len(log) \in Nat
  <2>1. W.offset # 0 /\ W.offset \in 0..(Len(log) + 1) /\ Len(log) \in Nat
    BY <1>1, <1>2, WorkerTypes DEF ReaderOK, Readers, W
  <2> QED BY <2>1
<1>4. PICK start \in 1..(Len(log) + 1) : start = W.offset
  BY <1>3
<1>5. PICK read : read = RaftRecords(start)
  OBVIOUS
<1>7. PICK out : out = LogEntries(read)
  OBVIOUS
<1>8. /\ out \in Seq(PublishedEntries)
      /\ \A j \in DOMAIN out : Due(out[j].v, start)
      /\ \A v \in Versions : Due(v, start) /\ ~Due(v, start + Len(read)) =>
            src[v].retro \/ (Of(out, v) # <<>> /\ Of(out, v)[Len(Of(out, v))].c = src[v])
  <2>1. SrcIsLog
    BY DEF Sound
  <2>2. PublishesLog(out, start, start + Len(read))
    BY <1>5, <1>7, <2>1, LogPublished
  <2> QED BY <2>2 DEF PublishesLog
<1>9. PICK next, more : /\ next = IF start > Len(log) THEN 0 ELSE NextLogOffset(start, Len(read))
                        /\ more = (start <= Len(log) /\ start + Len(read) <= Len(log))
  OBVIOUS
<1>10. PICK r : r = [W EXCEPT !.phase = "publish", !.out = out, !.next = next, !.more = more]
  OBVIOUS
<1>11. reader' = [reader EXCEPT ![Worker] = r]
  <2>1. reader' = [reader EXCEPT
            ![i].phase = "publish",
            ![i].out = LogEntries(RaftRecords(reader[i].offset)),
            ![i].next = IF reader[i].offset > Len(log) THEN 0
                        ELSE NextLogOffset(reader[i].offset, Len(RaftRecords(reader[i].offset))),
            ![i].more = /\ reader[i].offset <= Len(log)
                        /\ reader[i].offset + Len(RaftRecords(reader[i].offset)) <= Len(log)]
    BY DEF ProcessReadRecords
  <2>2. reader[i].offset = start /\ RaftRecords(reader[i].offset) = read /\ LogEntries(read) = out
    BY <1>2, <1>4, <1>5, <1>7 DEF W
  <2>3. reader' = [reader EXCEPT ![i].phase = "publish", ![i].out = out, ![i].next = next, ![i].more = more]
    BY <1>9, <2>1, <2>2
  <2> QED BY <1>2, <1>10, <2>3 DEF W
<1>12. W' = r /\ OnlyWorker'
  BY <1>2, <1>11, WorkerMoves DEF Sound
<1>13. /\ r.st = W.st /\ r.phase = "publish" /\ r.snap = W.snap /\ r.next = next /\ r.out = out
       /\ r.offset = W.offset /\ r.ready = W.ready
  BY <1>10, WorkerTypes DEF Readers
<1>14. ZkOrdered' /\ SrcIsLog'
  BY <1>1, <1>12, <1>13 DEF Sound, ZkOrdered, SrcIsLog
<1>15. PICK st, marks, offs : st = zkInit /\ marks = Marks /\ marks = Marks' /\ offs = marks \cup {next}
  BY <1>1, <1>12, <1>13 DEF Marks
<1>16. /\ Progress' = st /\ offs = Offsets'
       /\ \A v : Extra(v)' = Of(out, v) /\ ~Listed(v)'
  BY <1>1, <1>2, <1>12, <1>13, <1>15 DEF Progress, Offsets, Extra, Listed
<1>17. \A v : Due(v, start) => \A o \in marks : Due(v, o)
  <2>1. zkOffset \in Int /\ start \in Int /\ marks = {zkOffset, start} /\ zkOffset <= start
    BY <1>2, <1>4, <1>15, OffsetTypes DEF Marks
  <2> QED BY <2>1, LowerDue
<1>18. \A v : (\A o \in marks : Due(v, o)) => Due(v, start)
  BY <1>4, <1>15 DEF Marks
<1>19. \A v : Due(v, start) /\ ~Due(v, next) => ~Due(v, start + Len(read))
  <2>1. next = 0 \/ next = start + Len(read)
    BY <1>9 DEF NextLogOffset
  <2>2. \A v : Due(v, start) => Due(v, 0)
    BY LowerDue
  <2> QED BY <2>1, <2>2
<1>20. Stands'
  BY <1>1, <1>15, NothingMoves DEF Sound, Stands
<1>21. WillStand'
  <2> SUFFICES ASSUME NEW v \in Versions PROVE Caught(v, Extra(v), Progress, Offsets)'
    BY DEF WillStand
  <2>1. PICK q : q = Of(out, v)
    OBVIOUS
  <2>2. CASE Due(v, start) /\ ~Due(v, next)
    <3>1. src[v].retro \/ (q # <<>> /\ q[Len(q)].c = src[v])
      BY <1>8, <1>19, <2>1, <2>2
    <3>2. src[v].retro => src[v] # None
      BY DEF None
    <3>3. q # <<>> /\ q[Len(q)].c = src[v] => Final(v, q) = src[v]
      BY DEF Final
    <3>4. Caught(v, q, st, offs)
      BY <3>1, <3>2, <3>3 DEF Caught
    <3>5. Caught(v, q, st, offs)'
      BY <1>1, <3>4, NothingMoves
    <3> QED BY <1>16, <2>1, <3>5
  <2>3. CASE ~(Due(v, start) /\ ~Due(v, next)) /\ q # <<>>
    <3>1. Due(v, start)
      BY <1>8, <2>1, <2>3, PublishedOf
    <3>2. \A o \in offs : Due(v, o)
      BY <1>15, <1>17, <2>3, <3>1
    <3>3. Caught(v, q, st, offs)
      BY <3>2 DEF Caught
    <3>4. Caught(v, q, st, offs)'
      BY <1>1, <3>3, NothingMoves
    <3> QED BY <1>16, <2>1, <3>4
  <2>4. CASE ~(Due(v, start) /\ ~Due(v, next)) /\ q = <<>>
    <3>1. Caught(v, <<>>, st, marks)
      BY <1>15 DEF Sound, Stands
    <3>2. (\A o \in marks : Due(v, o)) => \A o \in offs : Due(v, o)
      BY <1>15, <1>18, <2>4
    <3>3. Caught(v, <<>>, st, offs)
      BY <3>1, <3>2, FewerOffsets
    <3>4. Caught(v, <<>>, st, offs)'
      BY <1>1, <3>3, NothingMoves
    <3> QED BY <1>16, <2>1, <2>4, <3>4
  <2> QED BY <2>2, <2>3, <2>4
<1>22. OutOK'
  <2>1. \A v, o : Due(v, o) => Due(v, o)'
    BY <1>1 DEF Due
  <2>2. \A j \in DOMAIN out : \A o \in marks : Due(out[j].v, o)'
    BY <1>8, <1>17, <2>1
  <2> QED BY <1>12, <1>13, <1>15, <2>2 DEF OutOK
<1>23. BatchOK'
  BY <1>2, <1>12, <1>13 DEF BatchOK
<1> QED BY <1>12, <1>14, <1>20, <1>21, <1>22, <1>23 DEF Sound

-----------------------------------------------------------------------------
(* The entries are published *)

LEMMA PublishedCaught ==
    ASSUME Types, NEW es \in Seq(PublishedEntries), queue' = Published(es),
           UNCHANGED <<src, log, target, dropped, skipped, config>>,
           NEW v \in Versions, NEW more, more = Of(es, v), NEW st, NEW offs, Caught(v, more, st, offs)
    PROVE  Caught(v, <<>>, st, offs)'
<1> DEFINE L == {e \in ToSet(es) : e.v = v}
           P == {e \in PublishedEntries : e.v = v}
<1>1. more \in Seq(PublishedEntries \cap L)
  BY SelectedType DEF Of
<1>2. PICK m \in Seq(PublishedEntries) : m = more
  <2> HIDE DEF L
  <2> QED BY <1>1
<1>3. PICK q \in Seq(PublishedEntries) : q = queue[v]
  <2>1. P \subseteq PublishedEntries /\ queue[v] \in Seq(P)
    BY DEF Types, TopicOK
  <2> HIDE DEF P
  <2> QED BY <2>1
<1>4. queue'[v] = q \o m
  BY <1>2, <1>3 DEF Published, Of
<1>5. m = <<>> => q \o m = q
  OBVIOUS
<1>6. m # <<>> => q \o m # <<>> /\ (q \o m)[Len(q \o m)] = m[Len(m)]
  OBVIOUS
<1>7. (Known(v, <<>>)' <=> Known(v, more)) /\ Final(v, <<>>)' = Final(v, more)
  <2>1. CASE m = <<>>
    BY <1>2, <1>3, <1>4, <1>5, <2>1 DEF Known, Final
  <2>2. CASE m # <<>>
    BY <1>2, <1>4, <1>6, <2>2 DEF Known, Final
  <2> QED BY <2>1, <2>2
<1>8. \A o : Due(v, o) => Due(v, o)'
  BY DEF Due
<1> QED BY <1>7, <1>8 DEF Caught, ToList

(* Whatever part of the batch is published, what stands will stand *)
LEMMA PublishedStands ==
    ASSUME Types, Stands, NEW es \in Seq(PublishedEntries), queue' = Published(es),
           UNCHANGED <<src, log, target, dropped, skipped, config, zkInit>>, Marks' = Marks,
           \A j \in DOMAIN es : es[j].c = src[es[j].v] \/ \A o \in Marks : Due(es[j].v, o)
    PROVE  Stands'
<1>1. PICK st, marks : st = zkInit /\ marks = Marks
  OBVIOUS
<1>2. ASSUME NEW v \in Versions PROVE Caught(v, <<>>, st, marks)'
  <2>1. PICK more : more = Of(es, v)
    OBVIOUS
  <2>2. CASE more = <<>>
    <3>1. Caught(v, more, st, marks)
      BY <1>1, <2>2 DEF Stands
    <3> QED BY <2>1, <3>1, PublishedCaught
  <2>3. CASE more # <<>>
    <3>1. PICK j \in DOMAIN es : es[j].v = v /\ more[Len(more)] = es[j]
      BY <2>1, <2>3, PublishedOf
    <3>2. Final(v, more) = es[j].c
      BY <2>3, <3>1 DEF Final
    <3>3. Caught(v, more, st, marks)
      BY <1>1, <3>1, <3>2 DEF Caught
    <3> QED BY <2>1, <3>3, PublishedCaught
  <2> QED BY <2>2, <2>3
<1> QED BY <1>1, <1>2 DEF Stands

LEMMA PublishEntriesSound ==
    ASSUME Types, Sound, NEW i \in Instances, PublishEntries(i), UNCHANGED <<config, lists>>
    PROVE  Sound'
<1>1. /\ reader[i].phase = "publish" /\ queue' = Published(reader[i].out)
      /\ UNCHANGED <<src, log, target, dropped, skipped, zkInit, zkOffset>>
  BY DEF PublishEntries, source, mongo, zk, scanHistory
<1>2. i = Worker /\ W.phase = "publish"
  BY <1>1, TheWorker DEF Sound, W
<1>3. PICK es \in Seq(PublishedEntries) : es = W.out
  BY WorkerTypes DEF Readers
<1>4. queue' = Published(es)
  BY <1>1, <1>2, <1>3 DEF W
<1>5. PICK r : r = [W EXCEPT !.phase = "state", !.out = <<>>, !.cseq = Unset]
  OBVIOUS
<1>6. reader' = [reader EXCEPT ![Worker] = r]
  BY <1>2, <1>5 DEF PublishEntries, W
<1>7. W' = r /\ OnlyWorker'
  BY <1>2, <1>6, WorkerMoves DEF Sound
<1>8. /\ r.st = W.st /\ r.phase = "state" /\ r.snap = W.snap /\ r.next = W.next
      /\ r.offset = W.offset /\ r.ready = W.ready
  BY <1>5, WorkerTypes DEF Readers
<1>9. ZkOrdered' /\ SrcIsLog'
  BY <1>1, <1>7, <1>8 DEF Sound, ZkOrdered, SrcIsLog
<1>10. Marks' = Marks
  BY <1>1, <1>7, <1>8 DEF Marks
<1>11. Stands'
  BY <1>1, <1>2, <1>3, <1>4, <1>10, PublishedStands DEF Sound, OutOK
<1>12. PICK st, offs : st = Progress /\ st = Progress' /\ offs = Offsets /\ offs = Offsets'
  <2>1. Progress' = Progress
    BY <1>1, <1>2, <1>7, <1>8 DEF Progress
  <2>2. Offsets' = Offsets
    BY <1>2, <1>7, <1>8, <1>10 DEF Offsets
  <2> QED BY <2>1, <2>2
<1>13. WillStand'
  <2>1. \A v : Extra(v)' = <<>> /\ Extra(v) = Of(es, v) /\ ~Listed(v)
    BY <1>2, <1>3, <1>7, <1>8 DEF Extra, Listed
  <2>2. ASSUME NEW v \in Versions PROVE Caught(v, <<>>, st, offs)'
    <3>1. PICK more : more = Of(es, v)
      OBVIOUS
    <3>2. Caught(v, more, st, offs)
      BY <1>12, <2>1, <3>1 DEF Sound, WillStand
    <3> QED BY <1>1, <1>4, <3>1, <3>2, PublishedCaught
  <2> QED BY <1>12, <2>1, <2>2 DEF WillStand
<1>14. OutOK' /\ BatchOK'
  BY <1>1, <1>2, <1>7, <1>8 DEF Sound, OutOK, BatchOK
<1> QED BY <1>7, <1>9, <1>11, <1>13, <1>14 DEF Sound

LEMMA PublishFailsSound ==
    ASSUME Types, Sound, NEW i \in Instances, PublishFails(i), UNCHANGED <<config, lists>>
    PROVE  Sound'
<1>1. /\ reader[i].phase = "publish" /\ reader' = [reader EXCEPT ![i] = Rest(@)]
      /\ UNCHANGED <<src, log, target, dropped, skipped, zkInit, zkOffset>>
  BY DEF PublishFails, source, mongo, zk, scanHistory
<1>2. i = Worker /\ W.phase = "publish"
  BY <1>1, TheWorker DEF Sound, W
<1>3. PICK out \in Seq(PublishedEntries) : out = W.out
  BY WorkerTypes DEF Readers
<1>4. PICK n \in 0..Len(out) : queue' = Published(SubSeq(out, 1, n))
  BY <1>2, <1>3 DEF PublishFails, W
<1>5. PICK es : es = SubSeq(out, 1, n)
  OBVIOUS
<1>6. es \in Seq(PublishedEntries) /\ \A j \in DOMAIN es : j \in DOMAIN out /\ es[j] = out[j]
  <2>1. n \in Nat /\ Len(out) \in Nat /\ \A k \in 1..n : out[k] \in PublishedEntries
    BY <1>3, <1>4
  <2>2. es \in Seq(PublishedEntries) /\ Len(es) = n /\ \A j \in 1..n : es[j] = out[j]
    BY <1>5, <2>1, SubSeqProperties
  <2> QED BY <1>4, <2>1, <2>2
<1>7. /\ W'.phase = "idle" /\ ~W'.snap /\ W'.cseq = Unset
      /\ W'.ready = W.ready /\ W'.offset = W.offset /\ OnlyWorker'
  BY <1>1, <1>2, WorkerRests
<1>8. Marks' = Marks
  BY <1>1, <1>7 DEF Marks
<1>9. \A j \in DOMAIN es : es[j].c = src[es[j].v] \/ \A o \in Marks : Due(es[j].v, o)
  BY <1>2, <1>3, <1>6 DEF Sound, OutOK
<1>10. Stands'
  BY <1>1, <1>4, <1>5, <1>6, <1>8, <1>9, PublishedStands DEF Sound
<1>11. SrcIsLog' /\ ZkOrdered'
  BY <1>1, <1>7 DEF Sound, SrcIsLog, ZkOrdered
<1> QED BY <1>7, <1>10, <1>11, AtRest

-----------------------------------------------------------------------------
(* The state of the snapshot, and the offset, are saved *)

(* What will stand does, once the topic has the batch *)
LEMMA WillStandThen ==
    ASSUME Sound, W.phase \in {"state", "offset"}, NEW v \in Versions, NEW offs,
           (\A o \in Offsets : Due(v, o)) => \A o \in offs : Due(v, o)
    PROVE  Caught(v, <<>>, Progress, offs)
<1>1. Extra(v) = <<>> /\ ~Listed(v)
  BY DEF Extra, Listed
<1>2. PICK more, st, from : more = Extra(v) /\ st = Progress /\ from = Offsets
  OBVIOUS
<1>3. Caught(v, more, st, from)
  BY <1>1, <1>2 DEF Sound, WillStand
<1>4. Caught(v, more, st, offs)
  BY <1>2, <1>3, FewerOffsets
<1> QED BY <1>1, <1>2, <1>4

LEMMA SavedLists ==
    ASSUME NEW st \in States, ~st.done => st.km # Unset /\ st.vm # Unset
    PROVE  /\ Saved(st).exists /\ Saved(st).km # Unset /\ Saved(st).vm # Unset
           /\ Saved(st).done = st.done
           /\ ~st.done => Saved(st).km = st.km /\ Saved(st).vm = st.vm
<1>1. NullKey # Unset /\ 0 # Unset
  BY IngestionAssumption DEF Unset
<1> QED BY <1>1 DEF Saved

LEMMA WriteInitStateSound ==
    ASSUME Types, Sound, NEW i \in Instances, WriteInitState(i), UNCHANGED <<config, lists>>
    PROVE  Sound'
<1>1. /\ reader[i].phase = "state"
      /\ UNCHANGED <<src, log, target, dropped, skipped, queue, zkOffset>>
  BY DEF WriteInitState, source, mongo, scanHistory
<1>2. i = Worker /\ W.phase = "state"
  BY <1>1, TheWorker DEF Sound, W
<1>3. CASE W.snap /\ ~zkInit.exists
  BY <1>1, <1>2, <1>3, StoppedSound DEF WriteInitState, W
<1>4. CASE ~(W.snap /\ ~zkInit.exists)
  <2>1. PICK r : r = [W EXCEPT !.phase = "offset"]
    OBVIOUS
  <2>2. reader' = [reader EXCEPT ![Worker] = r]
    BY <1>2, <1>4, <2>1 DEF WriteInitState, W
  <2>3. W' = r /\ OnlyWorker'
    BY <1>2, <2>2, WorkerMoves DEF Sound
  <2>4. /\ r.st = W.st /\ r.phase = "offset" /\ r.snap = W.snap /\ r.next = W.next
        /\ r.offset = W.offset /\ r.ready = W.ready
    BY <2>1, WorkerTypes DEF Readers
  <2>5. PICK st \in States : st = Progress
    BY WorkerTypes DEF Progress, Readers, Types, ZkOK
  <2>6. \/ W.snap /\ zkInit' = Saved(st)
        \/ ~W.snap /\ zkInit' = zkInit /\ st = zkInit
    BY <1>2, <1>4, <2>5 DEF WriteInitState, W, Progress
  <2>7. W.snap /\ ~st.done => st.km # Unset /\ st.vm # Unset
    BY <1>2, <2>5 DEF Sound, BatchOK, Progress
  <2>8. PICK st2 : st2 = zkInit'
    OBVIOUS
  <2>9. \A v : ToList(st, v) => ToList(st2, v)
    BY <2>6, <2>7, <2>8, SavedLists DEF ToList
  <2>10. ZkOrdered' /\ SrcIsLog'
    <3>1. CASE W.snap /\ zkInit' = Saved(st)
      BY <1>1, <2>3, <2>4, <2>7, <3>1, SavedLists DEF Sound, ZkOrdered, SrcIsLog
    <3>2. CASE zkInit' = zkInit
      BY <1>1, <2>3, <2>4, <3>2 DEF Sound, ZkOrdered, SrcIsLog
    <3> QED BY <2>6, <3>1, <3>2
  <2>11. Marks' = Marks /\ Offsets' = Offsets /\ Progress' = zkInit' /\ Marks \subseteq Offsets
    BY <1>1, <1>2, <2>3, <2>4 DEF Marks, Offsets, Progress
  <2>12. PICK marks, offs : /\ marks = Marks /\ marks = Marks' /\ offs = Offsets /\ offs = Offsets'
                            /\ marks \subseteq offs
    BY <2>11
  <2>13. ASSUME NEW v \in Versions PROVE Caught(v, <<>>, st2, marks)' /\ Caught(v, <<>>, st2, offs)'
    <3>1. Caught(v, <<>>, st, marks) /\ Caught(v, <<>>, st, offs)
      BY <1>2, <2>5, <2>12, WillStandThen
    <3>2. Caught(v, <<>>, st2, marks) /\ Caught(v, <<>>, st2, offs)
      BY <2>9, <3>1, ListsMore
    <3> QED BY <1>1, <3>2, NothingMoves
  <2>14. Stands'
    BY <2>8, <2>12, <2>13 DEF Stands
  <2>15. WillStand'
    <3>1. \A v : Extra(v)' = <<>>
      BY <2>3, <2>4 DEF Extra
    <3> QED BY <2>8, <2>11, <2>12, <2>13, <3>1 DEF WillStand
  <2>16. OutOK' /\ BatchOK'
    BY <1>1, <1>2, <2>3, <2>4 DEF Sound, OutOK, BatchOK
  <2> QED BY <2>3, <2>10, <2>14, <2>15, <2>16 DEF Sound
<1> QED BY <1>3, <1>4

(* Only some of the nodes are written, but both markers or none *)
LEMMA WriteInitStateFailsSound ==
    ASSUME Types, Sound, NEW i \in Instances, WriteInitStateFails(i), UNCHANGED <<config, lists>>,
           ~torn'
    PROVE  Sound'
<1>1. /\ reader[i].phase = "state" /\ reader[i].snap /\ zkInit.exists
      /\ reader' = [reader EXCEPT ![i] = Rest(@)]
      /\ UNCHANGED <<src, log, target, dropped, skipped, queue, zkOffset>>
  BY DEF WriteInitStateFails, source, mongo, scanHistory
<1>2. i = Worker /\ W.phase = "state" /\ W.snap /\ ~zkInit.done
  BY <1>1, TheWorker DEF Sound, W, BatchOK
<1>3. PICK st \in States : st = W.st /\ st = Progress
  BY <1>2, WorkerTypes DEF Progress, Readers
<1>4. ~st.done => st.km # Unset /\ st.vm # Unset
  BY <1>2, <1>3 DEF Sound, BatchOK
<1>5. PICK ok \in SUBSET {"done", "km", "vm"} :
        /\ zkInit' = [f \in DOMAIN zkInit |-> IF f \in ok THEN Saved(st)[f] ELSE zkInit[f]]
        /\ torn' = (torn \/ Cardinality(ok \cap {"km", "vm"}) = 1)
  BY <1>2, <1>3 DEF WriteInitStateFails, W
<1>6. "km" \in ok <=> "vm" \in ok
  <2>1. \A x : Cardinality({x}) = 1
    BY FS_Singleton
  <2>2. "km" \in ok /\ "vm" \notin ok => ok \cap {"km", "vm"} = {"km"}
    OBVIOUS
  <2>3. "vm" \in ok /\ "km" \notin ok => ok \cap {"km", "vm"} = {"vm"}
    OBVIOUS
  <2> QED BY <1>5, <2>1, <2>2, <2>3
<1>7. PICK was, st2 : was = zkInit /\ st2 = zkInit' /\ was \in States /\ was.exists /\ ~was.done
  BY <1>1, <1>2 DEF Types, ZkOK
<1>8. /\ st2.exists
      /\ st2.done = IF "done" \in ok THEN Saved(st).done ELSE was.done
      /\ st2.km = IF "km" \in ok THEN Saved(st).km ELSE was.km
      /\ st2.vm = IF "km" \in ok THEN Saved(st).vm ELSE was.vm
  <2>1. "exists" \notin ok
    OBVIOUS
  <2>2. DOMAIN was = {"exists", "done", "vm", "km"}
    BY <1>7 DEF States
  <2> QED BY <1>5, <1>6, <1>7, <2>1, <2>2
<1>9. \/ \A v : ToList(was, v) => ToList(st2, v)
      \/ \A v : ToList(st, v) => ToList(st2, v)
  <2>1. CASE st.done
    BY <2>1 DEF ToList
  <2>2. CASE ~st.done /\ "km" \in ok
    BY <1>4, <1>7, <1>8, <2>2, SavedLists DEF ToList
  <2>3. CASE ~st.done /\ "km" \notin ok
    BY <1>4, <1>7, <1>8, <2>3, SavedLists DEF ToList
  <2> QED BY <2>1, <2>2, <2>3
<1>10. /\ W'.phase = "idle" /\ ~W'.snap /\ W'.cseq = Unset
       /\ W'.ready = W.ready /\ W'.offset = W.offset /\ OnlyWorker'
  BY <1>1, <1>2, WorkerRests
<1>11. PICK marks : marks = Marks /\ marks = Marks' /\ marks \subseteq Offsets
  BY <1>1, <1>10 DEF Marks, Offsets
<1>12. Stands'
  <2>1. ASSUME NEW v \in Versions PROVE Caught(v, <<>>, st2, marks)'
    <3>1. Caught(v, <<>>, was, marks)
      BY <1>7, <1>11 DEF Sound, Stands
    <3>2. Caught(v, <<>>, st, marks)
      BY <1>2, <1>3, <1>11, WillStandThen
    <3>3. Caught(v, <<>>, st2, marks)
      BY <1>9, <3>1, <3>2, ListsMore
    <3> QED BY <1>1, <3>3, NothingMoves
  <2> QED BY <1>7, <1>11, <2>1 DEF Stands
<1>13. SrcIsLog'
  BY <1>1 DEF Sound, SrcIsLog
<1>14. ZkOrdered'
  <2>1. ~st2.done => (st2.km = Unset <=> st2.vm = Unset)
    <3>1. was.km = Unset <=> was.vm = Unset
      BY <1>7 DEF Sound, ZkOrdered
    <3> QED BY <1>4, <1>8, <3>1, SavedLists
  <2> QED BY <1>1, <1>7, <1>8, <1>10, <2>1 DEF Sound, ZkOrdered
<1> QED BY <1>10, <1>12, <1>13, <1>14, AtRest

(* The reader goes on from one of the offsets that the batch allows *)
LEMMA SavedOffsetSound ==
    ASSUME Types, Sound, W.phase = "offset", UNCHANGED <<config, lists>>,
           UNCHANGED <<src, log, target, dropped, skipped, queue, zkInit>>,
           NEW r, reader' = [reader EXCEPT ![Worker] = r],
           r.phase \in {"idle", "init"}, ~r.snap, r.cseq = Unset, r.ready = W.ready,
           {r.offset, zkOffset'} \subseteq Offsets,
           r.ready = "yes" => zkOffset' <= r.offset
    PROVE  Sound'
<1>1. W' = r /\ OnlyWorker'
  BY WorkerMoves DEF Sound
<1>2. PICK st, marks : st = zkInit /\ marks = Marks' /\ marks \subseteq Offsets /\ st = Progress
  BY <1>1 DEF Marks, Progress
<1>3. Stands'
  <2>1. ASSUME NEW v \in Versions PROVE Caught(v, <<>>, st, marks)'
    <3>1. Caught(v, <<>>, st, marks)
      BY <1>2, WillStandThen
    <3> QED BY <3>1, NothingMoves
  <2> QED BY <1>2, <2>1 DEF Stands
<1>4. ZkOrdered' /\ SrcIsLog'
  BY <1>1 DEF Sound, ZkOrdered, SrcIsLog
<1> QED BY <1>1, <1>3, <1>4, AtRest

LEMMA SaveLogOffsetSound ==
    ASSUME Types, Sound, NEW i \in Instances, NEW again, SaveLogOffset(i, again),
           UNCHANGED <<config, lists>>
    PROVE  Sound'
<1>1. reader[i].phase = "offset" /\ UNCHANGED <<src, log, target, dropped, skipped, queue, zkInit>>
  BY DEF SaveLogOffset, source, mongo, scanHistory
<1>2. i = Worker /\ W.phase = "offset"
  BY <1>1, TheWorker DEF Sound, W
<1>3. PICK over : over = [W EXCEPT !.offset = IF Saves(W) THEN NewOffset(W) ELSE @]
  OBVIOUS
<1>4. over.offset = (IF Saves(W) THEN NewOffset(W) ELSE W.offset) /\ over.ready = W.ready
  BY <1>3, WorkerTypes DEF Readers
<1>5. W.next \in Int /\ W.offset \in Int /\ zkOffset \in Int
  BY OffsetTypes, WorkerTypes DEF Marks, Readers, Unset
<1>6. over.offset \in {W.offset, W.next} /\ W.offset <= over.offset
  BY <1>4, <1>5 DEF NewOffset
<1>7. zkOffset' \in {zkOffset, over.offset}
  BY <1>2, <1>3 DEF SaveLogOffset, W
<1>8. PICK r : /\ reader' = [reader EXCEPT ![Worker] = r]
               /\ r = Rest(over) \/ r = [Rest(over) EXCEPT !.phase = "init"]
  BY <1>2, <1>3 DEF SaveLogOffset, W
<1>9. /\ r.phase \in {"idle", "init"} /\ ~r.snap /\ r.cseq = Unset
      /\ r.ready = over.ready /\ r.offset = over.offset
  BY <1>8 DEF Rest, NewReader
<1>10. {r.offset, zkOffset'} \subseteq Offsets
  BY <1>2, <1>6, <1>7, <1>9 DEF Offsets, Marks
<1>11. r.ready = "yes" => zkOffset' <= r.offset
  <2>1. W.ready = "yes" => zkOffset <= W.offset
    BY DEF Sound, ZkOrdered
  <2>2. over.offset \in Int
    BY <1>5, <1>6
  <2> QED BY <1>4, <1>5, <1>6, <1>7, <1>9, <2>1, <2>2
<1> QED BY <1>1, <1>2, <1>4, <1>8, <1>9, <1>10, <1>11, SavedOffsetSound

LEMMA SaveLogOffsetFailsSound ==
    ASSUME Types, Sound, NEW i \in Instances, SaveLogOffsetFails(i), UNCHANGED <<config, lists>>
    PROVE  Sound'
<1>1. /\ reader[i].phase = "offset"
      /\ UNCHANGED <<src, log, target, dropped, skipped, queue, zkInit, zkOffset>>
  BY DEF SaveLogOffsetFails, source, mongo, zk, scanHistory
<1>2. i = Worker /\ W.phase = "offset"
  BY <1>1, TheWorker DEF Sound, W
<1>3. PICK over : over = [W EXCEPT !.offset = NewOffset(W)]
  OBVIOUS
<1>4. over.offset = NewOffset(W) /\ over.ready = W.ready
  BY <1>3, WorkerTypes DEF Readers
<1>5. W.next \in Int /\ W.offset \in Int /\ zkOffset \in Int
  BY OffsetTypes, WorkerTypes DEF Marks, Readers, Unset
<1>6. over.offset \in {W.offset, W.next} /\ W.offset <= over.offset
  BY <1>4, <1>5 DEF NewOffset
<1>7. PICK r : reader' = [reader EXCEPT ![Worker] = r] /\ r = Rest(over)
  BY <1>2, <1>3 DEF SaveLogOffsetFails, W
<1>8. /\ r.phase = "idle" /\ ~r.snap /\ r.cseq = Unset
      /\ r.ready = over.ready /\ r.offset = over.offset
  BY <1>7, RestFields
<1>9. {r.offset, zkOffset'} \subseteq Offsets
  BY <1>1, <1>2, <1>6, <1>8 DEF Offsets, Marks
<1>10. r.ready = "yes" => zkOffset' <= r.offset
  <2>1. W.ready = "yes" => zkOffset <= W.offset
    BY DEF Sound, ZkOrdered
  <2>2. over.offset \in Int
    BY <1>5, <1>6
  <2> QED BY <1>1, <1>4, <1>5, <1>6, <1>8, <2>1, <2>2
<1> QED BY <1>1, <1>2, <1>4, <1>7, <1>8, <1>9, <1>10, SavedOffsetSound

-----------------------------------------------------------------------------
(* Every step, and the two theorems *)

LEMMA BatchSound ==
    ASSUME Types, Sound, NEW i \in Instances, BatchStep(i) \/ BatchFault(i),
           UNCHANGED <<config, lists>>, ~torn'
    PROVE  Sound'
BY ReadInitStateSound, GetBucketCseqSound, GetObjectVersionsListSound, GetBucketObjectsMetadataSound,
   ProcessReadRecordsSound, PublishEntriesSound, PublishFailsSound, WriteInitStateSound,
   WriteInitStateFailsSound, SaveLogOffsetSound, SaveLogOffsetFailsSound, BatchFailsSound
   DEF BatchStep, BatchFault

LEMMA KeptNext ==
    ASSUME Types, Kept, [Next]_vars PROVE Kept'
<1>1. CASE UNCHANGED vars
  <2> SUFFICES ASSUME ~torn', ~dirty' PROVE Sound'
    BY DEF Kept
  <2>1. UNCHANGED <<src, log, target, dropped, skipped, queue, zkInit, zkOffset, reader, config, lists,
                    torn, dirty>>
    BY <1>1 DEF vars, readerVars
  <2>2. Sound
    BY <2>1 DEF Kept
  <2>3. W' = W /\ Marks' = Marks
    BY <2>1 DEF W, Marks
  <2>4. OnlyWorker' /\ ZkOrdered'
    BY <2>1, <2>2, <2>3 DEF Sound, OnlyWorker, ZkOrdered, lists
  <2>5. \A v : (\A o \in Marks : Due(v, o)) => (\A o \in Marks : Due(v, o))'
    BY <2>1, <2>3 DEF Due
  <2> QED BY <2>1, <2>2, <2>3, <2>4, <2>5, SameBatch
<1>2. CASE Next
  <2> SUFFICES ASSUME ~torn', ~dirty' PROVE Sound'
    BY DEF Kept
  <2>1. Sound /\ Step
    BY <1>2 DEF Next, Kept
  <2>2. CASE SourceStep /\ UNCHANGED <<config, lists, location, dirty>>
    BY <2>1, <2>2, SourceSound
  <2>3. CASE (\E i \in Instances : BatchStep(i) \/ BatchFault(i))
             /\ UNCHANGED <<config, lists, location, dirty>>
    BY <2>1, <2>3, BatchSound
  <2>4. CASE (\E v \in Versions : MongoStep(v)) /\ UNCHANGED <<config, lists, location, dirty>>
    BY <2>1, <2>4, MongoSound
  <2>5. CASE \E i \in Instances : SetupReader(i) \/ SetupReaderFails(i) \/ RemoveReaderState(i)
    BY <2>1, <2>5, SetupReaderSound, RemoveReaderStateSound
  <2>6. CASE Command \/ SetupZkLocationNode \/ RemoveZkState
               \/ \E k \in DOMAIN updates : UpdateReads(k) \/ UpdateWrites(k) \/ UpdateFails(k)
    BY <2>1, <2>6, LocationSound
  <2>7. CASE Crash \/ Throws
    BY <2>1, <2>7, RestartSound DEF Crash, Throws
  <2>8. CASE AddNewLogSource \/ QueueBatch \/ RemoveBucket \/ CreateBucket
    BY <2>1, <2>8, AddNewLogSourceSound, QueueBatchSound, RemoveBucketSound, CreateBucketSound
  <2> QED BY <2>1, <2>2, <2>3, <2>4, <2>5, <2>6, <2>7, <2>8 DEF Step
<1> QED BY <1>1, <1>2

(* The log has every version of the source once at first *)
LEMMA SrcIsLogInit ==
    ASSUME Init PROVE SrcIsLog
<1>1. PICK s \in Scenarios : InitReader(s)
  BY DEF Init
<1>2. PICK order : /\ order = SetToSeq(s.initial)
                   /\ log = [k \in 1..(Len(order) + 1) |->
                        IF k = 1 THEN [v |-> Other, c |-> None]
                        ELSE [v |-> order[k - 1], c |-> [rev |-> k, tags |-> 0, retro |-> FALSE]]]
  BY <1>1 DEF InitReader
<1>3. src = [v \in Versions |-> IF \E k \in DOMAIN log : log[k].v = v
                                THEN log[CHOOSE k \in DOMAIN log : log[k].v = v].c ELSE None]
  BY <1>1 DEF InitReader
<1>4. Len(order) \in Nat /\ \A j, k \in 1..Len(order) : order[j] = order[k] => j = k
  <2>1. s.initial \in SUBSET Versions /\ IsFiniteSet(s.initial)
    BY FS_Subset, IngestionAssumption
  <2>2. PICK n \in Nat : n = Cardinality(s.initial)
    BY <2>1, FS_CardinalityType
  <2>3. PICK f \in [1..n -> s.initial] : IsInjective(f)
    <3>1. PICK f : f \in Bijection(1..n, s.initial)
      BY <2>1, <2>2, FS_CardinalityType DEF ExistsBijection
    <3> QED BY <3>1 DEF Bijection, Injection, IsInjective
  <2>4. order \in [1..n -> s.initial] /\ IsInjective(order)
    BY <1>2, <2>2, <2>3 DEF SetToSeq
  <2>5. Len(order) = n /\ DOMAIN order = 1..n
    BY <2>2, <2>4
  <2> QED BY <2>2, <2>4, <2>5 DEF IsInjective
<1>5. ASSUME NEW v \in Versions, NEW j \in DOMAIN log, NEW k \in DOMAIN log, log[j].v = v, log[k].v = v
      PROVE  j = k
  <2>1. j \in 1..(Len(order) + 1) /\ k \in 1..(Len(order) + 1)
    BY <1>2, <1>5
  <2>2. j # 1 /\ k # 1
    BY <1>2, <1>5, <2>1, NoneTypes
  <2>3. order[j - 1] = v /\ order[k - 1] = v
    BY <1>2, <1>5, <2>1, <2>2
  <2>4. j - 1 \in 1..Len(order) /\ k - 1 \in 1..Len(order)
    BY <1>4, <2>1, <2>2
  <2>5. j - 1 = k - 1
    BY <1>4, <2>3, <2>4
  <2> QED BY <1>4, <2>1, <2>5
<1>6. ASSUME NEW v \in Versions, NEW k \in DOMAIN log, log[k].v = v PROVE src[v] = log[k].c
  <2>1. PICK j : j = CHOOSE i \in DOMAIN log : log[i].v = v
    OBVIOUS
  <2>2. j \in DOMAIN log /\ log[j].v = v
    BY <1>6, <2>1
  <2>3. src[v] = log[j].c
    BY <1>3, <1>6, <2>1
  <2> QED BY <1>5, <1>6, <2>2, <2>3
<1> QED BY <1>6 DEF SrcIsLog

LEMMA KeptInit ==
    ASSUME Init PROVE Kept
<1>1. PICK s \in Scenarios : InitReader(s)
  BY DEF Init
<1>2. /\ target = [v \in Versions |-> None] /\ queue = [v \in Versions |-> <<>>]
      /\ zkInit = NoState /\ zkOffset = NoNode /\ reader = [i \in Instances |-> NewReader]
  BY <1>1 DEF InitReader
<1>3. config /\ ingestionSource = 0 /\ logReaders = <<>> /\ removing = {}
  BY DEF Init
<1>4. Worker \in Instances
  BY IngestionAssumption DEF Worker, Instances
<1>5. W.phase = "idle" /\ ~W.snap /\ W.cseq = Unset /\ W.ready = "no"
  BY <1>2, <1>4 DEF W, NewReader
<1>6. ASSUME NEW v \in Versions, NEW offs PROVE Caught(v, <<>>, zkInit, offs)
  <2>1. Final(v, <<>>) = None
    BY <1>2 DEF Final
  <2>2. ToList(zkInit, v)
    BY <1>2 DEF ToList, NoState
  <2> QED BY <2>1, <2>2 DEF Caught
<1>7. Stands
  BY <1>6 DEF Stands
<1>8. WillStand
  <2>1. Progress = zkInit /\ \A v : Extra(v) = <<>>
    BY <1>5 DEF Progress, Extra
  <2> QED BY <1>6, <2>1 DEF WillStand
<1>9. OutOK /\ BatchOK
  BY <1>5 DEF OutOK, BatchOK
<1>10. OnlyWorker
  <2>1. <<>> \in Seq({Worker})
    OBVIOUS
  <2> QED BY <1>2, <1>3, <1>5, <2>1 DEF OnlyWorker
<1>11. ZkOrdered
  BY <1>2, <1>3, <1>5 DEF ZkOrdered, NoState
<1> QED BY <1>7, <1>8, <1>9, <1>10, <1>11, SrcIsLogInit DEF Kept, Sound

LEMMA CaughtUpKept ==
    ASSUME Types, Sound, CaughtUp, NEW v \in Versions, v \notin dropped
    PROVE  /\ src[v] # None /\ ~src[v].retro => target[v] = src[v]
           /\ ~skipped => (target[v] # None => src[v] # None)
<1>1. ingestionSource = Worker
  BY DEF Sound, OnlyWorker, CaughtUp
<1>2. config /\ zkInit.done /\ W.offset > Len(log) /\ queue[v] = <<>>
  BY <1>1 DEF CaughtUp, W
<1>3. Known(v, <<>>) /\ Final(v, <<>>) = target[v]
  BY <1>2 DEF Known, Final
<1>4. ~Due(v, W.offset)
  <2>1. DOMAIN log = 1..Len(log) /\ Len(log) \in Nat /\ W.offset \in Int
    BY WorkerTypes, OffsetTypes DEF Types, BucketsOK, Marks
  <2> QED BY <1>2, <2>1 DEF Due
<1>5. PICK st, marks : st = zkInit /\ marks = Marks /\ W.offset \in marks
  BY DEF Marks
<1>6. ~ToList(st, v) /\ ~\A o \in marks : Due(v, o)
  BY <1>2, <1>4, <1>5 DEF ToList
<1>7. Caught(v, <<>>, st, marks)
  BY <1>5 DEF Sound, Stands
<1> QED BY <1>2, <1>3, <1>6, <1>7 DEF Caught

(* Nothing is missed at any number of writes, faults, commands, versions, pages and
   readers: once the snapshot is over and the log is read to its end, every version
   of the source is in the Zenko bucket as it is, whatever calls to Zookeeper, Kafka
   and the source failed on the way; but for entries that failed in Mongo, versions
   written in Zenko, torn markers and a bucket that came back over its old state
   (IngestionReader: _processReadRecords to _processSaveLogOffset; LogReader,
   MongoQueueProcessor)                                                         *)
THEOREM NothingIsMissed == Spec => []NothingMissed
<1>1. Types /\ Kept => NothingMissed
  BY CaughtUpKept DEF Kept, NothingMissed
<1> QED BY <1>1, TypesInit, TypesNext, KeptInit, KeptNext, PTL DEF Spec

(* Nor does a version stay that the source does not have any more, unless a snapshot
   was begun past its deletion, its entry failed in Mongo, a marker was torn or the
   bucket came back over its old state                                          *)
THEOREM NoGhostStays == Spec => []NoGhosts
<1>1. Types /\ Kept => NoGhosts
  BY CaughtUpKept DEF Kept, NoGhosts
<1> QED BY <1>1, TypesInit, TypesNext, KeptInit, KeptNext, PTL DEF Spec
=============================================================================
