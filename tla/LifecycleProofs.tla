---------------------------- MODULE LifecycleProofs ----------------------------
(***************************************************************************)
(* Theorems about the lifecycle commands, for every set of devices and     *)
(* agents and however many commands run: the type invariant, that a device *)
(* that may report has an operator and an enabled client, and that what a  *)
(* command says at its end is so.                                          *)
(***************************************************************************)
EXTENDS Lifecycle, TLAPS

-----------------------------------------------------------------------------
(* What the scripts say.                                                   *)

\* Where a command reads the document; "enrolAgent" has two lines and does not.
ReadLine(kind) ==
  CASE kind \in Onboarding -> 2
    [] kind = "offboardDevice" -> 5
    [] kind = "offboardAgent" -> 4
    [] OTHER -> 9

\* Each line stands at one place of the commands that have it.
LEMMA Scripts ==
  ASSUME NEW kind \in DOMAIN Script, NEW at \in 1..Len(Script[kind])
  PROVE  /\ Len(Script[kind]) \in 1..8
         /\ Script[kind][at] = "enable" => kind \in Onboarding /\ at = 1
         /\ Script[kind][at] = "disable" =>
              \/ kind = "offboardDevice" /\ at = 4
              \/ kind = "offboardAgent" /\ at = 3
         /\ Script[kind][at] = "operator" => kind \in Onboarding /\ at = 4
         /\ Script[kind][at] = "home" => kind = "onboardDevice" /\ at = 5
         /\ Script[kind][at] = "self" => kind = "onboardDevice" /\ at = 6
         /\ Script[kind][at] = "enrolled" => kind = "enrolAgent" /\ at = 1
         /\ Script[kind][at] = "cut" =>
              kind \in {"offboardDevice", "offboardAgent"} /\ at = 1
         /\ Script[kind][at] = "cutOperator" =>
              kind = "offboardDevice" /\ at = 2
         /\ Script[kind][at] = "cutDelegations" =>
              kind = "offboardAgent" /\ at = 2
         /\ Script[kind][at] = "verify" =>
              \/ kind = "onboardDevice" /\ at = 7
              \/ kind = "offboardDevice" /\ at = 3
              \/ kind = "onboardAgent" /\ at = 5
              \/ kind = "enrolAgent" /\ at = 2
         /\ Script[kind][at] = "read" =>
              at = ReadLine(kind) /\ at < Len(Script[kind])
         /\ Script[kind][at] = "apply" =>
              at = ReadLine(kind) + 1 /\ at < Len(Script[kind])
         /\ Script[kind][at] = "wait" => at = Len(Script[kind])
<1>1. CASE kind = "onboardDevice"
  <2>1. Script[kind] = OnboardDevice
    BY <1>1 DEF Script
  <2>2. /\ Len(OnboardDevice) = 8 /\ OnboardDevice[1] = "enable"
        /\ OnboardDevice[2] = "read" /\ OnboardDevice[3] = "apply"
        /\ OnboardDevice[4] = "operator" /\ OnboardDevice[5] = "home"
        /\ OnboardDevice[6] = "self" /\ OnboardDevice[7] = "verify"
        /\ OnboardDevice[8] = "wait"
    BY DEF OnboardDevice
  <2> QED
    BY <1>1, <2>1, <2>2 DEF Onboarding, ReadLine
<1>2. CASE kind = "offboardDevice"
  <2>1. Script[kind] = OffboardDevice
    BY <1>2 DEF Script
  <2>2. /\ Len(OffboardDevice) = 7 /\ OffboardDevice[1] = "cut"
        /\ OffboardDevice[2] = "cutOperator" /\ OffboardDevice[3] = "verify"
        /\ OffboardDevice[4] = "disable" /\ OffboardDevice[5] = "read"
        /\ OffboardDevice[6] = "apply" /\ OffboardDevice[7] = "wait"
    BY DEF OffboardDevice
  <2> QED
    BY <1>2, <2>1, <2>2 DEF Onboarding, ReadLine
<1>3. CASE kind = "onboardAgent"
  <2>1. Script[kind] = OnboardAgent
    BY <1>3 DEF Script
  <2>2. /\ Len(OnboardAgent) = 6 /\ OnboardAgent[1] = "enable"
        /\ OnboardAgent[2] = "read" /\ OnboardAgent[3] = "apply"
        /\ OnboardAgent[4] = "operator" /\ OnboardAgent[5] = "verify"
        /\ OnboardAgent[6] = "wait"
    BY DEF OnboardAgent
  <2> QED
    BY <1>3, <2>1, <2>2 DEF Onboarding, ReadLine
<1>4. CASE kind = "offboardAgent"
  <2>1. Script[kind] = OffboardAgent
    BY <1>4 DEF Script
  <2>2. /\ Len(OffboardAgent) = 6 /\ OffboardAgent[1] = "cut"
        /\ OffboardAgent[2] = "cutDelegations" /\ OffboardAgent[3] = "disable"
        /\ OffboardAgent[4] = "read" /\ OffboardAgent[5] = "apply"
        /\ OffboardAgent[6] = "wait"
    BY DEF OffboardAgent
  <2> QED
    BY <1>4, <2>1, <2>2 DEF Onboarding, ReadLine
<1>5. CASE kind = "enrolAgent"
  <2>1. Script[kind] = EnrolAgent
    BY <1>5 DEF Script
  <2>2. /\ Len(EnrolAgent) = 2 /\ EnrolAgent[1] = "enrolled"
        /\ EnrolAgent[2] = "verify"
    BY DEF EnrolAgent
  <2> QED
    BY <1>5, <2>1, <2>2 DEF Onboarding, ReadLine
<1> QED
  BY <1>1, <1>2, <1>3, <1>4, <1>5 DEF Script

-----------------------------------------------------------------------------
(* Types.                                                                  *)

\* A command is one of those for its name, and at one of its lines.
JobsWellFormed ==
  /\ job \in [Names -> Job]
  /\ \A n \in Names : Underway(n) =>
       /\ job[n].kind \in Kinds(n)
       /\ job[n].at \in 1..Len(Script[job[n].kind])

TypeInv == LifecycleTypeOK /\ JobsWellFormed

\* How many lines the commands have.
LEMMA ScriptLengths ==
  /\ Len(Script["onboardDevice"]) = 8 /\ Len(Script["offboardDevice"]) = 7
  /\ Len(Script["onboardAgent"]) = 6 /\ Len(Script["offboardAgent"]) = 6
  /\ Len(Script["enrolAgent"]) = 2
  /\ \A kind \in DOMAIN Script : Len(Script[kind]) \in 1..8
<1>1. /\ Len(OnboardDevice) = 8 /\ Len(OffboardDevice) = 7
      /\ Len(OnboardAgent) = 6 /\ Len(OffboardAgent) = 6
      /\ Len(EnrolAgent) = 2
  BY DEF OnboardDevice, OffboardDevice, OnboardAgent, OffboardAgent, EnrolAgent
<1> QED
  BY <1>1 DEF Script

\* After its edit a command still has to wait for the reload.
LEMMA WaitsAfterApplying ==
  ASSUME NEW kind \in {"onboardDevice", "offboardDevice", "onboardAgent",
                       "offboardAgent"}
  PROVE  Len(Script[kind]) > ReadLine(kind) + 1
<1>1. CASE kind = "onboardDevice"
  <2>1. Len(Script[kind]) = 8 /\ ReadLine(kind) = 2
    BY <1>1, ScriptLengths DEF ReadLine, Onboarding
  <2> QED
    BY <2>1
<1>2. CASE kind = "onboardAgent"
  <2>1. Len(Script[kind]) = 6 /\ ReadLine(kind) = 2
    BY <1>2, ScriptLengths DEF ReadLine, Onboarding
  <2> QED
    BY <2>1
<1>3. CASE kind = "offboardDevice"
  <2>1. Len(Script[kind]) = 7 /\ ReadLine(kind) = 5
    BY <1>3, ScriptLengths DEF ReadLine, Onboarding
  <2> QED
    BY <2>1
<1>4. CASE kind = "offboardAgent"
  <2>1. Len(Script[kind]) = 6 /\ ReadLine(kind) = 4
    BY <1>4, ScriptLengths DEF ReadLine, Onboarding
  <2> QED
    BY <2>1
<1> QED
  BY <1>1, <1>2, <1>3, <1>4

\* Each command has its script.
LEMMA KindsAreScripts ==
  \A n : Kinds(n) \subseteq DOMAIN Script
BY DEF Kinds, Script

\* Any edit of a document is a document.
LEMMA DocumentsAre ==
  /\ {} \in Documents /\ Usable \subseteq Documents
  /\ \A c \in Documents : \A n \in Names :
       c \cup {n} \in Documents /\ c \ {n} \in Documents
  /\ \A c \in Documents :
       c \cup {Mistake} \in Documents /\ c \ {Mistake} \in Documents
  /\ None \notin Usable
BY LifecycleAssumption, ReloadAssumption

Running ==
  [stage : {"running"}, kind : DOMAIN Script, at : 1..8,
   copy : Documents, heard : BOOLEAN, quiet : BOOLEAN]

\* What a running command holds.
LEMMA JobFields ==
  ASSUME TypeInv, NEW n \in Names, Underway(n)
  PROVE  /\ job[n] \in Running
         /\ job[n].kind \in DOMAIN Script /\ job[n].kind \in Kinds(n)
         /\ job[n].at \in 1..Len(Script[job[n].kind]) /\ job[n].at \in 1..8
         /\ Len(Script[job[n].kind]) \in 1..8
         /\ job[n].copy \in Documents
         /\ job[n].heard \in BOOLEAN /\ job[n].quiet \in BOOLEAN
<1>1. job[n] \in Job /\ job[n].stage = "running"
  BY DEF TypeInv, JobsWellFormed, Underway
<1>2. job[n] \in Running
  BY <1>1 DEF Job, NoJob, Done, Running
<1>3. /\ job[n].kind \in Kinds(n)
      /\ job[n].at \in 1..Len(Script[job[n].kind])
  BY DEF TypeInv, JobsWellFormed
<1>4. /\ job[n].kind \in DOMAIN Script /\ job[n].at \in 1..8
      /\ job[n].copy \in Documents
      /\ job[n].heard \in BOOLEAN /\ job[n].quiet \in BOOLEAN
  BY <1>2 DEF Running
<1>5. Len(Script[job[n].kind]) \in 1..8
  BY <1>3, <1>4, Scripts
<1> QED
  BY <1>2, <1>3, <1>4, <1>5

\* What has been noted changes nothing else.
LEMMA HeardUpdate ==
  ASSUME NEW j \in Running, NEW h \in BOOLEAN
  PROVE  /\ [j EXCEPT !.heard = h] \in Running
         /\ [j EXCEPT !.heard = h].kind = j.kind
         /\ [j EXCEPT !.heard = h].at = j.at
         /\ [j EXCEPT !.heard = h].copy = j.copy
         /\ [j EXCEPT !.heard = h].heard = h
         /\ [j EXCEPT !.heard = h].quiet = j.quiet
<1>1. [j EXCEPT !.heard = h] \in Running
  BY Zenon DEF Running
<1>2. /\ [j EXCEPT !.heard = h].kind = j.kind
      /\ [j EXCEPT !.heard = h].at = j.at
      /\ [j EXCEPT !.heard = h].copy = j.copy
      /\ [j EXCEPT !.heard = h].heard = h
      /\ [j EXCEPT !.heard = h].quiet = j.quiet
  BY SMT DEF Running
<1> QED
  BY <1>1, <1>2, Zenon

\* A command that is disturbed keeps everything but its quiet.
LEMMA QuietUpdate ==
  ASSUME NEW j \in Running, NEW q \in BOOLEAN
  PROVE  /\ [j EXCEPT !.quiet = q] \in Running
         /\ [j EXCEPT !.quiet = q].kind = j.kind
         /\ [j EXCEPT !.quiet = q].at = j.at
         /\ [j EXCEPT !.quiet = q].copy = j.copy
         /\ [j EXCEPT !.quiet = q].heard = j.heard
         /\ [j EXCEPT !.quiet = q].quiet = q
<1>1. [j EXCEPT !.quiet = q] \in Running
  BY Zenon DEF Running
<1>2. /\ [j EXCEPT !.quiet = q].kind = j.kind
      /\ [j EXCEPT !.quiet = q].at = j.at
      /\ [j EXCEPT !.quiet = q].copy = j.copy
      /\ [j EXCEPT !.quiet = q].heard = j.heard
      /\ [j EXCEPT !.quiet = q].quiet = q
  BY SMT DEF Running
<1> QED
  BY <1>1, <1>2, Zenon

\* A command that reads the document keeps everything but its copy.
LEMMA CopyUpdate ==
  ASSUME NEW j \in Running, NEW c \in Documents
  PROVE  /\ [j EXCEPT !.copy = c] \in Running
         /\ [j EXCEPT !.copy = c].kind = j.kind
         /\ [j EXCEPT !.copy = c].at = j.at
         /\ [j EXCEPT !.copy = c].copy = c
         /\ [j EXCEPT !.copy = c].heard = j.heard
         /\ [j EXCEPT !.copy = c].quiet = j.quiet
<1>1. [j EXCEPT !.copy = c] \in Running
  BY Zenon DEF Running
<1>2. /\ [j EXCEPT !.copy = c].kind = j.kind
      /\ [j EXCEPT !.copy = c].at = j.at
      /\ [j EXCEPT !.copy = c].copy = c
      /\ [j EXCEPT !.copy = c].heard = j.heard
      /\ [j EXCEPT !.copy = c].quiet = j.quiet
  BY SMT DEF Running
<1> QED
  BY <1>1, <1>2, Zenon

\* The next line is a line of the same command, with the same notes.
LEMMA AfterFields ==
  ASSUME TypeInv, NEW n \in Names, Underway(n)
  PROVE  \/ After(n) = Done /\ job[n].at = Len(Script[job[n].kind])
         \/ /\ job[n].at + 1 \in 1..Len(Script[job[n].kind])
            /\ After(n) \in Running
            /\ After(n).kind = job[n].kind
            /\ After(n).at = job[n].at + 1
            /\ After(n).copy = job[n].copy
            /\ After(n).heard = job[n].heard
            /\ After(n).quiet = job[n].quiet
<1>1. /\ job[n] \in Running
      /\ job[n].at \in 1..Len(Script[job[n].kind])
      /\ Len(Script[job[n].kind]) \in 1..8
  BY JobFields
<1>2. CASE job[n].at = Len(Script[job[n].kind])
  BY <1>2 DEF After
<1>3. CASE job[n].at # Len(Script[job[n].kind])
  <2>1. /\ job[n].at + 1 \in 1..Len(Script[job[n].kind])
        /\ job[n].at + 1 \in 1..8
    <3>1. \A len \in 1..8 : \A at \in 1..len :
            at # len => at + 1 \in 1..len /\ at + 1 \in 1..8
      OBVIOUS
    <3> QED
      BY <1>1, <1>3, <3>1
  <2>2. After(n) = [job[n] EXCEPT !.at = job[n].at + 1]
    BY <1>3, SMT DEF After
  <2> QED
    BY <1>1, <2>1, <2>2, SMT DEF Running
<1> QED
  BY <1>2, <1>3

\* What a command knows once it has read the document.
LEMMA ReadStep ==
  ASSUME TypeInv, NEW n \in Names, ReadRegistry(n)
  PROVE  \E k \in Running :
           /\ job' = [job EXCEPT ![n] = k]
           /\ k.kind = job[n].kind /\ k.at = job[n].at + 1
           /\ k.at \in 1..Len(Script[k.kind])
           /\ k.copy = configmap
           /\ k.quiet => Settled /\ ~k.heard
<1>1. Underway(n) /\ Script[job[n].kind][job[n].at] = "read"
  BY DEF ReadRegistry, Doing
<1>2. /\ After(n) \in Running
      /\ After(n).kind = job[n].kind /\ After(n).at = job[n].at + 1
      /\ job[n].at + 1 \in 1..Len(Script[job[n].kind])
  BY <1>1, AfterFields, JobFields, Scripts
<1>3. PICK early \in BOOLEAN :
        job' = [job EXCEPT
                 ![n] = [After(n) EXCEPT !.copy = configmap, !.heard = early,
                                         !.quiet = Settled /\ ~early]]
  BY DEF ReadRegistry
<1>3a. PICK q \in BOOLEAN : q = (Settled /\ ~early)
  BY DEF Settled
<1>4. configmap \in Documents
  BY DEF TypeInv, LifecycleTypeOK
<1>5. PICK k : k = [After(n) EXCEPT !.copy = configmap, !.heard = early,
                                    !.quiet = q]
  OBVIOUS
<1>6. job' = [job EXCEPT ![n] = k]
  BY <1>3, <1>5, <1>3a
<1>7. /\ k \in Running /\ k.kind = After(n).kind /\ k.at = After(n).at
      /\ k.copy = configmap /\ k.heard = early /\ k.quiet = q
  <2> DEFINE j == After(n)
  <2>1. /\ j \in Running
        /\ k = [j EXCEPT !.copy = configmap, !.heard = early, !.quiet = q]
    BY <1>2, <1>5
  <2> HIDE DEF j
  <2>2. k \in Running
    BY <1>4, <2>1, Zenon DEF Running
  <2>3. k.kind = j.kind /\ k.at = j.at /\ k.copy = configmap
    BY <1>4, <2>1, SMT DEF Running
  <2>4. k.heard = early
    BY <1>4, <2>1, SMT DEF Running
  <2>5. k.quiet = q
    BY <1>4, <2>1, SMT DEF Running
  <2> QED
    BY <2>2, <2>3, <2>4, <2>5 DEF j
<1> QED
  BY <1>2, <1>6, <1>7, <1>3a

\* What it knows once it has written it, and what the others then do not.
LEMMA ApplyStep ==
  ASSUME TypeInv, NEW n \in Names, ApplyRegistry(n)
  PROVE  /\ job'[n] \in Running
         /\ job'[n].kind = job[n].kind /\ job'[n].at = job[n].at + 1
         /\ job'[n].at \in 1..Len(Script[job'[n].kind])
         /\ job'[n].heard = job[n].heard /\ job'[n].quiet = job[n].quiet
         /\ job[n].at = ReadLine(job[n].kind) + 1
         /\ \A i \in Names \ {n} : job'[i] = Disturbed(i)
<1>1. Underway(n) /\ Script[job[n].kind][job[n].at] = "apply"
  BY DEF ApplyRegistry, Doing
<1>2. /\ After(n) \in Running
      /\ After(n).kind = job[n].kind /\ After(n).at = job[n].at + 1
      /\ After(n).heard = job[n].heard /\ After(n).quiet = job[n].quiet
      /\ job[n].at + 1 \in 1..Len(Script[job[n].kind])
      /\ job[n].at = ReadLine(job[n].kind) + 1
  BY <1>1, AfterFields, JobFields, Scripts
<1>3. job'[n] = [After(n) EXCEPT !.copy = {}]
  BY DEF ApplyRegistry
<1>4. \A i \in Names \ {n} : job'[i] = Disturbed(i)
  BY DEF ApplyRegistry
<1>5. {} \in Documents
  BY DocumentsAre
<1>6. /\ job'[n] \in Running
      /\ job'[n].kind = After(n).kind /\ job'[n].at = After(n).at
      /\ job'[n].heard = After(n).heard /\ job'[n].quiet = After(n).quiet
  <2> DEFINE j == After(n)
             k == job'[n]
  <2>1. j \in Running /\ k = [j EXCEPT !.copy = {}]
    BY <1>2, <1>3
  <2> HIDE DEF j, k
  <2>2. k \in Running
    BY <1>5, <2>1, Zenon DEF Running
  <2>3. k.kind = j.kind /\ k.at = j.at
    BY <1>5, <2>1, SMT DEF Running
  <2>4. k.heard = j.heard /\ k.quiet = j.quiet
    BY <1>5, <2>1, SMT DEF Running
  <2> QED
    BY <2>2, <2>3, <2>4 DEF j, k
<1> QED
  BY <1>2, <1>4, <1>6, Zenon

\* What a command may be at.
WellFormed(n, j) ==
  /\ j \in Job
  /\ j.stage = "running" =>
       j.kind \in Kinds(n) /\ j.at \in 1..Len(Script[j.kind])

\* The type invariant, one job at a time.
LEMMA WellFormedJobs ==
  TypeInv => job \in [Names -> Job] /\ \A n \in Names : WellFormed(n, job[n])
BY DEF TypeInv, JobsWellFormed, WellFormed, Underway

\* No command, one that has ended and one under way are different.
LEMMA ToldApart ==
  /\ NoJob \in Job /\ NoJob.stage = "idle"
  /\ Done \in Job /\ Done.stage = "done"
  /\ Running \subseteq Job
  /\ \A j \in Running : j.stage = "running"
BY DEF NoJob, Done, Job, Running

\* However a command moves, it is at a line of its script.
LEMMA MovesWellFormed ==
  ASSUME TypeInv, NEW n \in Names
  PROVE  /\ WellFormed(n, NoJob)
         /\ Underway(n) => WellFormed(n, After(n))
         /\ Underway(n) =>
              \A h \in BOOLEAN : WellFormed(n, [job[n] EXCEPT !.heard = h])
         /\ WellFormed(n, Disturbed(n))
<1>1. WellFormed(n, NoJob)
  BY ToldApart DEF WellFormed
<1>2. ASSUME Underway(n)
      PROVE  WellFormed(n, After(n))
  BY <1>2, AfterFields, JobFields, ToldApart DEF WellFormed
<1>3. ASSUME Underway(n), NEW h \in BOOLEAN
      PROVE  WellFormed(n, [job[n] EXCEPT !.heard = h])
  <2>1. /\ [job[n] EXCEPT !.heard = h] \in Running
        /\ [job[n] EXCEPT !.heard = h].kind = job[n].kind
        /\ [job[n] EXCEPT !.heard = h].at = job[n].at
    BY <1>3, JobFields, HeardUpdate, Zenon
  <2> QED
    BY <1>3, <2>1, JobFields, ToldApart, Zenon DEF WellFormed
<1>4. WellFormed(n, Disturbed(n))
  <2>1. CASE Underway(n)
    <3>1. /\ Disturbed(n) \in Running
          /\ Disturbed(n).kind = job[n].kind
          /\ Disturbed(n).at = job[n].at
      BY <2>1, JobFields, QuietUpdate, Zenon DEF Disturbed
    <3> QED
      BY <2>1, <3>1, JobFields, ToldApart, Zenon DEF WellFormed
  <2>2. CASE ~Underway(n)
    BY <2>2, WellFormedJobs DEF Disturbed
  <2> QED
    BY <2>1, <2>2
<1> QED
  BY <1>1, <1>2, <1>3, <1>4, Zenon

\* Every job but those that `next` replaces is as it was.
LEMMA JobsReplaced ==
  ASSUME NEW next, job' = [n \in Names |-> next[n]],
         \A n \in Names : WellFormed(n, next[n])
  PROVE  JobsWellFormed'
<1>1. \A n \in Names : job'[n] = next[n]
  OBVIOUS
<1>2. job' \in [Names -> Job]
  BY DEF WellFormed
<1> QED
  BY <1>1, <1>2 DEF JobsWellFormed, WellFormed, Underway

\* Jobs stay well formed when one is replaced by a well-formed one.
LEMMA JobReplaced ==
  ASSUME TypeInv, NEW n \in Names, NEW j, WellFormed(n, j),
         job' = [job EXCEPT ![n] = j]
  PROVE  JobsWellFormed'
<1>1. \A i \in Names : job'[i] = IF i = n THEN j ELSE job[i]
  BY WellFormedJobs
<1>2. job' \in [Names -> Job]
  BY WellFormedJobs DEF WellFormed
<1> QED
  BY <1>1, <1>2, WellFormedJobs DEF JobsWellFormed, WellFormed, Underway

\* Jobs stay well formed when the log is written or lost.
LEMMA JobsHear ==
  ASSUME TypeInv, NEW who, NEW h \in BOOLEAN, Hears(who, h)
  PROVE  JobsWellFormed'
<1> DEFINE next == [n \in Names |->
                      IF n \in who /\ Marked(n)
                      THEN [job[n] EXCEPT !.heard = h] ELSE job[n]]
<1>1. \A n \in Names : WellFormed(n, next[n])
  <2> SUFFICES ASSUME NEW n \in Names
               PROVE  WellFormed(n, next[n])
    OBVIOUS
  <2>1. CASE n \in who /\ Marked(n)
    BY <2>1, MovesWellFormed, Zenon DEF Marked
  <2>2. CASE ~(n \in who /\ Marked(n))
    BY <2>2, WellFormedJobs
  <2> QED
    BY <2>1, <2>2
<1>2. job' = [n \in Names |-> next[n]]
  BY DEF Hears
<1> HIDE DEF next
<1> QED
  BY <1>1, <1>2, JobsReplaced

\* Whatever the authorizer does, it serves a document that loads, or none.
LEMMA ReloadSteps ==
  ASSUME ReloadTypeOK,
         \/ Start \/ Stop \/ BeginWatch \/ BeginWatchFails \/ Tick
         \/ LoadChanged \/ UNCHANGED reloadVars
  PROVE  ReloadTypeOK'
BY DocumentsAre
   DEF ReloadTypeOK, Start, Stop, BeginWatch, BeginWatchFails, Tick,
       LoadChanged, reloadVars, process

\* Nothing is under way at the beginning.
LEMMA TypeInitially == Init => TypeInv
<1> SUFFICES ASSUME Init PROVE TypeInv
  OBVIOUS
<1>1. ReloadTypeOK
  <2>1. Deployed \in Documents /\ Deployed \in Usable
    BY LifecycleAssumption
  <2> QED
    BY <2>1, DocumentsAre DEF Init, ReloadInit, ReloadTypeOK
<1>2. rel \subseteq {"operator", "home", "self", "enrolled"} \X Names
  BY LifecycleAssumption DEF Init, Names
<1>3. JobsWellFormed
  <2>1. \A n \in Names : job[n] = NoJob /\ ~Underway(n)
    BY ToldApart DEF Init, Underway
  <2>2. job \in [Names -> Job]
    BY ToldApart DEF Init
  <2> QED
    BY <2>1, <2>2 DEF JobsWellFormed
<1>4. configmap \in Documents
      /\ client \in [Names -> {"missing", "enabled", "disabled"}]
  BY LifecycleAssumption DEF Init
<1> QED
  BY <1>1, <1>2, <1>3, <1>4, BoundsAssumption
     DEF TypeInv, LifecycleTypeOK, JobsWellFormed, Init

\* A line of a command keeps the types.
LEMMA LineTypes ==
  ASSUME TypeInv, NEW n \in Names, Line(n)
  PROVE  TypeInv'
<1>1. Underway(n)
  BY DEF Line, Enable, Disable, Touch, Cut, Verify, ReadRegistry,
         ApplyRegistry, WaitForReload, WaitEnds, Doing
<1>2. WellFormed(n, After(n)) /\ WellFormed(n, NoJob)
  BY <1>1, MovesWellFormed
<1>3. Goes(n) \/ Fails(n) => JobsWellFormed'
  BY <1>2, JobReplaced DEF Goes, Fails
<1>4. UNCHANGED reloadVars => ReloadTypeOK'
  BY ReloadSteps DEF TypeInv, LifecycleTypeOK
<1>5. JobsWellFormed' => \A i \in Names : job'[i] \in Job
  BY DEF JobsWellFormed
<1> USE DEF TypeInv, LifecycleTypeOK
<1>6. ASSUME Enable(n) PROVE TypeInv'
  BY <1>3, <1>4, <1>5, <1>6 DEF Enable, counts
<1>7. ASSUME Disable(n) PROVE TypeInv'
  BY <1>3, <1>4, <1>5, <1>7 DEF Disable, counts
<1>8. ASSUME Touch(n) PROVE TypeInv'
  BY <1>3, <1>4, <1>5, <1>8 DEF Touch, counts
<1>9. ASSUME Cut(n) PROVE TypeInv'
  BY <1>3, <1>4, <1>5, <1>9 DEF Cut
<1>10. ASSUME Verify(n) PROVE TypeInv'
  BY <1>3, <1>4, <1>5, <1>10 DEF Verify, others, counts
<1>11. ASSUME WaitForReload(n) \/ WaitEnds(n) PROVE TypeInv'
  BY <1>3, <1>4, <1>5, <1>11 DEF WaitForReload, WaitEnds, others, counts
<1>12. ASSUME ReadRegistry(n) PROVE TypeInv'
  <2>1. JobsWellFormed'
    <3>1. PICK k \in Running :
            /\ job' = [job EXCEPT ![n] = k]
            /\ k.kind = job[n].kind /\ k.at = job[n].at + 1
            /\ k.at \in 1..Len(Script[k.kind])
      BY <1>12, ReadStep
    <3>2. WellFormed(n, k)
      BY <1>1, <3>1, JobFields, ToldApart DEF WellFormed
    <3> QED
      BY <3>1, <3>2, JobReplaced
  <2> QED
    BY <1>4, <1>5, <1>12, <2>1 DEF ReadRegistry, others, counts
<1>13. ASSUME ApplyRegistry(n) PROVE TypeInv'
  <2>1. After(n) \in Running
    BY <1>1, <1>13, AfterFields, JobFields, Scripts DEF ApplyRegistry, Doing
  <2>2. configmap' \in Documents
    BY <1>1, <1>13, DocumentsAre, JobFields DEF ApplyRegistry, Patched
  <2> DEFINE next == [i \in Names |->
                        IF i = n THEN [After(n) EXCEPT !.copy = {}]
                        ELSE Disturbed(i)]
  <2>3. \A i \in Names : WellFormed(i, next[i])
    <3>1. LET j == [After(n) EXCEPT !.copy = {}]
          IN  j \in Running /\ j.kind = After(n).kind /\ j.at = After(n).at
      BY <2>1, CopyUpdate, DocumentsAre, Zenon
    <3>2. WellFormed(n, [After(n) EXCEPT !.copy = {}])
      BY <1>2, <2>1, <3>1, ToldApart, Zenon DEF WellFormed
    <3> QED
      BY <3>2, MovesWellFormed
  <2>4. job' = [i \in Names |-> next[i]]
    BY <1>13 DEF ApplyRegistry
  <2> HIDE DEF next
  <2>5. JobsWellFormed'
    BY <2>3, <2>4, JobsReplaced
  <2> QED
    BY <1>4, <1>5, <1>13, <2>2, <2>5 DEF ApplyRegistry, counts
<1> QED
  BY <1>6, <1>7, <1>8, <1>9, <1>10, <1>11, <1>12, <1>13 DEF Line

\* The types hold from step to step.
LEMMA TypePreserved == TypeInv /\ [Next]_vars => TypeInv'
<1> SUFFICES ASSUME TypeInv, [Next]_vars PROVE TypeInv'
  OBVIOUS
<1>1. JobsWellFormed' => \A i \in Names : job'[i] \in Job
  BY DEF JobsWellFormed
<1>2. UNCHANGED reloadVars => ReloadTypeOK'
  BY ReloadSteps DEF TypeInv, LifecycleTypeOK
<1>3. ASSUME NEW n \in Names, NEW kind \in Kinds(n), Begin(n, kind)
      PROVE  TypeInv'
  <2> DEFINE j == [stage |-> "running", kind |-> kind, at |-> 1,
                   copy |-> {}, heard |-> FALSE, quiet |-> FALSE]
  <2>1. kind \in DOMAIN Script /\ 1 \in 1..Len(Script[kind])
    <3>1. \A len \in 1..8 : 1 \in 1..len
      OBVIOUS
    <3> QED
      BY <3>1, KindsAreScripts, ScriptLengths
  <2>2. WellFormed(n, j)
    BY <2>1, DocumentsAre DEF WellFormed, Job
  <2>3. job' = [job EXCEPT ![n] = j]
    BY <1>3 DEF Begin
  <2> HIDE DEF j
  <2>4. JobsWellFormed'
    BY <2>2, <2>3, JobReplaced
  <2>5. runs' \in 0..MaxRuns
    BY <1>3, BoundsAssumption DEF Begin, TypeInv, LifecycleTypeOK
  <2> QED
    BY <1>1, <1>2, <1>3, <2>4, <2>5
       DEF Begin, TypeInv, LifecycleTypeOK, others
<1>4. ASSUME NEW n \in Names, Die(n) PROVE TypeInv'
  <2>1. JobsWellFormed'
    BY <1>4, JobReplaced, MovesWellFormed DEF Die, Fails
  <2> QED
    BY <1>1, <1>2, <1>4, <2>1
       DEF Die, TypeInv, LifecycleTypeOK, others, counts
<1>5. ASSUME EditByHand PROVE TypeInv'
  <2>1. configmap' \in Documents
    BY <1>5, DocumentsAre DEF EditByHand, TypeInv, LifecycleTypeOK
  <2>2. JobsWellFormed'
    <3> DEFINE next == [i \in Names |-> Disturbed(i)]
    <3>1. job' = [i \in Names |-> next[i]]
      BY <1>5 DEF EditByHand
    <3>2. \A i \in Names : WellFormed(i, next[i])
      BY MovesWellFormed
    <3> HIDE DEF next
    <3> QED
      BY <3>1, <3>2, JobsReplaced
  <2> QED
    BY <1>1, <1>2, <1>5, <2>1, <2>2, BoundsAssumption
       DEF EditByHand, TypeInv, LifecycleTypeOK
<1>6. ASSUME Sync PROVE TypeInv'
  BY <1>6 DEF Sync, TypeInv, LifecycleTypeOK, ReloadTypeOK, JobsWellFormed,
              Underway, process, others, counts
<1>7. ASSUME AuthorizerRuns \/ AuthorizerStops PROVE TypeInv'
  <2>1. ReloadTypeOK'
    BY <1>7, ReloadSteps DEF AuthorizerRuns, AuthorizerStops, Reloads, Keeps,
                             TypeInv, LifecycleTypeOK
  <2>2. JobsWellFormed'
    BY <1>7, JobsHear DEF AuthorizerRuns, AuthorizerStops, TypeInv,
                          JobsWellFormed, Underway
  <2> QED
    BY <1>1, <1>7, <2>1, <2>2 DEF AuthorizerRuns, AuthorizerStops, TypeInv,
                                  LifecycleTypeOK, others, counts
<1>8. CASE UNCHANGED vars
  BY <1>1, <1>2, <1>8 DEF vars, TypeInv, LifecycleTypeOK, JobsWellFormed,
                          Underway, others, counts
<1> QED
  BY <1>3, <1>4, <1>5, <1>6, <1>7, <1>8, LineTypes DEF Next

\* However the commands, the edits and the authorizer interleave, nothing is
\* ever served that does not load, and no command leaves its script.
THEOREM LifecycleTypeCorrect == Spec => []LifecycleTypeOK
<1>1. TypeInv => LifecycleTypeOK
  BY DEF TypeInv
<1> QED
  BY <1>1, TypeInitially, TypePreserved, PTL DEF Spec

-----------------------------------------------------------------------------
(* Authority.                                                              *)

\* What a command that has got past a line may rely on: no other command is
\* about its name, and nothing else writes its relationships or its client.
\* A deletion that fails is passed over, so offboarding knows only after its
\* check that the authority is gone.
PastItsLines(n, kind, at) ==
  /\ kind \in Onboarding /\ at >= 2 => client[n] = "enabled"
  /\ kind = "onboardDevice" /\ at >= 5 => <<"operator", n>> \in rel
  /\ kind = "onboardDevice" /\ at >= 8 => <<"self", n>> \in rel
  /\ kind = "onboardAgent" /\ at >= 6 =>
       <<"operator", n>> \in rel /\ <<"enrolled", n>> \notin rel
  /\ kind = "offboardDevice" /\ at >= 2 =>
       n \in failed \/ <<"self", n>> \notin rel
  /\ kind = "offboardDevice" /\ at >= 4 => <<"self", n>> \notin rel
  /\ kind = "enrolAgent" /\ at >= 2 => <<"enrolled", n>> \in rel
  /\ kind = "offboardAgent" /\ at >= 2 =>
       \/ n \in failed
       \/ <<"operator", n>> \notin rel /\ <<"enrolled", n>> \notin rel

AuthorityInv ==
  /\ \A n \in Names : Underway(n) => PastItsLines(n, job[n].kind, job[n].at)
  /\ DevicesHaveOperators
  /\ DisabledMayNothing

\* A step that is not a line of i's command leaves it where it is, or breaks
\* it off.
StaysOrEnds(i) ==
  /\ Underway(i)' =>
       /\ Underway(i)
       /\ job'[i].kind = job[i].kind /\ job'[i].at = job[i].at
  /\ Underway(i) => job'[i].stage # "done"

\* What is in the log moves no command.
LEMMA HearsStays ==
  ASSUME TypeInv, NEW who, NEW h \in BOOLEAN, Hears(who, h), NEW i \in Names
  PROVE  StaysOrEnds(i)
<1>1. CASE i \in who /\ Marked(i)
  <2>1. job'[i] = [job[i] EXCEPT !.heard = h]
    BY <1>1 DEF Hears
  <2>2. Underway(i) /\ job[i] \in Running
    BY <1>1, JobFields DEF Marked
  <2> QED
    BY <2>1, <2>2, HeardUpdate, ToldApart DEF StaysOrEnds
<1>2. CASE ~(i \in who /\ Marked(i))
  BY <1>2 DEF Hears, StaysOrEnds, Underway
<1> QED
  BY <1>1, <1>2

\* Being disturbed moves no command.
LEMMA DisturbedStays ==
  ASSUME TypeInv, NEW i \in Names, job'[i] = Disturbed(i)
  PROVE  StaysOrEnds(i)
<1>1. CASE Underway(i)
  <2>1. job'[i] = [job[i] EXCEPT !.quiet = FALSE]
    BY <1>1 DEF Disturbed
  <2> QED
    BY <1>1, <2>1, JobFields, QuietUpdate, ToldApart DEF StaysOrEnds
<1>2. CASE ~Underway(i)
  BY <1>2 DEF Disturbed, StaysOrEnds, Underway
<1> QED
  BY <1>1, <1>2

\* A line takes its own command to its next line or to its end.
LEMMA LineMoves ==
  ASSUME TypeInv, NEW n \in Names, Line(n)
  PROVE  /\ Underway(n)
         /\ Underway(n)' =>
              /\ job'[n].kind = job[n].kind
              /\ job'[n].at = job[n].at + 1
         /\ \A i \in Names \ {n} : StaysOrEnds(i)
<1>1. Underway(n)
  BY DEF Line, Enable, Disable, Touch, Cut, Verify, ReadRegistry,
         ApplyRegistry, WaitForReload, WaitEnds, Doing
<1>2. Done.stage # "running" /\ NoJob.stage # "running"
  BY ToldApart
<1>3. ASSUME Goes(n) \/ Fails(n)
      PROVE  /\ Underway(n)' =>
                  /\ job'[n].kind = job[n].kind
                  /\ job'[n].at = job[n].at + 1
             /\ \A i \in Names \ {n} : StaysOrEnds(i)
  <2>1. \A i \in Names \ {n} : job'[i] = job[i]
    BY <1>3, WellFormedJobs DEF Goes, Fails
  <2>2. job'[n] \in {After(n), NoJob}
    BY <1>3, WellFormedJobs DEF Goes, Fails
  <2> QED
    BY <1>1, <1>2, <2>1, <2>2, AfterFields DEF StaysOrEnds, Underway
<1>4. ASSUME ReadRegistry(n)
      PROVE  /\ Underway(n)' =>
                  /\ job'[n].kind = job[n].kind
                  /\ job'[n].at = job[n].at + 1
             /\ \A i \in Names \ {n} : StaysOrEnds(i)
  BY <1>4, ReadStep, WellFormedJobs DEF StaysOrEnds, Underway
<1>5. ASSUME ApplyRegistry(n)
      PROVE  /\ Underway(n)' =>
                  /\ job'[n].kind = job[n].kind
                  /\ job'[n].at = job[n].at + 1
             /\ \A i \in Names \ {n} : StaysOrEnds(i)
  BY <1>5, ApplyStep, DisturbedStays
<1> QED
  BY <1>1, <1>3, <1>4, <1>5
     DEF Line, Enable, Disable, Touch, Cut, Verify, WaitForReload, WaitEnds

\* The deployment begins with devices that are in order.
LEMMA AuthorityInitially == Init => AuthorityInv
<1> SUFFICES ASSUME Init PROVE AuthorityInv
  OBVIOUS
<1>1. \A n \in Names : ~Underway(n)
  BY ToldApart DEF Init, Underway
<1>2. \A n \in Names : client[n] # "disabled"
  BY DEF Init
<1>3. \A d \in Devices : <<"self", d>> \in rel => <<"operator", d>> \in rel
  BY LifecycleAssumption DEF Init
<1> QED
  BY <1>1, <1>2, <1>3
     DEF AuthorityInv, DevicesHaveOperators, DisabledMayNothing, Names

\* A step that touches neither the graph nor a client, and moves no command.
LEMMA AuthorityStays ==
  ASSUME AuthorityInv, UNCHANGED <<rel, client, failed>>,
         \A i \in Names : StaysOrEnds(i)
  PROVE  AuthorityInv'
BY DEF AuthorityInv, PastItsLines, StaysOrEnds, DevicesHaveOperators,
       DisabledMayNothing

\* A line writes only about its own name.
LEMMA LineWrites ==
  ASSUME TypeInv, NEW n \in Names, Line(n), NEW i \in Names \ {n}
  PROVE  /\ \A r : <<r, i>> \in rel' <=> <<r, i>> \in rel
         /\ client'[i] = client[i]
         /\ i \in failed' <=> i \in failed
<1>1. client \in [Names -> {"missing", "enabled", "disabled"}]
  BY DEF TypeInv, LifecycleTypeOK
<1>2. CASE Enable(n) \/ Disable(n)
  BY <1>1, <1>2 DEF Enable, Disable, counts
<1>3. CASE Touch(n)
  BY <1>3 DEF Touch, counts
<1>4. CASE Cut(n)
  <2>1. \A op, r : <<r, i>> \notin Cuts(n)[op] \X {n}
    OBVIOUS
  <2> QED
    BY <1>4, <2>1 DEF Cut
<1>5. CASE \/ Verify(n) \/ ReadRegistry(n) \/ ApplyRegistry(n)
           \/ WaitForReload(n) \/ WaitEnds(n)
  BY <1>5 DEF Verify, ReadRegistry, ApplyRegistry, WaitForReload, WaitEnds,
              others, counts
<1> QED
  BY <1>2, <1>3, <1>4, <1>5 DEF Line

\* What each deletion takes away.
LEMMA CutsAre ==
  ASSUME NEW n \in Names
  PROVE  /\ n \in Devices => Cuts(n)["cut"] = {"home", "self"}
         /\ n \notin Devices => Cuts(n)["cut"] = {"operator", "enrolled"}
         /\ Cuts(n)["cutOperator"] = {"operator"}
         /\ Cuts(n)["cutDelegations"] = {}
BY DEF Cuts

\* No line takes away what its own or another command relies on.
LEMMA LineKeepsAuthority ==
  ASSUME TypeInv, AuthorityInv, NEW n \in Names, Line(n)
  PROVE  AuthorityInv'
<1>0. PICK kind, at : kind = job[n].kind /\ at = job[n].at
  OBVIOUS
<1> DEFINE Own == /\ Underway(n)' => PastItsLines(n, kind, at + 1)'
                  /\ n \in Devices \ failed' =>
                       /\ <<"self", n>> \in rel' => <<"operator", n>> \in rel'
                       /\ client'[n] = "disabled" => <<"self", n>> \notin rel'
<1>1. /\ Underway(n) /\ kind \in DOMAIN Script /\ at \in 1..8
      /\ at \in 1..Len(Script[kind]) /\ kind \in Kinds(n)
  BY <1>0, LineMoves, JobFields
<1>2. PastItsLines(n, kind, at)
  BY <1>0, <1>1 DEF AuthorityInv
<1>3. /\ n \in Devices => kind \in {"onboardDevice", "offboardDevice"}
      /\ n \notin Devices =>
           kind \in {"onboardAgent", "enrolAgent", "offboardAgent"}
  BY <1>1 DEF Kinds
<1>4. n \in Devices \ failed =>
        /\ <<"self", n>> \in rel => <<"operator", n>> \in rel
        /\ client[n] = "disabled" => <<"self", n>> \notin rel
  BY DEF AuthorityInv, DevicesHaveOperators, DisabledMayNothing
<1>5. client \in [Names -> {"missing", "enabled", "disabled"}]
  BY DEF TypeInv, LifecycleTypeOK
<1>6. SUFFICES Own
  <2>1. ASSUME NEW i \in Names, Underway(i)'
        PROVE  PastItsLines(i, job[i].kind, job[i].at)'
    <3>1. PICK k, a : k = job'[i].kind /\ a = job'[i].at
      OBVIOUS
    <3>2. CASE i = n
      BY <1>0, <2>1, <3>1, <3>2, LineMoves
    <3>3. CASE i # n
      <4>1. PastItsLines(i, k, a)
        BY <2>1, <3>1, <3>3, LineMoves DEF AuthorityInv, StaysOrEnds
      <4>2. PastItsLines(i, k, a)'
        BY <3>3, <4>1, LineWrites DEF PastItsLines
      <4> QED
        BY <3>1, <4>2
    <3> QED
      BY <3>2, <3>3
  <2>2. DevicesHaveOperators' /\ DisabledMayNothing'
    BY LineWrites DEF AuthorityInv, DevicesHaveOperators, DisabledMayNothing,
                      Names
  <2> QED
    BY <2>1, <2>2 DEF AuthorityInv
<1> USE DEF PastItsLines
<1>7. CASE Enable(n)
  <2>1. kind \in Onboarding /\ at = 1
    BY <1>0, <1>1, <1>7, Scripts DEF Enable, Doing
  <2> QED
    BY <1>1, <1>2, <1>3, <1>4, <1>5, <1>7, <2>1 DEF Enable, Onboarding, counts
<1>8. CASE Disable(n)
  <2>1. \/ kind = "offboardDevice" /\ at = 4
        \/ kind = "offboardAgent" /\ at = 3
    BY <1>0, <1>1, <1>8, Scripts DEF Disable, Doing
  <2> QED
    BY <1>1, <1>2, <1>3, <1>4, <1>5, <1>8, <2>1 DEF Disable, Onboarding, counts
<1>9. CASE Touch(n)
  <2>1. PICK r \in {"operator", "home", "self", "enrolled"} :
          Doing(n, r) /\ rel' = rel \cup {<<r, n>>}
    BY <1>9 DEF Touch
  <2>2. /\ r = "operator" => kind \in Onboarding /\ at = 4
        /\ r = "home" => kind = "onboardDevice" /\ at = 5
        /\ r = "self" => kind = "onboardDevice" /\ at = 6
        /\ r = "enrolled" => kind = "enrolAgent" /\ at = 1
    BY <1>0, <1>1, <2>1, Scripts DEF Doing
  <2> QED
    BY <1>1, <1>2, <1>3, <1>4, <1>9, <2>1, <2>2 DEF Touch, Onboarding, counts
<1>10. CASE Cut(n)
  <2>1. PICK op \in {"cut", "cutOperator", "cutDelegations"} :
          /\ Doing(n, op)
          /\ \/ rel' = rel \ (Cuts(n)[op] \X {n}) /\ failed' = failed
             \/ rel' = rel /\ failed' = failed \cup {n}
    BY <1>10 DEF Cut
  <2>2. /\ op = "cut" =>
             kind \in {"offboardDevice", "offboardAgent"} /\ at = 1
        /\ op = "cutOperator" => kind = "offboardDevice" /\ at = 2
        /\ op = "cutDelegations" => kind = "offboardAgent" /\ at = 2
    BY <1>0, <1>1, <2>1, Scripts DEF Doing
  <2> QED
    BY <1>1, <1>2, <1>3, <1>4, <1>10, <2>1, <2>2, CutsAre
       DEF Cut, Onboarding
<1>11. CASE Verify(n)
  <2>1. Underway(n)' => Verified(kind, n)
    BY <1>0, <1>11, ToldApart, WellFormedJobs DEF Verify, Fails, Underway
  <2>2. \/ kind = "onboardDevice" /\ at = 7
        \/ kind = "offboardDevice" /\ at = 3
        \/ kind = "onboardAgent" /\ at = 5
        \/ kind = "enrolAgent" /\ at = 2
    BY <1>0, <1>1, <1>11, Scripts DEF Verify, Doing
  <2>3. rel' = rel /\ client' = client /\ failed' = failed
    BY <1>11 DEF Verify, others, counts
  <2>4. Underway(n)' =>
          /\ kind = "onboardDevice" =>
               <<"self", n>> \in rel /\ <<"operator", n>> \in rel
          /\ kind = "offboardDevice" => <<"self", n>> \notin rel
          /\ kind = "onboardAgent" =>
               <<"operator", n>> \in rel /\ <<"enrolled", n>> \notin rel
    BY <2>1 DEF Verified
  <2> QED
    BY <1>1, <1>2, <1>3, <1>4, <2>2, <2>3, <2>4 DEF Onboarding
<1>12. CASE ReadRegistry(n) \/ ApplyRegistry(n)
  <2>1. at = ReadLine(kind) \/ at = ReadLine(kind) + 1
    BY <1>0, <1>1, <1>12, Scripts DEF ReadRegistry, ApplyRegistry, Doing
  <2>2. /\ at >= 2 /\ at + 1 # 8 /\ kind # "enrolAgent"
        /\ kind = "onboardDevice" => at # 4 /\ at + 1 # 5
        /\ kind = "onboardAgent" => at + 1 < 6
        /\ kind = "offboardDevice" => at >= 4
    BY <1>1, <2>1 DEF ReadLine, Onboarding
  <2>3. rel' = rel /\ client' = client /\ failed' = failed
    BY <1>12 DEF ReadRegistry, ApplyRegistry, others, counts
  <2> QED
    BY <1>1, <1>2, <1>3, <1>4, <2>2, <2>3 DEF Onboarding
<1>13. CASE WaitForReload(n) \/ WaitEnds(n)
  <2>1. ~Underway(n)'
    BY <1>0, <1>1, <1>13, Scripts, ToldApart, WellFormedJobs
       DEF WaitForReload, WaitEnds, Doing, Goes, Fails, After, Underway
  <2> QED
    BY <1>4, <1>13, <2>1 DEF WaitForReload, WaitEnds, others, counts
<1> QED
  BY <1>7, <1>8, <1>9, <1>10, <1>11, <1>12, <1>13 DEF Line

\* Nor does any other step.
LEMMA AuthorityPreserved ==
  TypeInv /\ AuthorityInv /\ [Next]_vars => AuthorityInv'
<1> SUFFICES ASSUME TypeInv, AuthorityInv, [Next]_vars PROVE AuthorityInv'
  OBVIOUS
<1>1. ASSUME NEW n \in Names, NEW kind \in Kinds(n), Begin(n, kind)
      PROVE  AuthorityInv'
  <2>1. /\ rel' = rel /\ client' = client /\ failed' = failed
        /\ job' = [job EXCEPT ![n] =
                     [stage |-> "running", kind |-> kind, at |-> 1,
                      copy |-> {}, heard |-> FALSE, quiet |-> FALSE]]
    BY <1>1 DEF Begin, others
  <2>2. \A i \in Names \ {n} : job'[i] = job[i]
    BY <2>1, WellFormedJobs
  <2>3. job'[n].at = 1
    BY <2>1, WellFormedJobs
  <2> QED
    BY <2>1, <2>2, <2>3
       DEF AuthorityInv, PastItsLines, DevicesHaveOperators,
           DisabledMayNothing, Underway
<1>2. ASSUME NEW n \in Names, Die(n) PROVE AuthorityInv'
  <2>1. \A i \in Names : StaysOrEnds(i)
    BY <1>2, WellFormedJobs, ToldApart DEF Die, Fails, StaysOrEnds, Underway
  <2> QED
    BY <1>2, <2>1, AuthorityStays DEF Die, others, counts
<1>3. ASSUME EditByHand PROVE AuthorityInv'
  <2>1. \A i \in Names : StaysOrEnds(i)
    BY <1>3, DisturbedStays DEF EditByHand
  <2> QED
    BY <1>3, <2>1, AuthorityStays DEF EditByHand
<1>4. ASSUME AuthorizerRuns \/ AuthorizerStops PROVE AuthorityInv'
  <2>1. \A i \in Names : StaysOrEnds(i)
    BY <1>4, HearsStays DEF AuthorizerRuns, AuthorizerStops, StaysOrEnds,
                            Underway
  <2> QED
    BY <1>4, <2>1, AuthorityStays
       DEF AuthorizerRuns, AuthorizerStops, others, counts
<1>5. ASSUME Sync \/ UNCHANGED vars PROVE AuthorityInv'
  <2>1. \A i \in Names : StaysOrEnds(i)
    BY <1>5 DEF Sync, vars, StaysOrEnds, Underway
  <2> QED
    BY <1>5, <2>1, AuthorityStays DEF Sync, vars, others, counts
<1> QED
  BY <1>1, <1>2, <1>3, <1>4, <1>5, LineKeepsAuthority DEF Next

\* Where every command is, and what it may rely on there.
LEMMA LifecycleInvariant == Spec => [](TypeInv /\ AuthorityInv)
BY TypeInitially, TypePreserved, AuthorityInitially, AuthorityPreserved,
   PTL DEF Spec

\* A device that may report has an operator, wherever the commands about it
\* have stopped, unless SpiceDB has failed to delete.
THEOREM OperatorsAnswer == Spec => []DevicesHaveOperators
<1>1. AuthorityInv => DevicesHaveOperators
  BY DEF AuthorityInv
<1> QED
  BY <1>1, LifecycleInvariant, PTL

\* A device whose client is disabled may do nothing, unless SpiceDB has failed
\* to delete.
THEOREM AuthorityGoesFirst == Spec => []DisabledMayNothing
<1>1. AuthorityInv => DisabledMayNothing
  BY DEF AuthorityInv
<1> QED
  BY <1>1, LifecycleInvariant, PTL

-----------------------------------------------------------------------------
(* How a command ends well.                                                *)

\* Commands that edit the document end by waiting for it.
LEMMA LastLines ==
  \A kind \in DOMAIN Script \ {"enrolAgent"} :
    Script[kind][Len(Script[kind])] = "wait"
<1>1. /\ OnboardDevice[Len(OnboardDevice)] = "wait"
      /\ OffboardDevice[Len(OffboardDevice)] = "wait"
      /\ OnboardAgent[Len(OnboardAgent)] = "wait"
      /\ OffboardAgent[Len(OffboardAgent)] = "wait"
  BY DEF OnboardDevice, OffboardDevice, OnboardAgent, OffboardAgent
<1> QED
  BY <1>1 DEF Script

\* Only its own last line ends a command well.
LEMMA FinishesAtItsEnd ==
  ASSUME TypeInv, [Next]_vars, NEW n \in Names,
         Finishes(n, DOMAIN Script)
  PROVE  /\ job[n].at = Len(Script[job[n].kind])
         /\ Line(n) /\ ~ReadRegistry(n) /\ ~ApplyRegistry(n)
<1>1. Underway(n) /\ job'[n].stage = "done" /\ job'[n].stage # "running"
  BY DEF Finishes
<1>2. ~StaysOrEnds(n)
  BY <1>1 DEF StaysOrEnds
<1>3. Line(n)
  <2>1. \A i \in Names : ~Die(i)
    <3> SUFFICES ASSUME NEW i \in Names, Die(i) PROVE FALSE
      OBVIOUS
    <3>1. job'[n] = IF i = n THEN NoJob ELSE job[n]
      BY WellFormedJobs DEF Die, Fails
    <3> QED
      BY <1>1, <3>1, ToldApart DEF Underway
  <2>2. \A i \in Names : \A kind \in Kinds(i) : ~Begin(i, kind)
    <3> SUFFICES ASSUME NEW i \in Names, NEW kind \in Kinds(i), Begin(i, kind)
                 PROVE  FALSE
      OBVIOUS
    <3>1. i # n /\ job'[n] = job[n]
      BY <1>1, WellFormedJobs DEF Begin
    <3> QED
      BY <1>1, <3>1 DEF Underway
  <2>3. ~EditByHand
    BY <1>2, DisturbedStays DEF EditByHand
  <2>4. ~AuthorizerRuns /\ ~AuthorizerStops /\ ~Sync /\ ~UNCHANGED vars
    BY <1>1, <1>2, HearsStays
       DEF AuthorizerRuns, AuthorizerStops, Sync, vars, Underway
  <2>5. \A i \in Names \ {n} : ~Line(i)
    BY <1>2, LineMoves
  <2> QED
    BY <2>1, <2>2, <2>3, <2>4, <2>5 DEF Next
<1>4. ~ReadRegistry(n) /\ ~ApplyRegistry(n)
  BY <1>1, ReadStep, ApplyStep, ToldApart, WellFormedJobs
<1>5. Goes(n) \/ Fails(n)
  BY <1>3, <1>4 DEF Line, Enable, Disable, Touch, Cut, Verify, WaitForReload,
                    WaitEnds
<1>6. job'[n] \in {After(n), NoJob}
  BY <1>5, WellFormedJobs DEF Goes, Fails
<1>7. After(n) = Done /\ job[n].at = Len(Script[job[n].kind])
  BY <1>1, <1>6, AfterFields, ToldApart
<1> QED
  BY <1>3, <1>4, <1>7

\* A command that has edited the document ends by hearing of a reload.
LEMMA FinishesByWaiting ==
  ASSUME TypeInv, [Next]_vars, NEW n \in Names,
         Finishes(n, DOMAIN Script \ {"enrolAgent"})
  PROVE  /\ job[n].at = Len(Script[job[n].kind])
         /\ WaitForReload(n)
<1>1. Underway(n) /\ job'[n].stage = "done" /\ job'[n].stage # "running"
  BY DEF Finishes
<1>2. Finishes(n, DOMAIN Script)
  BY DEF Finishes
<1>7. /\ job[n].at = Len(Script[job[n].kind])
      /\ Line(n) /\ ~ReadRegistry(n) /\ ~ApplyRegistry(n)
  BY <1>2, FinishesAtItsEnd
<1>8. Script[job[n].kind][job[n].at] = "wait"
  BY <1>1, <1>7, JobFields, LastLines DEF Finishes
<1>9. ~WaitEnds(n)
  BY <1>1, WellFormedJobs, ToldApart DEF WaitEnds, Fails
<1> QED
  BY <1>7, <1>8, <1>9
     DEF Line, Enable, Disable, Touch, Cut, Verify, Doing

\* A command that ends well has done what it says; offboard_agent, which does
\* not look, where no deletion has failed.
THEOREM SuccessWasTrue == Spec => SuccessIsTrue
<1> DEFINE Told(n) ==
      /\ Finishes(n, {"onboardDevice"}) =>
           /\ {<<"self", n>>, <<"operator", n>>} \subseteq rel
           /\ client[n] = "enabled"
      /\ Finishes(n, {"onboardAgent"}) =>
           /\ <<"operator", n>> \in rel /\ <<"enrolled", n>> \notin rel
           /\ client[n] = "enabled"
      /\ Finishes(n, {"enrolAgent"}) => <<"enrolled", n>> \in rel
      /\ Finishes(n, {"offboardDevice"}) => <<"self", n>> \notin rel
      /\ Finishes(n, {"offboardAgent"}) /\ n \notin failed =>
           <<"operator", n>> \notin rel /\ <<"enrolled", n>> \notin rel
<1>1. ASSUME TypeInv, AuthorityInv, [Next]_vars, NEW n \in Names
      PROVE  Told(n)
  <2>1. ASSUME NEW kind \in DOMAIN Script, Finishes(n, {kind})
        PROVE  PastItsLines(n, kind, Len(Script[kind]))
    <3>1. Finishes(n, DOMAIN Script) /\ job[n].kind = kind
      BY <2>1 DEF Finishes
    <3>2. Underway(n) /\ job[n].at = Len(Script[kind])
      BY <1>1, <3>1, FinishesAtItsEnd DEF Finishes
    <3> QED
      BY <1>1, <3>1, <3>2 DEF AuthorityInv
  <2>2. {"onboardDevice", "onboardAgent", "enrolAgent", "offboardDevice",
         "offboardAgent"} \subseteq DOMAIN Script
    BY DEF Script
  <2>3. ASSUME Finishes(n, {"onboardDevice"})
        PROVE  PastItsLines(n, "onboardDevice", 8)
    BY <2>1, <2>2, <2>3, ScriptLengths
  <2>4. ASSUME Finishes(n, {"onboardAgent"})
        PROVE  PastItsLines(n, "onboardAgent", 6)
    BY <2>1, <2>2, <2>4, ScriptLengths
  <2>5. ASSUME Finishes(n, {"enrolAgent"})
        PROVE  PastItsLines(n, "enrolAgent", 2)
    BY <2>1, <2>2, <2>5, ScriptLengths
  <2>6. ASSUME Finishes(n, {"offboardDevice"})
        PROVE  PastItsLines(n, "offboardDevice", 7)
    BY <2>1, <2>2, <2>6, ScriptLengths
  <2>7. ASSUME Finishes(n, {"offboardAgent"})
        PROVE  PastItsLines(n, "offboardAgent", 6)
    BY <2>1, <2>2, <2>7, ScriptLengths
  <2> QED
    BY <2>3, <2>4, <2>5, <2>6, <2>7 DEF PastItsLines, Onboarding
<1>2. TypeInv /\ AuthorityInv /\ [Next]_vars =>
        [\A n \in Names : Told(n)]_vars
  BY <1>1
<1> QED
  BY <1>2, LifecycleInvariant, PTL DEF Spec, SuccessIsTrue

-----------------------------------------------------------------------------
(* Reloads.                                                                *)

\* ext-authz has seen nothing new since the mark.
Unseen(n) ==
  /\ ~job[n].heard
  /\ point # "changed"
  /\ last \in {None, file}

\* What a command knows between the mark and its end, when it was quiet at
\* the mark and has been since.  Until the kubelet copies what was applied,
\* ext-authz has nothing to reload, however often it is restarted; from then
\* on any reload is of that document.
QuietlyApplied(n) ==
  Underway(n) /\ job[n].quiet =>
    /\ job[n].at > ReadLine(job[n].kind)
    /\ job[n].at = ReadLine(job[n].kind) + 1 => file = configmap /\ Unseen(n)
    /\ job[n].at > ReadLine(job[n].kind) + 1 =>
         /\ n \in configmap <=> job[n].kind \in Onboarding
         /\ \/ Unseen(n)
            \/ file = configmap /\ (job[n].heard => served = configmap)

\* What the loop has tried it remembers, until the process stops.
WatchRemembers ==
  /\ last # None <=> point \in {"watching", "changed"}
  /\ current # None <=> point = "changed"

ReloadInv == WatchRemembers /\ \A n \in Names : QuietlyApplied(n)

\* No command waits for a reload at the beginning.
LEMMA ReloadInitially == Init => ReloadInv
BY ToldApart, ReloadAssumption, LifecycleAssumption
   DEF Init, ReloadInit, ReloadInv, WatchRemembers, QuietlyApplied, Underway

\* ext-authz remembers a fingerprint as long as it watches.
LEMMA WatchGoesOn ==
  ASSUME ReloadTypeOK, WatchRemembers,
         \/ Start \/ Stop \/ BeginWatch \/ BeginWatchFails \/ Tick
         \/ LoadChanged \/ UNCHANGED process
  PROVE  WatchRemembers'
BY ReloadAssumption
   DEF ReloadTypeOK, WatchRemembers, Start, Stop, BeginWatch, BeginWatchFails,
       Tick, LoadChanged, process

\* The mark stands before what is applied.
LEMMA ReadsThenApplies ==
  ASSUME NEW kind \in DOMAIN Script
  PROVE  /\ kind # "enrolAgent" =>
              /\ Script[kind][ReadLine(kind)] = "read"
              /\ Script[kind][ReadLine(kind) + 1] = "apply"
         /\ kind = "enrolAgent" => ReadLine(kind) = 9
         /\ ReadLine(kind) \in 1..9
<1> USE DEF Script, ReadLine, Onboarding
<1>1. CASE kind \in {"onboardDevice", "onboardAgent"}
  BY <1>1 DEF OnboardDevice, OnboardAgent
<1>2. CASE kind = "offboardDevice"
  BY <1>2 DEF OffboardDevice
<1>3. CASE kind = "offboardAgent"
  BY <1>3 DEF OffboardAgent
<1>4. CASE kind = "enrolAgent"
  BY <1>4
<1> QED
  BY <1>1, <1>2, <1>3, <1>4

\* A quiet command keeps what it has been told.
LEMMA QuietStays ==
  ASSUME NEW n \in Names, QuietlyApplied(n),
         UNCHANGED <<reloadVars, configmap>>,
         Underway(n)' /\ job'[n].quiet =>
           /\ Underway(n) /\ job[n].quiet
           /\ job'[n].kind = job[n].kind /\ job'[n].at = job[n].at
           /\ job'[n].heard = job[n].heard
  PROVE  QuietlyApplied(n)'
BY DEF QuietlyApplied, Unseen, reloadVars, process, Underway

\* Of a command that was disturbed nothing is claimed.
LEMMA NobodyQuiet ==
  ASSUME TypeInv, NEW n \in Names, job'[n] = Disturbed(n)
  PROVE  QuietlyApplied(n)'
<1>1. CASE Underway(n)
  <2>1. job'[n] = [job[n] EXCEPT !.quiet = FALSE]
    BY <1>1 DEF Disturbed
  <2>2. job'[n].quiet = FALSE
    BY <1>1, <2>1, JobFields, QuietUpdate
  <2> QED
    BY <2>2 DEF QuietlyApplied
<1>2. CASE ~Underway(n)
  BY <1>2 DEF Disturbed, QuietlyApplied, Underway
<1> QED
  BY <1>1, <1>2

\* The lines in between do not touch the document.
LEMMA LineKeepsQuiet ==
  ASSUME TypeInv, ReloadInv, NEW m \in Names, Line(m), NEW n \in Names
  PROVE  QuietlyApplied(n)'
<1>1. QuietlyApplied(n) /\ Underway(m)
  BY LineMoves DEF ReloadInv
<1>2. CASE ReadRegistry(m)
  <2>1. UNCHANGED <<reloadVars, configmap>>
    BY <1>2 DEF ReadRegistry, others
  <2>2. CASE n # m
    <3>1. job'[n] = job[n]
      BY <1>2, <2>2, WellFormedJobs DEF ReadRegistry
    <3> QED
      BY <1>1, <2>1, <3>1, QuietStays DEF Underway
  <2>3. CASE n = m
    <3>1. PICK k \in Running :
            /\ job'[n] = k /\ k.kind = job[n].kind /\ k.at = job[n].at + 1
            /\ k.quiet => Settled /\ ~k.heard
      BY <1>2, <2>3, ReadStep, WellFormedJobs
    <3>2. job[n].at = ReadLine(job[n].kind) /\ job[n].at \in 1..8
      BY <1>1, <1>2, <2>3, JobFields, Scripts DEF ReadRegistry, Doing
    <3>3. job'[n].quiet => Settled /\ ~job'[n].heard
      BY <3>1
    <3>4. job'[n].at = ReadLine(job'[n].kind) + 1
      BY <3>1, <3>2
    <3>5. ~(job'[n].at > ReadLine(job'[n].kind) + 1)
          /\ job'[n].at > ReadLine(job'[n].kind)
      BY <3>2, <3>4, <3>1
    <3> QED
      BY <2>1, <3>3, <3>4, <3>5
         DEF QuietlyApplied, Unseen, Settled, reloadVars, process
  <2> QED
    BY <2>2, <2>3
<1>3. CASE ApplyRegistry(m)
  <2>1. CASE n # m
    BY <1>3, <2>1, ApplyStep, NobodyQuiet
  <2>2. CASE n = m
    <3>1. UNCHANGED reloadVars /\ configmap' = Patched(n)
      BY <1>3, <2>2 DEF ApplyRegistry
    <3>2. /\ job'[n].kind = job[n].kind /\ job'[n].at = job[n].at + 1
          /\ job'[n].heard = job[n].heard /\ job'[n].quiet = job[n].quiet
          /\ job[n].at = ReadLine(job[n].kind) + 1 /\ job[n].at \in 1..8
      BY <1>1, <1>3, <2>2, ApplyStep, JobFields
    <3>3. n \in Patched(n) <=> job[n].kind \in Onboarding
      BY DEF Patched
    <3>4. /\ ReadLine(job[n].kind) \in 1..9
      BY <1>1, <2>2, JobFields, ReadsThenApplies
    <3> QED
      BY <1>1, <2>2, <3>1, <3>2, <3>3, <3>4
         DEF QuietlyApplied, Unseen, reloadVars, process, Underway
  <2> QED
    BY <2>1, <2>2
<1>4. CASE \/ Enable(m) \/ Disable(m) \/ Touch(m) \/ Cut(m) \/ Verify(m)
           \/ WaitForReload(m) \/ WaitEnds(m)
  <2>1. UNCHANGED <<reloadVars, configmap>> /\ (Goes(m) \/ Fails(m))
    BY <1>4 DEF Enable, Disable, Touch, Cut, Verify, WaitForReload, WaitEnds,
                others
  <2>2. CASE n # m
    <3>1. job'[n] = job[n]
      BY <2>1, <2>2, WellFormedJobs DEF Goes, Fails
    <3> QED
      BY <1>1, <2>1, <3>1, QuietStays DEF Underway
  <2>3. CASE n = m
    <3>1. job'[n] \in {After(n), NoJob}
      BY <2>1, <2>3, WellFormedJobs DEF Goes, Fails
    <3>2. Underway(n)' =>
            /\ job'[n].kind = job[n].kind /\ job'[n].at = job[n].at + 1
            /\ job'[n].heard = job[n].heard /\ job'[n].quiet = job[n].quiet
      BY <1>1, <2>3, <3>1, AfterFields, ToldApart DEF Underway
    <3>3. Script[job[n].kind][job[n].at] # "apply"
      BY <1>4, <2>3 DEF Enable, Disable, Touch, Cut, Verify, WaitForReload,
                        WaitEnds, Doing
    <3>4. job[n].at # ReadLine(job[n].kind) + 1
      BY <1>1, <2>3, <3>3, JobFields, ReadsThenApplies
    <3>5. ReadLine(job[n].kind) \in 1..9 /\ job[n].at \in 1..8
      BY <1>1, <2>3, JobFields, ReadsThenApplies
    <3>6. ASSUME Underway(n)', job'[n].quiet
          PROVE  /\ job[n].at > ReadLine(job[n].kind) + 1
                 /\ n \in configmap <=> job[n].kind \in Onboarding
                 /\ \/ Unseen(n)
                    \/ file = configmap /\ (job[n].heard => served = configmap)
      <4>1. Underway(n) /\ job[n].quiet
        BY <1>1, <2>3, <3>2, <3>6
      <4>2. \A at \in 1..8, line \in 1..9 :
              at > line /\ at # line + 1 => at > line + 1
        OBVIOUS
      <4>3. job[n].at > ReadLine(job[n].kind)
        BY <1>1, <4>1 DEF QuietlyApplied
      <4>4. job[n].at > ReadLine(job[n].kind) + 1
        BY <3>4, <3>5, <4>2, <4>3
      <4> QED
        BY <1>1, <4>1, <4>4 DEF QuietlyApplied
    <3>7. \A at \in 1..8, line \in 1..9 :
            at > line + 1 => at + 1 > line + 1 /\ at + 1 # line + 1
      OBVIOUS
    <3>8. UNCHANGED <<file, point, served, last, configmap>>
      BY <2>1 DEF reloadVars, process
    <3> QED
      BY <3>2, <3>5, <3>6, <3>7, <3>8 DEF QuietlyApplied, Unseen
  <2> QED
    BY <2>2, <2>3
<1> QED
  BY <1>2, <1>3, <1>4 DEF Line

\* What a command hears is of the process that runs.
LEMMA HearsOf ==
  ASSUME TypeInv, NEW who, NEW h \in BOOLEAN, Hears(who, h),
         NEW n \in Names, Underway(n)'
  PROVE  /\ Underway(n)
         /\ job'[n].kind = job[n].kind /\ job'[n].at = job[n].at
         /\ job'[n].quiet = job[n].quiet
         /\ job'[n].heard \in {h, job[n].heard}
         /\ n \in who /\ job[n].at > ReadLine(job[n].kind) =>
              job'[n].heard = h
<1>0. Underway(n)
  BY HearsStays DEF StaysOrEnds
<1>1. ASSUME job[n].at > ReadLine(job[n].kind) PROVE Marked(n)
  <2>1. /\ job[n].at \in 1..8 /\ job[n].kind \in DOMAIN Script
        /\ ReadLine(job[n].kind) \in 1..9
    BY <1>0, JobFields, ReadsThenApplies
  <2>2. ReadLine(job[n].kind) \in 1..(job[n].at - 1)
    BY <1>1, <2>1
  <2>3. job[n].kind # "enrolAgent"
    BY <1>1, <2>1, ReadsThenApplies
  <2> QED
    BY <1>0, <2>1, <2>2, <2>3, ReadsThenApplies DEF Marked
<1>2. CASE n \in who /\ Marked(n)
  <2>1. job'[n] = [job[n] EXCEPT !.heard = h]
    BY <1>2 DEF Hears
  <2>2. /\ job'[n] \in Running /\ job'[n].kind = job[n].kind
        /\ job'[n].at = job[n].at /\ job'[n].quiet = job[n].quiet
        /\ job'[n].heard = h
    BY <1>0, <2>1, JobFields, HeardUpdate
  <2> QED
    BY <1>0, <2>2
<1>3. CASE ~(n \in who /\ Marked(n))
  BY <1>0, <1>1, <1>3 DEF Hears
<1> QED
  BY <1>2, <1>3

\* Every step leaves an undisturbed edit on its way or served.
LEMMA ReloadPreserved ==
  TypeInv /\ ReloadInv /\ [Next]_vars => ReloadInv'
<1> SUFFICES ASSUME TypeInv, ReloadInv, [Next]_vars PROVE ReloadInv'
  OBVIOUS
<1>1. ReloadTypeOK /\ WatchRemembers
  BY DEF TypeInv, LifecycleTypeOK, ReloadInv
<1>2. WatchRemembers'
  <2>1. \A n \in Names : Line(n) => UNCHANGED process
    BY DEF Line, Enable, Disable, Touch, Cut, Verify, ReadRegistry,
           ApplyRegistry, WaitForReload, WaitEnds, reloadVars
  <2> QED
    BY <1>1, <2>1, WatchGoesOn
       DEF Next, Begin, Die, EditByHand, Sync, AuthorizerRuns,
           AuthorizerStops, Reloads, Keeps, vars, reloadVars
<1>3. ASSUME NEW n \in Names PROVE QuietlyApplied(n)'
  <2>1. QuietlyApplied(n)
    BY DEF ReloadInv
  <2>2. ASSUME NEW m \in Names, NEW kind \in Kinds(m), Begin(m, kind)
        PROVE  QuietlyApplied(n)'
    <3>1. job'[n] = IF n = m THEN [stage |-> "running", kind |-> kind,
                                   at |-> 1, copy |-> {}, heard |-> FALSE,
                                   quiet |-> FALSE]
                    ELSE job[n]
      BY <2>2, WellFormedJobs DEF Begin
    <3>2. CASE n = m
      <4>1. job'[n].quiet = FALSE
        BY <3>1, <3>2
      <4> QED
        BY <4>1 DEF QuietlyApplied
    <3>3. CASE n # m
      BY <2>1, <2>2, <3>1, <3>3, QuietStays DEF Begin, others, Underway
    <3> QED
      BY <3>2, <3>3
  <2>3. ASSUME NEW m \in Names, Die(m) PROVE QuietlyApplied(n)'
    <3>1. job'[n] = IF n = m THEN NoJob ELSE job[n]
      BY <2>3, WellFormedJobs DEF Die, Fails
    <3> QED
      BY <2>1, <2>3, <3>1, QuietStays, ToldApart DEF Die, others, Underway
  <2>4. CASE EditByHand
    BY <2>4, NobodyQuiet DEF EditByHand
  <2>5. CASE Sync
    BY <2>1, <2>5 DEF Sync, QuietlyApplied, Unseen, Underway, process, others
  <2>6. CASE AuthorizerRuns
    <3>1. CASE /\ \/ Start \/ BeginWatch \/ BeginWatchFails \/ Tick \/ Keeps
               /\ UNCHANGED job
      BY <1>1, <2>1, <2>6, <3>1
         DEF AuthorizerRuns, Start, BeginWatch, BeginWatchFails, Tick, Keeps,
             LoadChanged, WatchRemembers, QuietlyApplied, Unseen, Underway,
             others
    <3>2. CASE Reloads /\ \E who \in SUBSET Names : Hears(who, TRUE)
      BY <1>1, <2>1, <2>6, <3>2, HearsOf
         DEF AuthorizerRuns, Reloads, LoadChanged, QuietlyApplied, Unseen,
             others
    <3> QED
      BY <2>6, <3>1, <3>2 DEF AuthorizerRuns
  <2>7. CASE AuthorizerStops
    BY <1>1, <2>1, <2>7, HearsOf
       DEF AuthorizerStops, Stop, QuietlyApplied, Unseen, others
  <2>8. CASE UNCHANGED vars
    BY <2>1, <2>8, QuietStays DEF vars, others, Underway
  <2> QED
    BY <2>2, <2>3, <2>4, <2>5, <2>6, <2>7, <2>8, LineKeepsQuiet DEF Next
<1> QED
  BY <1>2, <1>3 DEF ReloadInv

\* Where every command is, and how far its edit has travelled.
LEMMA ReloadInvariant == Spec => [](TypeInv /\ ReloadInv)
BY TypeInitially, TypePreserved, ReloadInitially, ReloadPreserved, PTL DEF Spec

\* A command that ends well is live, when at the mark the authorizer had nothing
\* pending and no reload in its log that could be taken for a later one, and
\* nobody else has written since, restarts or not.
THEOREM SuccessIsServed == Spec => SuccessIsLive
<1>1. ASSUME TypeInv, ReloadInv, [Next]_vars, NEW n \in Names,
             Finishes(n, DOMAIN Script \ {"enrolAgent"}), job[n].quiet
      PROVE  n \in served <=> job[n].kind \in Onboarding
  <2>1. WaitForReload(n) /\ job[n].at = Len(Script[job[n].kind])
    BY <1>1, FinishesByWaiting
  <2>2. Underway(n) /\ job[n].heard /\ job[n].kind # "enrolAgent"
    BY <1>1, <2>1 DEF WaitForReload, Finishes
  <2>3. job[n].at > ReadLine(job[n].kind) + 1
    <3>1. job[n].kind \in {"onboardDevice", "offboardDevice",
                           "onboardAgent", "offboardAgent"}
      BY <1>1, <2>2, JobFields DEF Script
    <3>2. Len(Script[job[n].kind]) > ReadLine(job[n].kind) + 1
      BY <3>1, WaitsAfterApplying
    <3> QED
      BY <2>1, <3>2
  <2> QED
    BY <1>1, <2>2, <2>3 DEF ReloadInv, QuietlyApplied, Unseen
<1>2. TypeInv /\ ReloadInv /\ [Next]_vars =>
        [\A n \in Names :
           Finishes(n, DOMAIN Script \ {"enrolAgent"}) /\ job[n].quiet =>
             (n \in served <=> job[n].kind \in Onboarding)]_vars
  BY <1>1
<1> QED
  BY <1>2, ReloadInvariant, PTL DEF Spec, SuccessIsLive
=============================================================================
