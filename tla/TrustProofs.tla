----------------------------- MODULE TrustProofs -----------------------------
(***************************************************************************)
(* Theorems about trust, for any directories, files, versions, commands,   *)
(* and any number of edits and plannings.                                  *)
(***************************************************************************)
EXTENDS Trust, SequenceTheorems, TLAPS

Digests == UNION {[S -> Versions] : S \in SUBSET Files}
Contents == Digests \cup {Absent, Partial}
Phases == {"idle", "hashing", "removing", "creating", "writing", "taking", "done", "failed"}

DiskTypeOK ==
    /\ disk \in [Files -> Versions]
    /\ edits \in Nat

RecordsTypeOK ==
    /\ store \in [Dirs -> Contents]
    /\ vouched \subseteq Files \X Versions
    /\ moved \subseteq Dirs
    /\ standing \in [Clis -> SUBSET Dirs]

CommandsTypeOK ==
    /\ phase \in [Clis -> Phases]
    /\ dir \in [Clis -> Dirs \cup {None}]
    /\ \A c \in Clis : phase[c] # "idle" => dir[c] \in Dirs
    /\ hashes \in [Clis -> Digests]
    /\ seen \in [Clis -> SUBSET Dirs]

BaseTypeOK ==
    /\ checking \in Files \cup {None}
    /\ read \in Versions \cup {None}
    /\ checking # None => read \in Versions
    /\ next \in Nat \ {0}
    /\ plan \in Seq(Versions)
    /\ verdict \in {"none", "planned", "refused"}
    /\ running \in Versions \cup {None}
    /\ plans \in Nat

TypeOK == DiskTypeOK /\ RecordsTypeOK /\ CommandsTypeOK /\ BaseTypeOK

-----------------------------------------------------------------------------
(* What a record says is a file of the cartridge and a version.            *)
LEMMA VouchedType ==
    ASSUME NEW s \in [Dirs -> Contents]
    PROVE  Vouched(s) \subseteq Files \X Versions
<1> SUFFICES ASSUME NEW d \in Dirs, Record(s[d]), NEW f \in DOMAIN s[d]
             PROVE  <<f, s[d][f]>> \in Files \X Versions
  BY DEF Vouched, VouchedBy
<1>1. s[d] \in Digests
  BY DEF Record, Contents
<1> QED BY <1>1 DEF Digests

LEMMA StoreType ==
    ASSUME RecordsTypeOK, NEW d \in Dirs, NEW r \in Contents, Store(d, r)
    PROVE  RecordsTypeOK'
<1>1. store' \in [Dirs -> Contents]
  BY DEF Store, RecordsTypeOK
<1>2. Vouched(store') \subseteq Files \X Versions
  BY <1>1, VouchedType
<1> QED BY <1>1, <1>2 DEF Store, RecordsTypeOK

LEMMA TypeInit == Init => TypeOK
<1> SUFFICES ASSUME Init PROVE TypeOK
  OBVIOUS
<1>1. <<>> \in Digests
  <2>1. <<>> \in [{} -> Versions]
    OBVIOUS
  <2> QED BY <2>1 DEF Digests
<1> QED
  BY <1>1, TrustAssumption
  DEF Init, TypeOK, DiskTypeOK, RecordsTypeOK, CommandsTypeOK, BaseTypeOK, Contents, Phases

LEMMA TypeCommands ==
    ASSUME TypeOK, NEW c \in Clis,
           \/ \E d \in Dirs : (\E ask \in BOOLEAN : Trust(c, d, ask)) \/ Revoke(c, d)
           \/ Hash(c) \/ RemoveRecord(c) \/ CreateRecord(c) \/ WriteRecord(c)
           \/ TakeRecord(c) \/ Revoked(c)
    PROVE  TypeOK'
<1> USE DEF TypeOK
<1>1. DiskTypeOK' /\ BaseTypeOK'
  BY DEF Trust, Revoke, Hash, RemoveRecord, CreateRecord, WriteRecord, TakeRecord, Revoked,
         DiskTypeOK, BaseTypeOK, files, base
<1>2. ASSUME NEW d \in Dirs, NEW ask \in BOOLEAN, Trust(c, d, ask) PROVE TypeOK'
  BY <1>1, <1>2 DEF Trust, records, RecordsTypeOK, CommandsTypeOK, Phases
<1>3. ASSUME NEW d \in Dirs, Revoke(c, d) PROVE TypeOK'
  <2>1. {b \in Beneath(d) : Record(store[b])} \in SUBSET Dirs
    BY DEF Beneath
  <2> QED BY <1>1, <1>3, <2>1 DEF Revoke, RecordsTypeOK, CommandsTypeOK, Phases
<1>4. CASE Hash(c)
  <2>1. PICK f \in FilesOf(dir[c]) \ DOMAIN hashes[c] :
           hashes' = [hashes EXCEPT ![c] = [g \in DOMAIN @ \cup {f} |-> IF g = f THEN disk[f] ELSE @[g]]]
    BY <1>4 DEF Hash
  <2>2. PICK S \in SUBSET Files : hashes[c] \in [S -> Versions]
    BY DEF CommandsTypeOK, Digests
  <2>3. f \in Files /\ disk[f] \in Versions
    BY DEF FilesOf, DiskTypeOK
  <2>4. [g \in DOMAIN hashes[c] \cup {f} |-> IF g = f THEN disk[f] ELSE hashes[c][g]]
           \in [S \cup {f} -> Versions]
    BY <2>2, <2>3
  <2>5. S \cup {f} \in SUBSET Files
    BY <2>2, <2>3
  <2>6. hashes' \in [Clis -> Digests]
    BY <2>1, <2>4, <2>5 DEF CommandsTypeOK, Digests
  <2> QED BY <1>1, <1>4, <2>6 DEF Hash, records, RecordsTypeOK, CommandsTypeOK, Phases
<1>5. CASE RemoveRecord(c)
  <2>1. dir[c] \in Dirs
    BY <1>5 DEF RemoveRecord, CommandsTypeOK
  <2>2. RecordsTypeOK'
    BY <1>5, <2>1, StoreType DEF RemoveRecord, records, RecordsTypeOK, Contents
  <2> QED BY <1>1, <1>5, <2>1, <2>2 DEF RemoveRecord, CommandsTypeOK, Phases
<1>6. CASE CreateRecord(c)
  <2>1. dir[c] \in Dirs
    BY <1>6 DEF CreateRecord, CommandsTypeOK
  <2>2. RecordsTypeOK'
    BY <1>6, <2>1, StoreType DEF CreateRecord, records, RecordsTypeOK, Contents
  <2> QED BY <1>1, <1>6, <2>1, <2>2 DEF CreateRecord, CommandsTypeOK, Phases
<1>7. CASE WriteRecord(c)
  <2>1. dir[c] \in Dirs /\ hashes[c] \in Contents
    BY <1>7 DEF WriteRecord, CommandsTypeOK, Contents
  <2>2. RecordsTypeOK'
    BY <1>7, <2>1, StoreType DEF WriteRecord, records, RecordsTypeOK
  <2> QED BY <1>1, <1>7, <2>1, <2>2 DEF WriteRecord, CommandsTypeOK, Phases
<1>8. CASE TakeRecord(c)
  <2>1. PICK b \in seen[c] :
           /\ seen' = [seen EXCEPT ![c] = @ \ {b}]
           /\ IF store[b] = Absent
              THEN /\ phase' = [phase EXCEPT ![c] = "failed"]
                   /\ UNCHANGED records
              ELSE /\ Store(b, Absent)
                   /\ UNCHANGED phase
    BY <1>8 DEF TakeRecord
  <2>2. b \in Dirs
    BY DEF CommandsTypeOK
  <2>3. RecordsTypeOK'
    BY <2>1, <2>2, StoreType DEF records, RecordsTypeOK, Contents
  <2> QED BY <1>1, <1>8, <2>1, <2>3 DEF TakeRecord, CommandsTypeOK, Phases
<1>9. CASE Revoked(c)
  BY <1>1, <1>9 DEF Revoked, records, RecordsTypeOK, CommandsTypeOK, Phases
<1> QED BY <1>2, <1>3, <1>4, <1>5, <1>6, <1>7, <1>8, <1>9

LEMMA TypeBase ==
    ASSUME TypeOK, Plan \/ Look \/ Refuse \/ Apply
    PROVE  TypeOK'
<1> USE DEF TypeOK
<1>1. DiskTypeOK' /\ CommandsTypeOK'
  BY DEF Plan, Look, Refuse, Apply, files, commands, DiskTypeOK, CommandsTypeOK
<1>2. CASE Plan
  <2>1. Vouched(store) \subseteq Files \X Versions
    BY VouchedType DEF RecordsTypeOK
  <2>2. disk[Manifest] \in Versions /\ Manifest \in Files
    BY TrustAssumption DEF DiskTypeOK
  <2> QED BY <1>1, <1>2, <2>1, <2>2 DEF Plan, ReadFile, RecordsTypeOK, BaseTypeOK
<1>3. CASE Look
  <2>1. disk[Entry] \in Versions /\ Entry \in Files /\ read \in Versions
    BY <1>3, TrustAssumption DEF Look, DiskTypeOK, BaseTypeOK
  <2>2. RecordsTypeOK'
    BY <1>3 DEF Look, records, RecordsTypeOK
  <2>3. CASE Matches(Above[checking][next])
    BY <1>1, <1>3, <2>1, <2>2, <2>3 DEF Look, Checked, ReadFile, BaseTypeOK
  <2>4. CASE ~Matches(Above[checking][next])
    BY <1>1, <1>3, <2>1, <2>2, <2>4 DEF Look, BaseTypeOK
  <2> QED BY <2>3, <2>4
<1>4. CASE Refuse
  BY <1>1, <1>4 DEF Refuse, records, RecordsTypeOK, BaseTypeOK
<1>5. CASE Apply
  BY <1>1, <1>5, TrustAssumption DEF Apply, records, RecordsTypeOK, BaseTypeOK, DiskTypeOK
<1> QED BY <1>2, <1>3, <1>4, <1>5

LEMMA TypeStep == TypeOK /\ [Next]_vars => TypeOK'
<1> SUFFICES ASSUME TypeOK, [Next]_vars PROVE TypeOK'
  OBVIOUS
<1>1. ASSUME NEW f \in Files, Edit(f) PROVE TypeOK'
  BY <1>1 DEF Edit, records, commands, base, TypeOK, DiskTypeOK, RecordsTypeOK, CommandsTypeOK, BaseTypeOK
<1>2. CASE UNCHANGED vars
  BY <1>2 DEF vars, files, records, commands, base,
     TypeOK, DiskTypeOK, RecordsTypeOK, CommandsTypeOK, BaseTypeOK
<1> QED BY <1>1, <1>2, TypeCommands, TypeBase DEF Next

(* The records hold digests of files, or nothing, or an unfinished record; *)
(* a command is about a directory; the base reads versions.  trust/mod.rs. *)
THEOREM TypeCorrect == Spec => []TypeOK
BY TypeInit, TypeStep, PTL DEF Spec

-----------------------------------------------------------------------------
(* The inductive invariant.  What the records say is vouched for, ...      *)
StoreInv == Vouched(store) \subseteq vouched

(* ... a file is checked after those before it, with nothing running, ...  *)
CheckInv ==
    checking # None =>
        /\ verdict = "none"
        /\ running = None
        /\ \/ checking = Manifest /\ plan = <<>>
           \/ checking = Entry /\ Len(plan) = 1 /\ <<Manifest, plan[1]>> \in vouched

(* ... what is planned has passed, and what runs was planned.              *)
PlannedInv ==
    verdict = "planned" =>
        /\ Len(plan) = 2
        /\ <<Manifest, plan[1]>> \in vouched
        /\ <<Entry, plan[2]>> \in vouched

RunningInv == running # None => verdict = "planned" /\ running = plan[2]

(* The records passed over did not match, unless they have changed since.  *)
LookedInv ==
    checking # None =>
        \A j \in 1 .. Len(Above[checking]) :
            j < next /\ Above[checking][j] \notin moved => ~Matches(Above[checking][j])

(* What a revocation has yet to remove it has seen.                        *)
StandingInv ==
    \A c \in Clis :
        /\ phase[c] = "taking" => standing[c] \subseteq seen[c]
        /\ phase[c] \notin {"taking", "failed"} => standing[c] = {}

IInv == StoreInv /\ CheckInv /\ PlannedInv /\ RunningInv /\ LookedInv /\ StandingInv

LEMMA InvInit == Init => IInv
<1> SUFFICES ASSUME Init PROVE IInv
  OBVIOUS
<1>1. StoreInv
  BY DEF Init, StoreInv, Vouched, VouchedBy, Record
<1>2. StandingInv
  BY DEF Init, StandingInv
<1> QED BY <1>1, <1>2 DEF Init, IInv, CheckInv, PlannedInv, RunningInv, LookedInv

(* A record that changes adds to what was vouched for, and leaves the rest *)
(* as it was.                                                              *)
LEMMA StoreKeeps ==
    ASSUME TypeOK, IInv, NEW d \in Dirs, NEW r, Store(d, r), UNCHANGED base
    PROVE  StoreInv' /\ CheckInv' /\ PlannedInv' /\ RunningInv' /\ LookedInv'
<1>1. vouched \subseteq vouched' /\ StoreInv'
  BY DEF Store, StoreInv
<1>2. CheckInv' /\ PlannedInv' /\ RunningInv'
  BY <1>1 DEF base, IInv, CheckInv, PlannedInv, RunningInv
<1>3. LookedInv'
  <2> SUFFICES ASSUME checking # None, NEW j \in 1 .. Len(Above[checking]), j < next,
                      Above[checking][j] \notin moved'
               PROVE  ~Matches(Above[checking][j])'
    BY DEF base, LookedInv
  <2> DEFINE e == Above[checking][j]
  <2>1. e # d /\ e \notin moved
    BY DEF Store
  <2>2. e \in Dirs
    BY TrustAssumption DEF TypeOK, BaseTypeOK
  <2>3. store'[e] = store[e]
    BY <2>1, <2>2 DEF Store, TypeOK, RecordsTypeOK
  <2>4. ~Matches(e)
    BY <2>1 DEF IInv, LookedInv
  <2> QED BY <2>3, <2>4 DEF Matches, base
<1> QED BY <1>1, <1>2, <1>3

(* A step that changes no record and nothing of the base.                  *)
LEMMA QuietKeeps ==
    ASSUME IInv, UNCHANGED <<store, vouched, moved, base>>
    PROVE  StoreInv' /\ CheckInv' /\ PlannedInv' /\ RunningInv' /\ LookedInv'
BY DEF IInv, base, StoreInv, CheckInv, PlannedInv, RunningInv, LookedInv, Matches

(* Every step of a command is one of the two.                              *)
LEMMA CommandsKeep ==
    ASSUME TypeOK, IInv, NEW c \in Clis,
           \/ \E d \in Dirs : (\E ask \in BOOLEAN : Trust(c, d, ask)) \/ Revoke(c, d)
           \/ Hash(c) \/ RemoveRecord(c) \/ CreateRecord(c) \/ WriteRecord(c)
           \/ TakeRecord(c) \/ Revoked(c)
    PROVE  StoreInv' /\ CheckInv' /\ PlannedInv' /\ RunningInv' /\ LookedInv'
<1>1. UNCHANGED base
  BY DEF Trust, Revoke, Hash, RemoveRecord, CreateRecord, WriteRecord, TakeRecord, Revoked
<1>2. UNCHANGED <<store, vouched, moved>> \/ \E d \in Dirs, r \in Contents : Store(d, r)
  <2>1. phase[c] # "idle" => dir[c] \in Dirs
    BY DEF TypeOK, CommandsTypeOK
  <2>2. hashes[c] \in Contents /\ Absent \in Contents /\ Partial \in Contents
    BY DEF TypeOK, CommandsTypeOK, Contents
  <2>3. CASE \/ \E d \in Dirs : (\E ask \in BOOLEAN : Trust(c, d, ask)) \/ Revoke(c, d)
             \/ Hash(c) \/ Revoked(c)
    BY <2>3 DEF Trust, Revoke, Hash, Revoked, records
  <2>4. CASE RemoveRecord(c) \/ CreateRecord(c) \/ WriteRecord(c)
    BY <2>1, <2>2, <2>4 DEF RemoveRecord, CreateRecord, WriteRecord, records
  <2>5. CASE TakeRecord(c)
    <3>1. seen[c] \subseteq Dirs
      BY DEF TypeOK, CommandsTypeOK
    <3> QED BY <2>2, <2>5, <3>1 DEF TakeRecord, records
  <2> QED BY <2>3, <2>4, <2>5
<1> QED BY <1>1, <1>2, StoreKeeps, QuietKeeps

LEMMA StandingCommands ==
    ASSUME TypeOK, StandingInv, NEW c \in Clis,
           \/ \E d \in Dirs : (\E ask \in BOOLEAN : Trust(c, d, ask)) \/ Revoke(c, d)
           \/ Hash(c) \/ RemoveRecord(c) \/ CreateRecord(c) \/ WriteRecord(c)
           \/ TakeRecord(c) \/ Revoked(c)
    PROVE  StandingInv'
<1> USE DEF TypeOK, RecordsTypeOK, CommandsTypeOK, StandingInv
<1>1. ASSUME NEW d \in Dirs, NEW ask \in BOOLEAN, Trust(c, d, ask) PROVE StandingInv'
  BY <1>1 DEF Trust, records
<1>2. ASSUME NEW d \in Dirs, Revoke(c, d) PROVE StandingInv'
  BY <1>2 DEF Revoke
<1>3. CASE Hash(c) \/ Revoked(c)
  BY <1>3 DEF Hash, Revoked, records
<1>4. CASE RemoveRecord(c)
  BY <1>4 DEF RemoveRecord, Store, records
<1>5. CASE CreateRecord(c)
  BY <1>5 DEF CreateRecord, Store, records
<1>6. CASE WriteRecord(c)
  BY <1>6 DEF WriteRecord, Store, records
<1>7. CASE TakeRecord(c)
  BY <1>7 DEF TakeRecord, Store, records
<1> QED BY <1>1, <1>2, <1>3, <1>4, <1>5, <1>6, <1>7

(* A file that matches a record is vouched for.                            *)
LEMMA MatchIsVouched ==
    ASSUME TypeOK, StoreInv, NEW d \in Dirs, Matches(d)
    PROVE  <<checking, read>> \in vouched
BY DEF Matches, StoreInv, Vouched, VouchedBy

(* A second element goes behind the first.                                 *)
LEMMA AppendSecond ==
    ASSUME NEW S, NEW s \in Seq(S), NEW x \in S, Len(s) = 1
    PROVE  Len(Append(s, x)) = 2 /\ Append(s, x)[1] = s[1] /\ Append(s, x)[2] = x
<1>1. Len(Append(s, x)) = Len(s) + 1 /\ Append(s, x)[Len(s) + 1] = x
  BY AppendProperties
<1>2. \A i \in 1 .. Len(s) : Append(s, x)[i] = s[i]
  BY AppendProperties
<1>3. 1 \in 1 .. Len(s) /\ Len(s) + 1 = 2
  OBVIOUS
<1> QED BY <1>1, <1>2, <1>3

LEMMA LookKeeps ==
    ASSUME TypeOK, IInv, Look
    PROVE  CheckInv' /\ PlannedInv' /\ RunningInv' /\ LookedInv'
<1> DEFINE d == Above[checking][next]
<1>1. checking \in Files /\ d \in Dirs /\ next \in 1 .. Len(Above[checking])
  BY TrustAssumption DEF Look, TypeOK, BaseTypeOK
<1>2. verdict = "none" /\ running = None /\ UNCHANGED <<running, vouched, moved, store>>
  BY DEF Look, IInv, CheckInv, records
<1>3. plan \in Seq(Versions) /\ read \in Versions
  BY <1>1 DEF Look, TypeOK, BaseTypeOK
<1>4. CASE Matches(d)
  <2>1. <<checking, read>> \in vouched
    BY <1>1, <1>4, MatchIsVouched DEF IInv
  <2>2. CASE checking = Manifest
    <3>1. plan = <<>>
      BY <2>2, TrustAssumption DEF Look, IInv, CheckInv
    <3>2. checking' = Entry /\ plan' = <<read>> /\ next' = 1 /\ UNCHANGED verdict
      BY <1>4, <2>2, <3>1 DEF Look, Checked, ReadFile
    <3> QED BY <1>2, <2>1, <2>2, <3>2 DEF CheckInv, PlannedInv, RunningInv, LookedInv
  <2>3. CASE checking # Manifest
    <3>1. checking = Entry /\ Len(plan) = 1 /\ <<Manifest, plan[1]>> \in vouched
      BY <2>3 DEF Look, IInv, CheckInv
    <3>2. checking' = None /\ plan' = Append(plan, read)
      BY <1>4, <2>3 DEF Look, Checked
    <3>3. Len(plan') = 2 /\ plan'[1] = plan[1] /\ plan'[2] = read
      BY <1>3, <3>1, <3>2, AppendSecond
    <3> QED BY <1>2, <2>1, <3>1, <3>2, <3>3 DEF CheckInv, PlannedInv, RunningInv, LookedInv
  <2> QED BY <2>2, <2>3
<1>5. CASE ~Matches(d)
  <2>1. next' = next + 1 /\ UNCHANGED <<checking, read, plan, verdict>>
    BY <1>5 DEF Look
  <2>2. CheckInv' /\ PlannedInv' /\ RunningInv'
    BY <1>2, <2>1 DEF IInv, CheckInv, PlannedInv, RunningInv
  <2>3. LookedInv'
    <3> SUFFICES ASSUME NEW j \in 1 .. Len(Above[checking]), j < next + 1,
                        Above[checking][j] \notin moved
                 PROVE  ~Matches(Above[checking][j])
      BY <1>2, <2>1 DEF LookedInv, Matches
    <3>1. CASE j = next
      BY <1>5, <3>1
    <3>2. CASE j # next
      <4>1. j < next
        BY <3>2 DEF TypeOK, BaseTypeOK
      <4> QED BY <4>1 DEF Look, IInv, LookedInv
    <3> QED BY <3>1, <3>2
  <2> QED BY <2>2, <2>3
<1> QED BY <1>4, <1>5

LEMMA InvStep == TypeOK /\ IInv /\ [Next]_vars => IInv'
<1> SUFFICES ASSUME TypeOK, IInv, [Next]_vars PROVE IInv'
  OBVIOUS
<1>1. ASSUME NEW f \in Files, Edit(f) PROVE IInv'
  <2>1. UNCHANGED <<store, vouched, moved, base, standing, phase, seen>>
    BY <1>1 DEF Edit, records, commands
  <2> QED BY <2>1, QuietKeeps DEF IInv, StandingInv
<1>2. ASSUME NEW c \in Clis,
             \/ \E d \in Dirs : (\E ask \in BOOLEAN : Trust(c, d, ask)) \/ Revoke(c, d)
             \/ Hash(c) \/ RemoveRecord(c) \/ CreateRecord(c) \/ WriteRecord(c)
             \/ TakeRecord(c) \/ Revoked(c)
      PROVE  IInv'
  BY <1>2, CommandsKeep, StandingCommands DEF IInv
<1>3. CASE Plan
  <2>1. StandingInv'
    BY <1>3 DEF Plan, commands, IInv, StandingInv
  <2>2. StoreInv'
    BY <1>3 DEF Plan, StoreInv, Vouched, VouchedBy
  <2>3. checking' = Manifest /\ plan' = <<>> /\ verdict' = "none" /\ running' = None /\ next' = 1
    BY <1>3 DEF Plan, ReadFile
  <2> QED BY <2>1, <2>2, <2>3 DEF IInv, CheckInv, PlannedInv, RunningInv, LookedInv
<1>4. CASE Look
  <2>1. StandingInv' /\ StoreInv'
    BY <1>4 DEF Look, records, commands, IInv, StandingInv, StoreInv, Vouched, VouchedBy
  <2> QED BY <1>4, <2>1, LookKeeps DEF IInv
<1>5. CASE Refuse
  BY <1>5 DEF Refuse, records, commands, IInv, StandingInv, StoreInv, CheckInv, PlannedInv,
     RunningInv, LookedInv, Vouched, VouchedBy
<1>6. CASE Apply
  BY <1>6 DEF Apply, records, commands, IInv, StandingInv, StoreInv, CheckInv, PlannedInv,
     RunningInv, LookedInv, Vouched, VouchedBy, Matches
<1>7. CASE UNCHANGED vars
  BY <1>7, QuietKeeps DEF vars, records, commands, IInv, StandingInv
<1> QED BY <1>1, <1>2, <1>3, <1>4, <1>5, <1>6, <1>7 DEF Next

(* What the records vouch for is known, checks come in order, and what     *)
(* runs passed them.                                                       *)
THEOREM ChecksHold == Spec => []IInv
<1>1. Init => TypeOK /\ IInv
  BY TypeInit, InvInit
<1>2. TypeOK /\ IInv /\ [Next]_vars => (TypeOK /\ IInv)'
  BY TypeStep, InvStep
<1> QED BY <1>1, <1>2, PTL DEF Spec

(* A node never runs, and no manifest is planned from, a content nobody    *)
(* vouched for during that planning, whatever is edited, recorded or       *)
(* revoked meanwhile.  trust/mod.rs:93, src/docs/architecture.txt:48-50.    *)
THEOREM RunsWhatWasVouchedHolds == Spec => []RunsWhatWasVouched
<1>1. IInv => RunsWhatWasVouched
  BY DEF IInv, RunningInv, PlannedInv, RunsWhatWasVouched
<1> QED BY <1>1, ChecksHold, PTL

(* No check refuses a file that a directory above recorded all along, for  *)
(* any depth of directories.  trust/mod.rs:123-152.                        *)
THEOREM AnyRecordAuthorisesHolds == Spec => []AnyRecordAuthorises
<1>1. TypeOK /\ IInv => AnyRecordAuthorises
  <2> SUFFICES ASSUME TypeOK, IInv, checking # None, next > Len(Above[checking]),
                      NEW d \in DirsOf(checking) \ moved
               PROVE  ~Matches(d)
    BY DEF AnyRecordAuthorises, Matches
  <2>1. PICK j \in 1 .. Len(Above[checking]) : d = Above[checking][j]
    BY DEF DirsOf
  <2>2. j < next
    BY TrustAssumption DEF TypeOK, BaseTypeOK
  <2> QED BY <2>1, <2>2 DEF IInv, LookedInv
<1> QED BY <1>1, ChecksHold, TypeCorrect, PTL

(* A revocation that has ended left none of the complete records it found. *)
(* trust/mod.rs:275-285.                                                   *)
THEOREM RevokedIsGoneHolds == Spec => []RevokedIsGone
<1>1. IInv => RevokedIsGone
  BY DEF IInv, StandingInv, RevokedIsGone
<1> QED BY <1>1, ChecksHold, PTL

=============================================================================
