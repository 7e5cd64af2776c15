------------------------------- MODULE Trust -------------------------------
(***************************************************************************)
(* What of a project may run (src/src/trust/mod.rs): commands that record  *)
(* the digests of a directory's files or take the records back, the base   *)
(* that checks a cartridge's manifest and entry against the records of the *)
(* directories above them (loader/document.rs), and the node that runs the *)
(* entry the base checked (node/mod.rs), with files edited at any moment.  *)
(*                                                                         *)
(* A digest is the version of a file it was taken of. A record is written  *)
(* in three steps, remove, create and write (write_private), that readers  *)
(* of other processes see between.                                         *)
(***************************************************************************)
EXTENDS Integers, Sequences, FiniteSets

CONSTANTS
    Dirs,      \* directories that may be recorded
    Above,     \* of a file, the directories above it, the nearest first
    Manifest,  \* of the cartridge
    Entry,
    Versions,  \* a file may have
    Clis,      \* runs of `cartridge trust`
    Edits,     \* bound on edits
    Plans,     \* bound on plannings
    Absent,    \* in place of a record: there is none
    Partial,   \* created and not written yet: unreadable
    None

Files == DOMAIN Above
DirsOf(f) == {Above[f][i] : i \in 1..Len(Above[f])}
FilesOf(d) == {f \in Files : d \in DirsOf(f)}

\* d and the directories beneath it.
Beneath(d) == {b \in Dirs : FilesOf(b) \subseteq FilesOf(d)}

ASSUME TrustAssumption ==
    /\ Manifest \in Files /\ Entry \in Files /\ Manifest # Entry
    /\ \A f \in Files : Above[f] \in Seq(Dirs)
    /\ 0 \in Versions
    /\ Edits \in Nat /\ Plans \in Nat

VARIABLES
    disk,     \* the version of each file
    store,    \* of each directory its record, a function of files, or what stands for it
    \* the commands
    phase,    \* idle, hashing, removing, creating, writing, taking, done, failed
    dir,      \* the directory the command is about
    hashes,   \* digests it has taken
    seen,     \* records it found and will remove
    standing, \* records there were when it began to revoke, unchanged since
    \* the base, planning the cartridge
    checking, \* the file it checks, or None
    read,     \* the version it read of that file
    next,     \* the directory whose record it looks at next
    plan,     \* versions checked so far
    verdict,  \* none, planned, refused
    running,  \* the version of the entry the node runs, or None
    \* bounds, and what only the properties look at
    edits,
    plans,
    vouched,  \* file and version in a record at some moment of this planning
    moved     \* directories whose record changed during it

files == <<disk, edits>>
records == <<store, vouched, moved, standing>>
commands == <<phase, dir, hashes, seen>>
base == <<checking, read, next, plan, verdict, running, plans>>
vars == <<files, records, commands, base>>

Record(s) == s \notin {Absent, Partial}

Init ==
    /\ disk = [f \in Files |-> 0]
    /\ store = [d \in Dirs |-> Absent]
    /\ phase = [c \in Clis |-> "idle"]
    /\ dir = [c \in Clis |-> None]
    /\ hashes = [c \in Clis |-> <<>>]
    /\ seen = [c \in Clis |-> {}]
    /\ standing = [c \in Clis |-> {}]
    /\ checking = None
    /\ read = None
    /\ next = 1
    /\ plan = <<>>
    /\ verdict = "none"
    /\ running = None
    /\ edits = 0
    /\ plans = 0
    /\ vouched = {}
    /\ moved = {}

-----------------------------------------------------------------------------

VouchedBy(d, s) == IF Record(s[d]) THEN {<<f, s[d][f]>> : f \in DOMAIN s[d]} ELSE {}
Vouched(s) == UNION {VouchedBy(d, s) : d \in Dirs}

\* The record of a directory changes.
Store(d, record) ==
    /\ store' = [store EXCEPT ![d] = record]
    /\ vouched' = vouched \cup Vouched(store')
    /\ moved' = moved \cup {d}
    /\ standing' = [c \in Clis |-> standing[c] \ {d}]

Edit(f) ==
    /\ edits < Edits
    /\ edits' = edits + 1
    /\ \E v \in Versions \ {disk[f]} : disk' = [disk EXCEPT ![f] = v]
    /\ UNCHANGED <<records, commands, base>>

-----------------------------------------------------------------------------
\* cartridge trust.

\* strict, as one look: what `pending` shows and `ask` asks about.
Passes(f) == \E d \in DirsOf(f) : Record(store[d]) /\ f \in DOMAIN store[d] /\ store[d][f] = disk[f]
Pending(d) == {f \in FilesOf(d) : ~Passes(f)}

\* `trust <dir>`, or `trust --ask <dir>` and a yes: with nothing pending it
\* ends without a record, and the answer covers whatever is hashed later.
Trust(c, d, ask) ==
    /\ phase[c] = "idle"
    /\ dir' = [dir EXCEPT ![c] = d]
    /\ phase' = [phase EXCEPT ![c] = IF ask /\ Pending(d) = {} THEN "done" ELSE "hashing"]
    /\ UNCHANGED <<files, records, hashes, seen, base>>

\* record_files: one file after the other, as collect found them.
Hash(c) ==
    /\ phase[c] = "hashing"
    /\ \E f \in FilesOf(dir[c]) \ DOMAIN hashes[c] :
          hashes' = [hashes EXCEPT ![c] = [g \in DOMAIN @ \cup {f} |-> IF g = f THEN disk[f] ELSE @[g]]]
    /\ phase' = [phase EXCEPT ![c] = IF DOMAIN hashes'[c] = FilesOf(dir[c]) THEN "removing" ELSE @]
    /\ UNCHANGED <<files, records, dir, seen, base>>

\* write_private: the old record goes, whatever it was,
RemoveRecord(c) ==
    /\ phase[c] = "removing"
    /\ IF store[dir[c]] = Absent THEN UNCHANGED records ELSE Store(dir[c], Absent)
    /\ phase' = [phase EXCEPT ![c] = "creating"]
    /\ UNCHANGED <<files, dir, hashes, seen, base>>

\* a new file is made, unless another command was faster,
CreateRecord(c) ==
    /\ phase[c] = "creating"
    /\ IF store[dir[c]] = Absent
       THEN /\ Store(dir[c], Partial)
            /\ phase' = [phase EXCEPT ![c] = "writing"]
       ELSE /\ phase' = [phase EXCEPT ![c] = "failed"]
            /\ UNCHANGED records
    /\ UNCHANGED <<files, dir, hashes, seen, base>>

\* and its text written. It goes nowhere when the file was removed meanwhile.
WriteRecord(c) ==
    /\ phase[c] = "writing"
    /\ IF store[dir[c]] = Partial
       THEN Store(dir[c], hashes[c])
       ELSE UNCHANGED records
    /\ phase' = [phase EXCEPT ![c] = "done"]
    /\ UNCHANGED <<files, dir, hashes, seen, base>>

\* Mutant: the directory's own record only.
RevokeOwn(c, d) ==
    /\ phase[c] = "idle"
    /\ dir' = [dir EXCEPT ![c] = d]
    /\ seen' = [seen EXCEPT ![c] = {b \in {d} : Record(store[b])}]
    /\ standing' = [standing EXCEPT ![c] = {b \in Beneath(d) : Record(store[b])}]
    /\ phase' = [phase EXCEPT ![c] = "taking"]
    /\ UNCHANGED <<files, store, vouched, moved, hashes, base>>

\* `trust --revoke <dir>`: the records of it and of what is beneath it, as far
\* as they can be read,
Revoke(c, d) ==
    /\ phase[c] = "idle"
    /\ dir' = [dir EXCEPT ![c] = d]
    /\ seen' = [seen EXCEPT ![c] = {b \in Beneath(d) : Record(store[b])}]
    /\ standing' = [standing EXCEPT ![c] = {b \in Beneath(d) : Record(store[b])}]
    /\ phase' = [phase EXCEPT ![c] = "taking"]
    /\ UNCHANGED <<files, store, vouched, moved, hashes, base>>

\* are removed one by one; one that is gone by then fails the command.
TakeRecord(c) ==
    /\ phase[c] = "taking"
    /\ \E b \in seen[c] :
          /\ seen' = [seen EXCEPT ![c] = @ \ {b}]
          /\ IF store[b] = Absent
             THEN /\ phase' = [phase EXCEPT ![c] = "failed"]
                  /\ UNCHANGED records
             ELSE /\ Store(b, Absent)
                  /\ UNCHANGED phase
    /\ UNCHANGED <<files, dir, hashes, base>>

Revoked(c) ==
    /\ phase[c] = "taking"
    /\ seen[c] = {}
    /\ phase' = [phase EXCEPT ![c] = "done"]
    /\ UNCHANGED <<files, records, dir, hashes, seen, base>>

-----------------------------------------------------------------------------
\* The base and the node.

\* read_verified, from the start: the manifest first. verify reads the bytes
\* once, and what is checked is what is used.
ReadFile(f) ==
    /\ checking' = f
    /\ read' = disk[f]
    /\ next' = 1

Plan ==
    /\ checking = None
    /\ verdict # "planned" \/ running # None
    /\ plans < Plans
    /\ plans' = plans + 1
    /\ ReadFile(Manifest)
    /\ plan' = <<>>
    /\ verdict' = "none"
    /\ running' = None
    /\ vouched' = Vouched(store)
    /\ moved' = {}
    /\ UNCHANGED <<files, store, standing, commands>>

Matches(d) == Record(store[d]) /\ checking \in DOMAIN store[d] /\ store[d][checking] = read

\* The file passed: the entry comes after the manifest.
Checked ==
    /\ plan' = Append(plan, read)
    /\ IF checking = Manifest
       THEN /\ ReadFile(Entry)
            /\ UNCHANGED verdict
       ELSE /\ verdict' = "planned"
            /\ checking' = None
            /\ UNCHANGED <<read, next>>

\* Mutant: the nearest record decides.
LookNearest ==
    /\ checking # None
    /\ next <= Len(Above[checking])
    /\ IF Matches(Above[checking][next]) THEN Checked
       ELSE /\ next' = IF store[Above[checking][next]] = Absent
                      THEN next + 1 ELSE Len(Above[checking]) + 1
            /\ UNCHANGED <<checking, read, plan, verdict>>
    /\ UNCHANGED <<files, records, commands, running, plans>>

\* checked: one record after the other, outwards. A record that is missing,
\* unreadable or of another version is passed over.
Look ==
    /\ checking # None
    /\ next <= Len(Above[checking])
    /\ IF Matches(Above[checking][next]) THEN Checked
       ELSE next' = next + 1 /\ UNCHANGED <<checking, read, plan, verdict>>
    /\ UNCHANGED <<files, records, commands, running, plans>>

Refuse ==
    /\ checking # None
    /\ next > Len(Above[checking])
    /\ verdict' = "refused"
    /\ checking' = None
    /\ UNCHANGED <<files, records, commands, read, next, plan, running, plans>>

\* Mutant: the node runs whatever the entry is by now.
ApplyAny ==
    /\ verdict = "planned"
    /\ running = None
    /\ running' = disk[Entry]
    /\ UNCHANGED <<files, records, commands, checking, read, next, plan, verdict, plans>>

\* entry_bytes: the node reads the entry again, and runs it only when it has
\* the digest the base planned with.
Apply ==
    /\ verdict = "planned"
    /\ running = None
    /\ IF disk[Entry] = plan[2]
       THEN running' = disk[Entry] /\ UNCHANGED verdict
       ELSE verdict' = "refused" /\ UNCHANGED running
    /\ UNCHANGED <<files, records, commands, checking, read, next, plan, plans>>

-----------------------------------------------------------------------------

Next ==
    \/ \E f \in Files : Edit(f)
    \/ \E c \in Clis :
          \/ \E d \in Dirs : (\E ask \in BOOLEAN : Trust(c, d, ask)) \/ Revoke(c, d)
          \/ Hash(c) \/ RemoveRecord(c) \/ CreateRecord(c) \/ WriteRecord(c)
          \/ TakeRecord(c) \/ Revoked(c)
    \/ Plan
    \/ Look
    \/ Refuse
    \/ Apply

Spec == Init /\ [][Next]_vars

-----------------------------------------------------------------------------
\* Properties.

\* What a node runs, and the manifest it was planned from, were each in a
\* record at some moment of that planning, as the very bytes that were used:
\* not the version before an edit that falls between two reads, nor after it
\* (read_verified, entry_bytes; src/docs/architecture.txt:48-50).
RunsWhatWasVouched ==
    running # None => /\ <<Manifest, plan[1]>> \in vouched
                      /\ <<Entry, running>> \in vouched
                      /\ running = plan[2]

\* A file passes when any directory above it recorded what was read: a
\* directory whose record had it all along authorises it, whatever happens to
\* the records nearer or farther (src/docs/architecture.txt:48).
AnyRecordAuthorises ==
    checking # None /\ next > Len(Above[checking]) =>
        \A d \in DirsOf(checking) \ moved :
            Record(store[d]) /\ checking \in DOMAIN store[d] => store[d][checking] # read

\* When a revocation has ended, every record that was complete when it began,
\* of the directory and of those beneath it, has gone or been written anew
\* (trust::revoke). A record that another command was writing may survive it.
RevokedIsGone == \A c \in Clis : phase[c] = "done" => standing[c] = {}

=============================================================================
