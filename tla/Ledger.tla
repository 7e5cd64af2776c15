------------------------------- MODULE Ledger -------------------------------
(***************************************************************************)
(* What is installed under a project, what its needs bind to, which        *)
(* cartridges `verify <id>` runs on their own and which entries compose a   *)
(* project (src/ledger/mod.rs, src/host/run.rs, src/loader/entries.rs).    *)
(*                                                                         *)
(* A tree is a function from the folders that hold a manifest, as sequences *)
(* of names, to the manifests; an entry has an id, a folder, a config and   *)
(* whether it is disabled.                                                 *)
(***************************************************************************)
EXTENDS Settings, FiniteSets

CONSTANTS
    SocketName(_),  (* file_name in lower case: what an id binds in the directory *)
    IdOf(_)         (* a path as an id: its names with a slash between *)

NoName == ""
Unread == [unread |-> TRUE]
Read(manifest) == manifest # Unread

(* read_entry: what cannot be read offers and needs nothing; the `?` of an *)
(* optional need is dropped, its provider has to be installed all the same. *)
Installed(manifest) ==
    IF Read(manifest)
    THEN [listen |-> manifest.listen, needs |-> [i \in DOMAIN manifest.needs |-> manifest.needs[i].key]]
    ELSE [listen |-> {}, needs |-> <<>>]

(* descend: a folder without a manifest hides what is below it. *)
Scan(tree) ==
    LET found == {path \in DOMAIN tree : \A n \in 1 .. Len(path) : SubSeq(path, 1, n) \in DOMAIN tree}
    IN [path \in found |-> Installed(tree[path])]

Offered(ledger, from, key) == {path \in DOMAIN ledger \ {from} : key \in ledger[path].listen}

Resolve(ledger, from, key) ==
    LET offered == Offered(ledger, from, key)
    IN CASE Cardinality(offered) = 0 -> [bound |-> "none", paths |-> {}]
         [] Cardinality(offered) = 1 -> [bound |-> "one", paths |-> offered]
         [] OTHER                    -> [bound |-> "clashed", paths |-> offered]

Bindings(ledger) ==
    UNION {{<<path, key, Resolve(ledger, path, key)>> : key \in Range(ledger[path].needs)}
              : path \in DOMAIN ledger}

(***************************************************************************)
(* verify of one cartridge: a walk along the needs, the last provider      *)
(* found first, that stops at a need with no provider or with several.     *)
(***************************************************************************)
Walked(chosen, frontier) == [chosen |-> chosen, frontier |-> frontier]

TakeNeed(ledger, path, at, key) ==
    LET found == Resolve(ledger, path, key)
        provider == CHOOSE p \in found.paths : TRUE
    IN IF at = Refused \/ found.bound # "one" THEN Refused
       ELSE IF Contains(at.chosen, provider) THEN at
       ELSE Walked(Append(at.chosen, provider), Append(at.frontier, provider))

Pop(ledger, at) ==
    LET path  == Last(at.frontier)
        taken == FoldLeft(LAMBDA now, key : TakeNeed(ledger, path, now, key),
                          Walked(at.chosen, Front(at.frontier)), ledger[path].needs)
    IN IF taken = Refused \/ Contains(taken.chosen, path) THEN taken
       ELSE Walked(<<path>> \o taken.chosen, taken.frontier)

RECURSIVE WalkNeeds(_, _)
WalkNeeds(ledger, at) ==
    IF at = Refused \/ at.frontier = <<>> THEN at ELSE WalkNeeds(ledger, Pop(ledger, at))

Nobody == <<>>  (* refused *)

Solo(tree, target) ==
    IF target \notin DOMAIN Scan(tree) THEN Nobody
    ELSE LET walked == WalkNeeds(Scan(tree), Walked(<<>>, <<target>>))
         IN IF walked = Refused \/ ~Read(tree[target]) THEN Nobody ELSE walked.chosen

(***************************************************************************)
(* The entries of a project: what init.lua names, and every other folder   *)
(* at the top, disabled.  A private host for one cartridge takes its own.   *)
(***************************************************************************)
ComposedEntry(id, path, disabled) == [id |-> id, path |-> path, config |-> Null, disabled |-> disabled]

Derived(tree) ==
    {ComposedEntry(IdOf(path), path, TRUE) : path \in {p \in DOMAIN Scan(tree) : Len(p) = 1}}

SoloEntries(chosen) == [i \in DOMAIN chosen |-> ComposedEntry(IdOf(chosen[i]), chosen[i], FALSE)]

Composed(tree, overrides) ==
    LET named == {overrides[i].path : i \in DOMAIN overrides}
    IN SetToSeq({e \in Derived(tree) : e.path \notin named}) \o overrides

Accepted(what) == [is |-> "accepted", what |-> what]

Valid(entries) ==
    /\ \A i \in DOMAIN entries : entries[i].id # NoName /\ entries[i].path # <<>>
    /\ \A i, j \in DOMAIN entries : i # j => SocketName(entries[i].id) # SocketName(entries[j].id)

(* An entry's config under the two config.lua files, which hold tables by id. *)
Configured(entry, global, project) ==
    [entry EXCEPT !.config = EntryConfig(@, At(global, entry.id), At(project, entry.id))]

Entries(tree, overrides, solo, global, project) ==
    LET entries == IF solo = Nobody THEN Composed(tree, overrides) ELSE SoloEntries(solo)
    IN IF ~Valid(entries) THEN Refused
       ELSE IF solo # Nobody THEN Accepted(entries)
       ELSE Accepted([i \in DOMAIN entries |-> Configured(entries[i], global, project)])

(* What verify calls: the contracts of one cartridge, or of every enabled one. *)
Contracts(tree, entries, target) ==
    LET asked == IF target # <<>> THEN {e \in Range(entries) : e.path = target}
                 ELSE {e \in Range(entries) : ~e.disabled}
    IN IF \E e \in asked : ~Read(tree[e.path]) THEN Refused
       ELSE Accepted(UNION {{<<e.id, key>> : key \in tree[e.path].contracts} : e \in asked})
=============================================================================
