------------------------------- MODULE Wiring -------------------------------
(***************************************************************************)
(* What the base derives from the plans of a composition: which cartridge  *)
(* owns an event, which plans clash, which needs nobody declares, who      *)
(* listens to what, and the directory each node is handed                  *)
(* (src/src/host/plan.rs).  Cartridges are numbered in the order the       *)
(* composition lists them; 0 is the base, which takes part in its own      *)
(* composition and always comes first.                                     *)
(*                                                                         *)
(* A manifest is what a cartridge declares on disk; a plan is a manifest   *)
(* settled against the other entries.  Event names are opaque values, and  *)
(* a glob need is the set of names it matches.  `build' stands for all the *)
(* parts of a plan that are not wiring (config, grant, entry hash).        *)
(***************************************************************************)
EXTENDS Integers

CONSTANTS
    N,        \* cartridges the composition may list
    Events,   \* event names
    AspTool,  \* the event the base itself declares and listens to
    Builds    \* contents of a plan that are not wiring

ASSUME NAssumption == N \in Nat
ASSUME AspToolAssumption == AspTool \in Events
ASSUME BuildsAssumption == Builds # {}

Ids == 1..N
HOST == 0
Everyone == {HOST} \cup Ids

Manifest == [events: SUBSET Events, needs: SUBSET Events,
             optional: SUBSET Events, glob: SUBSET Events,
             listen: SUBSET Events, build: Builds]

Plan == [events: SUBSET Events, needs: SUBSET Events,
         optional: SUBSET Events, listen: SUBSET Events, build: Builds]

\* The needs a cartridge starts without waiting for are its optional ones.
Required(plan) == plan.needs \ plan.optional

Sends(plan) == plan.events \cup plan.needs

WiringOf(plan) == <<plan.events, plan.needs, plan.optional, plan.listen>>

\* The base as a participant: it owns and listens to the agent's ASP tool.
HostPlan == [events |-> {AspTool}, needs |-> {}, optional |-> {},
             listen |-> {AspTool}, build |-> CHOOSE b \in Builds : TRUE]

-----------------------------------------------------------------------------
\* One plan per participant.  `plans' is a function from the participants
\* considered; its domain is a subset of Everyone.

Declared(plans) == UNION {plans[j].events : j \in DOMAIN plans}

\* The first participant in composition order that declares e owns it.
Owner(plans, e) ==
    CHOOSE j \in DOMAIN plans :
        /\ e \in plans[j].events
        /\ \A k \in DOMAIN plans : e \in plans[k].events => j <= k

Catalogue(plans) == [e \in Declared(plans) |-> Owner(plans, e)]

\* Those that declare an event an earlier participant already declares.
Clashes(plans) ==
    {i \in DOMAIN plans :
        \E j \in DOMAIN plans :
            j < i /\ plans[i].events \cap plans[j].events # {}}

\* A listened or required event that nobody in the catalogue declares.
Unmatched(plan, declared) ==
    ~ (plan.listen \cup Required(plan) \subseteq declared)

Listeners(plans) ==
    [e \in Events |-> {j \in DOMAIN plans : e \in plans[j].listen}]

-----------------------------------------------------------------------------
\* routes: the listeners a node may send each event to; accept: the senders
\* and events a node's own tokens admit; owners: the catalogue.

NoDirectory == [routes |-> {}, accept |-> {}, owners |-> [e \in {} |-> HOST]]

\* Mutant: only the senders that declare an event are admitted with it.
DirectoryOwned(i, plan, plans) ==
    LET cat == Catalogue(plans) IN
    [routes |-> {r \in Events \X (DOMAIN plans) :
                    /\ r[1] \in (DOMAIN cat) \cap Sends(plan)
                    /\ r[1] \in plans[r[2]].listen},
     accept |-> {a \in (DOMAIN plans) \X Events :
                    /\ a[2] \in (DOMAIN cat) \cap plan.listen
                    /\ a[2] \in plans[a[1]].events},
     owners |-> cat]

Directory(i, plan, plans) ==
    LET cat == Catalogue(plans) IN
    [routes |-> {r \in Events \X (DOMAIN plans) :
                    /\ r[1] \in (DOMAIN cat) \cap Sends(plan)
                    /\ r[1] \in plans[r[2]].listen},
     accept |-> {a \in (DOMAIN plans) \X Events :
                    /\ a[2] \in (DOMAIN cat) \cap plan.listen
                    /\ a[2] \in Sends(plans[a[1]])},
     owners |-> cat]
=============================================================================
