------------------------------ MODULE Dispatch ------------------------------
(***************************************************************************)
(* Events sent while the composition they travel in changes: what a sender *)
(* asks of the listeners in its directory (prepare, send, emit, bail,      *)
(* gather and ask of src/src/transport/cartridge.rs), what a listener's    *)
(* node makes of a request, and the events the base sends for its callers  *)
(* (sender, bail, gather and send_to of src/src/host/mod.rs).              *)
(*                                                                         *)
(* It composes with Lifecycle: the directories are those the host handed   *)
(* out, a listener is reached at the socket path of its cartridge, and     *)
(* nodes are reloaded or exit meanwhile.  Of a connection it takes what    *)
(* CallOnce promises: a request is handed over at most once, and its       *)
(* caller ends with its answer or without one.                             *)
(***************************************************************************)
EXTENDS Lifecycle

CONSTANTS
    Calls,      \* the events in flight, each used again once it is over
    Callers     \* who may send: nodes, by cartridge, and HOST

ASSUME CallersAssumption == Callers \subseteq Everyone

VARIABLES
    call,       \* by call: who sends what to whom
    leg,        \* by call and listener: how far the request is
    hostDir     \* routes of the directory the base's own sender works with

dispatch == <<call, leg, hostDir>>
allVars == <<vars, dispatch>>

Outcomes == {"none", "answered", "declined", "failed", "refused",
             "timed_out", "unavailable"}

NoCall == [stage |-> "idle", from |-> HOST, gen |-> 0, kind |-> "bail",
           event |-> AspTool, listeners |-> {}, routes |-> {},
           result |-> "none", current |-> FALSE, served |-> FALSE,
           alone |-> FALSE]

NoLeg == [stage |-> "no", outcome |-> "none", gen |-> 0, request |-> "none",
          runs |-> 0]

InitDispatch ==
    /\ Init
    /\ call = [c \in Calls |-> NoCall]
    /\ leg = [c \in Calls |-> [i \in Ids |-> NoLeg]]
    /\ hostDir = {}

-----------------------------------------------------------------------------
\* The nodes as dispatch sees them.  A process is known by its cartridge and
\* generation, and serves while it is up.

Serving(i, g) == {p \in Pids : /\ proc[p].phase = "up"
                               /\ proc[p].id = i /\ proc[p].gen = g}

\* The sender of a call, if a node, still runs.
SenderUp(c) == call[c].from = HOST \/ Serving(call[c].from, call[c].gen) # {}

\* Every node works with the directory the host computed last, and none is
\* still on its way.
Delivered == \A p \in Pids : proc[p].phase = "up" =>
                 held[p] = dir[proc[p].id] /\ late[p] = {}

\* Somebody active listens to e, by the plans of the slots.
ServedBy(e) == {i \in Ids : state[i] = "active" /\ e \in plan[i].listen}

\* Listeners are asked in composition order.
Rest(c) == {i \in call[c].listeners : leg[c][i].stage = "no"}

Open(c) == {i \in Ids : leg[c][i].stage \in {"connecting", "waiting"}}

-----------------------------------------------------------------------------
\* Sending.

\* The legs of a call as it begins: gather asks all at once, bail the first.
FirstAsked(k, L) ==
    [i \in Ids |-> IF i \in L /\ (k # "bail" \/ IsFirst(i, L))
                   THEN [NoLeg EXCEPT !.stage = "connecting"] ELSE NoLeg]

\* emit, bail or gather in a node: prepare reads the listeners from the
\* directory the node works with, once.
Send(c, p) ==
    LET i == proc[p].id IN
    /\ call[c].stage = "idle"
    /\ proc[p].phase = "up"
    /\ i \in Callers
    /\ \E e \in {r[1] : r \in held[p].routes}, k \in {"bail", "gather"} :
          LET L == {j \in Ids : <<e, j>> \in held[p].routes} IN
          /\ call' = [call EXCEPT ![c] =
                [NoCall EXCEPT !.stage = "asking", !.from = i,
                     !.gen = proc[p].gen, !.kind = k, !.event = e,
                     !.listeners = L, !.current = Delivered]]
          /\ leg' = [leg EXCEPT ![c] = FirstAsked(k, L)]
    /\ UNCHANGED <<vars, hostDir>>

\* Host::sender computes a directory from the slots as they are, without the
\* base's own plan; an event no planned cartridge declares is not provided.
HostSend(c) ==
    LET declared == Declared(PlansOf(InForce(state) \ {HOST}))
        routes == {r \in declared \X Ids : r[2] \in ServedBy(r[1])}
        others == {d \in Calls : call[d].stage \in {"computed", "prepared"}} IN
    /\ call[c].stage = "idle"
    /\ HOST \in Callers
    /\ \E e \in Events \cap declared, k \in {"bail", "gather"} :
          call' = [d \in Calls |->
             IF d = c
             THEN [NoCall EXCEPT !.stage = "computed", !.kind = k,
                       !.event = e, !.routes = routes,
                       !.served = ServedBy(e) # {}, !.alone = others = {}]
             ELSE [call[d] EXCEPT !.alone = @ /\ d \notin others]]
    /\ UNCHANGED <<vars, leg, hostDir>>

\* Mutant: a directory with more in it than the one in use is not set.
HostSetsLess(c) ==
    /\ call[c].stage = "computed"
    /\ hostDir' = hostDir \cap call[c].routes
    /\ call' = [call EXCEPT ![c].stage = "prepared", ![c].routes = {}]
    /\ UNCHANGED <<vars, leg>>

\* It is set on the one context all of the base's calls share, after the
\* slots were let go.
HostSets(c) ==
    /\ call[c].stage = "computed"
    /\ hostDir' = call[c].routes
    /\ call' = [call EXCEPT ![c].stage = "prepared", ![c].routes = {}]
    /\ UNCHANGED <<vars, leg>>

\* ask takes one of the listeners, as gather would of a list of one.
Asked(k, L) == {L} \cup (IF k = "gather" THEN {{i} : i \in L} ELSE {})

\* bail and prepare read it again, as whoever came last set it.  (A directory
\* emptied between their two reads ends the call like one emptied before.)
HostPrepares(c) ==
    LET L == {i \in Ids : <<call[c].event, i>> \in hostDir} IN
    /\ call[c].stage = "prepared"
    /\ IF L = {}
       THEN /\ call' = [call EXCEPT ![c].stage = "done",
                                    ![c].result = "nobody"]
            /\ UNCHANGED leg
       ELSE \E A \in Asked(call[c].kind, L) :
               /\ call' = [call EXCEPT ![c].stage = "asking",
                                       ![c].listeners = A]
               /\ leg' = [leg EXCEPT ![c] = FirstAsked(call[c].kind, A)]
    /\ UNCHANGED <<vars, hostDir>>

-----------------------------------------------------------------------------
\* One request.

Over(l, o) == [l EXCEPT !.stage = "over", !.outcome = o]

\* The outcome is for a sender that still waits.
Ended(l, o) == IF l.stage = "waiting" THEN Over(l, o) ELSE l

LegStep(c, i, l) ==
    /\ leg' = [leg EXCEPT ![c][i] = l]
    /\ UNCHANGED <<vars, call, hostDir>>

\* The listener admits this sender's event, by its own directory.  The base
\* may send anything.
Admits(q, c) ==
    call[c].from = HOST \/ <<call[c].from, call[c].event>> \in held[q].accept

\* Some event of this sender's is accepted, so its token is one of the
\* listener's.
Knows(q, c) ==
    call[c].from = HOST \/ \E a \in held[q].accept : a[1] = call[c].from

\* client: whoever serves at the socket path is connected to, unless it
\* refuses the token.  A connection made before is used as it is, whatever
\* became of token and path since.
Reach(c, i) ==
    /\ leg[c][i].stage = "connecting"
    /\ SenderUp(c)
    /\ \E q \in Pids :
          /\ proc[q].phase = "up" /\ proc[q].id = i
          /\ \/ LegStep(c, i, [leg[c][i] EXCEPT !.stage = "waiting",
                                  !.gen = proc[q].gen, !.request = "sent"])
             \/ /\ q = sock[i] /\ ~Knows(q, c)
                /\ LegStep(c, i, Over(leg[c][i], "refused"))

\* Nobody serves there for the connect timeout.
Unreached(c, i) ==
    /\ leg[c][i].stage = "connecting"
    /\ SenderUp(c)
    /\ sock[i] = NoPid
    /\ LegStep(c, i, Over(leg[c][i], "unavailable"))

\* handle: the listener's node checks the sender and the event on arrival,
\* and runs the listener.
Arrive(c, i) ==
    /\ leg[c][i].request = "sent"
    /\ \E q \in Serving(i, leg[c][i].gen) :
          IF Admits(q, c)
          THEN LegStep(c, i, [leg[c][i] EXCEPT !.request = "running",
                                               !.runs = @ + 1])
          ELSE LegStep(c, i, [Ended(leg[c][i], "refused") EXCEPT
                                 !.request = "done"])

\* It returns a value, nothing, or an error (a request of a sender that no
\* longer waits is also cut short).
Answer(c, i) ==
    /\ leg[c][i].request = "running"
    /\ Serving(i, leg[c][i].gen) # {}
    /\ \E o \in {"answered", "declined", "failed"} :
          LegStep(c, i, [Ended(leg[c][i], o) EXCEPT !.request = "done"])

\* Mutant: an event whose connection closed is sent again.
SentAgain(c, i) ==
    /\ leg[c][i].stage = "waiting"
    /\ SenderUp(c)
    /\ LegStep(c, i, [leg[c][i] EXCEPT !.stage = "connecting"])

\* The connection closes first: the node exits, is stopped, or a queue was
\* full.  What its reader had read may still run.
ConnectionLost(c, i) ==
    /\ leg[c][i].stage = "waiting"
    /\ SenderUp(c)
    /\ \E read \in BOOLEAN :
          LegStep(c, i, [Over(leg[c][i], "unavailable") EXCEPT
                            !.request = IF @ = "sent" /\ ~read THEN "done"
                                                               ELSE @])

\* The event's timeout runs over connecting and waiting alike.
TimeOut(c, i) ==
    /\ leg[c][i].stage \in {"connecting", "waiting"}
    /\ SenderUp(c)
    /\ LegStep(c, i, Over(leg[c][i], "timed_out"))

-----------------------------------------------------------------------------
\* What a call makes of the outcomes.

Settles(c) == call[c].stage = "asking" /\ SenderUp(c) /\ Open(c) = {}

OutcomesOf(c) == {leg[c][i].outcome : i \in call[c].listeners}

\* Mutant: a listener that cannot be reached is passed over.
BailNextAnyway(c) ==
    /\ Settles(c)
    /\ call[c].kind = "bail"
    /\ OutcomesOf(c) \subseteq {"none", "declined", "unavailable"}
    /\ \E i \in Rest(c) :
          /\ IsFirst(i, Rest(c))
          /\ leg' = [leg EXCEPT ![c][i].stage = "connecting"]
    /\ UNCHANGED <<vars, call, hostDir>>

\* bail: only a decline asks the next listener.
BailNext(c) ==
    /\ Settles(c)
    /\ call[c].kind = "bail"
    /\ OutcomesOf(c) \subseteq {"none", "declined"}
    /\ \E i \in Rest(c) :
          /\ IsFirst(i, Rest(c))
          /\ leg' = [leg EXCEPT ![c][i].stage = "connecting"]
    /\ UNCHANGED <<vars, call, hostDir>>

\* bail returns the answer, raises any other outcome, or ends with nothing
\* once all have declined; gather has an outcome of each.
Finish(c) ==
    LET ended == OutcomesOf(c) \ {"none", "declined"} IN
    /\ Settles(c)
    /\ Rest(c) = {} \/ (call[c].kind = "bail" /\ ended # {})
    /\ call' = [call EXCEPT ![c].stage = "done",
                   ![c].result = IF call[c].kind = "gather" THEN "rows"
                                 ELSE IF "answered" \in ended THEN "answered"
                                 ELSE IF ended # {} THEN "raised"
                                 ELSE "declined"]
    /\ UNCHANGED <<vars, leg, hostDir>>

\* Nothing is left of a call: its sender has its result, and no listener
\* runs for it.
Forget(c) ==
    /\ call[c].stage = "done"
    /\ \A i \in Ids : leg[c][i].request \in {"sent", "running"} =>
                         Serving(i, leg[c][i].gen) = {}
    /\ call' = [call EXCEPT ![c] = NoCall]
    /\ leg' = [leg EXCEPT ![c] = [i \in Ids |-> NoLeg]]
    /\ UNCHANGED <<vars, hostDir>>

-----------------------------------------------------------------------------
CallStep ==
    \E c \in Calls :
        \/ \E p \in Pids : Send(c, p)
        \/ HostSend(c) \/ HostSets(c) \/ HostPrepares(c)
        \/ BailNext(c) \/ Finish(c) \/ Forget(c)

RequestStep ==
    \E c \in Calls, i \in Ids :
        \/ Reach(c, i) \/ Unreached(c, i) \/ Arrive(c, i) \/ Answer(c, i)
        \/ ConnectionLost(c, i) \/ TimeOut(c, i)

\* A step of the composition.  Whether a call's view of it is still current,
\* and whether its event was served throughout, is kept for the properties.
CompositionStep ==
    /\ Next
    /\ call' = [c \in Calls |->
                   [call[c] EXCEPT
                      !.current = @ /\ dir' = dir,
                      !.served = @ /\ \E e \in {call[c].event} :
                                         ServedBy(e)' # {}]]
    /\ UNCHANGED <<leg, hostDir>>

NextDispatch == CallStep \/ RequestStep \/ CompositionStep

SpecDispatch == InitDispatch /\ [][NextDispatch]_allVars

-----------------------------------------------------------------------------
\* Properties.

DispatchTypeOK ==
    /\ \A c \in Calls :
          /\ call[c].stage \in {"idle", "computed", "prepared", "asking",
                                "done"}
          /\ call[c].from \in Callers \cup {HOST}
          /\ call[c].listeners \subseteq Ids
          /\ call[c].result \in {"none", "nobody", "rows", "answered",
                                 "raised", "declined"}
          /\ \A i \in Ids :
                /\ leg[c][i].stage \in {"no", "connecting", "waiting", "over"}
                /\ leg[c][i].outcome \in Outcomes
                /\ leg[c][i].stage = "over" <=> leg[c][i].outcome # "none"
    /\ hostDir \subseteq Events \X Ids

\* However nodes are reloaded and connections lost, no listener is run twice
\* for one event that was sent: send never sends again.
NotHandledTwice ==
    \A c \in Calls, i \in Ids : leg[c][i].runs <= 1

\* A listener of a bail is run only after every one before it returned
\* nothing: not after an answer, an error, or one that could not be asked
\* and may yet run it.
AskedInOrder ==
    \A c \in Calls, i, j \in Ids :
        call[c].kind = "bail" /\ i < j /\ i \in call[c].listeners
            /\ leg[c][j].runs > 0
            => leg[c][i].outcome = "declined" /\ leg[c][i].request = "done"

\* A listener refuses an event only to a sender that looked at its directory
\* while some node still worked with an older one, or before the composition
\* was rewired: an edge is never refused for good.
RefusedForCause ==
    \A c \in Calls, i \in Ids :
        leg[c][i].outcome = "refused" => ~call[c].current

\* The base tells a caller that nobody listens only if there was a moment,
\* since the call came, when nobody active did, unless another call set the
\* shared directory meanwhile.
NobodyForCause ==
    \A c \in Calls :
        call[c].result = "nobody" /\ call[c].alone => ~call[c].served
=============================================================================
