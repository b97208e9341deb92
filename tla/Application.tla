----------------------------- MODULE Application ------------------------------
(***************************************************************************)
(* The running application: its lifespan (api/app.py), the runtime that    *)
(* owns the provider, the channel and the registry of recipients           *)
(* (runtime/m08.py), the readiness probe, and the requests of the webhook  *)
(* that send their replies through it (OutboundDelivery).                  *)
(*                                                                         *)
(* The code is one event loop: between two awaits nothing else runs, so an *)
(* action is what happens from one await to the next.  The channel is      *)
(* enabled.  A sender is an identity, which owns one binding.              *)
(***************************************************************************)
EXTENDS OutboundDelivery, Sequences, Functions

CONSTANTS
  NoBinding,
  Maximum        \* recipients the registry keeps (10 000 in the code)

ASSUME ApplicationAssumption ==
  /\ Maximum \in Nat \ {0}
  /\ NoBinding \notin Binding

VARIABLES
  phase,         \* what the lifespan awaits
  ready,         \* application.state.runtime_ready
  ingress,       \* whether the webhook's deferred ingress is bound
  routed,        \* whether the webhook's registry forwards to the runtime's
  provider, channel,   \* the clients the runtime owns
  known,         \* the runtime's registry: senders, the oldest first
  inflight,      \* per caller: the sender of the message it handles
  since,         \* history: the others remembered after a sender was
  probe          \* what /ready said last

lifeVars == <<phase, ready, ingress, routed, provider, channel>>
appVars  == <<outVars, lifeVars, known, inflight, since, probe>>

Phases  == {"down", "covering", "up", "closingChannel", "closingProvider", "disposing"}
Clients == {"none", "open", "closed"}

AppInit ==
  /\ OutInit
  /\ phase = "down"
  /\ ready = FALSE /\ ingress = FALSE /\ routed = FALSE
  /\ provider = "none" /\ channel = "none"
  /\ known = << >>
  /\ inflight = [w \in Caller |-> NoBinding]
  /\ since = [b \in Binding |-> {}]
  /\ probe = "none"

-------------------------------------------------------------------------------
(***************************************************************************)
(* Start and end of the application                                        *)
(***************************************************************************)
\* What build_m08_runtime and the lifespan do behind the coverage check, without
\* an await: the clients, the two binds and the flag.
Serve ==
  /\ provider' = "open" /\ channel' = "open"
  /\ ingress' = TRUE /\ routed' = TRUE /\ ready' = TRUE
  /\ phase' = "up"

\* A construction raises: what was opened so far is closed again, the channel first.
RollBack ==
  /\ \/ provider' = "closed" /\ channel' = "none" /\ phase' = "closingProvider"
     \/ provider' = "open" /\ channel' = "closed" /\ phase' = "closingChannel"
  /\ UNCHANGED <<ready, ingress, routed>>

\* A new process.  Settings that do not fit and a provider that cannot be made
\* open nothing; a semantic repository is built only behind its coverage check.
Launch ==
  /\ phase = "down"
  /\ \A w \in Caller : At(w, "idle") /\ inflight[w] = NoBinding
  /\ \/ /\ provider' = "none" /\ channel' = "none" /\ phase' = "disposing"
        /\ UNCHANGED <<ready, ingress, routed>>
     \/ /\ provider' = "open" /\ channel' = "none" /\ phase' = "covering"
        /\ UNCHANGED <<ready, ingress, routed>>
     \/ Serve
     \/ RollBack
  /\ UNCHANGED <<outVars, known, inflight, since, probe>>

\* _semantic_coverage_complete: incomplete or unanswered, the runtime is not built.
Covered ==
  /\ phase = "covering"
  /\ Serve \/ RollBack
  /\ UNCHANGED <<outVars, known, inflight, since, probe>>

\* The server shuts down: the flag, the binds, the recipients, then the channel,
\* whose client refuses from the moment its close begins.
BeginClose ==
  /\ phase = "up"
  /\ ready' = FALSE /\ ingress' = FALSE /\ routed' = FALSE
  /\ known' = << >> /\ since' = [b \in Binding |-> {}]
  /\ channel' = "closed"
  /\ phase' = "closingChannel"
  /\ UNCHANGED <<outVars, provider, inflight, probe>>

\* Mutation: a channel that fails to close takes the provider's close along.
ChannelClosedOrRaised ==
  /\ phase = "closingChannel"
  /\ \/ provider' = "closed" /\ phase' = "closingProvider"
     \/ UNCHANGED provider /\ phase' = "disposing"
  /\ UNCHANGED <<outVars, ready, ingress, routed, channel, known, inflight, since, probe>>

\* The channel closed or raised; the provider is closed either way.
ChannelClosed ==
  /\ phase = "closingChannel"
  /\ provider' = "closed"
  /\ phase' = "closingProvider"
  /\ UNCHANGED <<outVars, ready, ingress, routed, channel, known, inflight, since, probe>>

\* The provider closed or raised; the engine is disposed of either way.
ProviderClosed ==
  /\ phase = "closingProvider"
  /\ phase' = "disposing"
  /\ UNCHANGED <<outVars, ready, ingress, routed, provider, channel, known, inflight,
                 since, probe>>

Disposed ==
  /\ phase = "disposing"
  /\ phase' = "down"
  /\ probe' = "none"
  /\ UNCHANGED <<outVars, ready, ingress, routed, provider, channel, known, inflight, since>>

\* The process dies: what it kept in memory is gone, what it committed stays.
Crash ==
  /\ phase # "down"
  /\ phase' = "down"
  /\ ready' = FALSE /\ ingress' = FALSE /\ routed' = FALSE
  /\ provider' = "none" /\ channel' = "none"
  /\ known' = << >> /\ since' = [b \in Binding |-> {}]
  /\ probe' = "none"
  /\ UNCHANGED <<outVars, inflight>>

-------------------------------------------------------------------------------
(***************************************************************************)
(* /ready                                                                  *)
(***************************************************************************)
\* The database probe is awaited first and reads nothing of this; once it has
\* answered, runtime_ready decides.
Probe ==
  /\ phase \in {"up", "closingChannel", "closingProvider", "disposing"}
  /\ probe' = "none" \/ (ready /\ probe' = "ready")
  /\ UNCHANGED <<outVars, lifeVars, known, inflight, since>>

-------------------------------------------------------------------------------
(***************************************************************************)
(* The webhook and the sends                                               *)
(***************************************************************************)
\* Mutation: a sender that writes again keeps its old place.
InPlace(q, b) ==
  LET later == IF b \in Range(q) THEN q ELSE Append(q, b)
  IN IF Len(later) > Maximum THEN Tail(later) ELSE later

\* pop(): the place of b closes up
Without(q, b) ==
  LET place == CHOOSE i \in DOMAIN q : q[i] = b IN
  IF b \notin Range(q) THEN q
  ELSE [i \in 1 .. Len(q) - 1 |-> IF i < place THEN q[i] ELSE q[i + 1]]

\* remember(): the sender becomes the newest, the oldest of too many is dropped.
Remembered(q, b) ==
  LET later == Append(Without(q, b), b)
  IN IF Len(later) > Maximum THEN Tail(later) ELSE later

\* receive_event behind its checks, without an await: the recipient is remembered,
\* then the ingress takes the message or refuses it with 503.
Arrive(w, b) ==
  /\ phase \in {"up", "closingChannel", "closingProvider", "disposing"}
  /\ At(w, "idle") /\ inflight[w] = NoBinding
  /\ IF routed
     THEN /\ known' = Remembered(known, b)
          /\ since' = [c \in Binding |-> IF c = b THEN {} ELSE since[c] \cup {b}]
     ELSE UNCHANGED <<known, since>>   \* the webhook's own registry, which nothing reads
  /\ inflight' = IF ingress THEN [inflight EXCEPT ![w] = b] ELSE inflight
  /\ UNCHANGED <<outVars, lifeVars, probe>>

\* A request is over when its caller is.
Follow(w) ==
  inflight' = IF caller'[w] = Idle THEN [inflight EXCEPT ![w] = NoBinding] ELSE inflight

\* resolve() of the registry the channel was built with
Knows(b) == b \in Range(known)

\* send(): without its recipient, or with a closed client, nothing is posted and the
\* receipt is UNAVAILABLE, which counts as an outcome nobody knows.
SendReply(w, receipt) ==
  /\ (Knows(inflight[w]) /\ channel = "open") \/ receipt = "silent"
  /\ Send(w, receipt)

\* A request that ends before it has a reply: a duplicate, a refusal of a table, an error
EndEarly(w) ==
  /\ At(w, "idle") /\ inflight[w] # NoBinding
  /\ inflight' = [inflight EXCEPT ![w] = NoBinding]
  /\ UNCHANGED <<outVars, lifeVars, known, since, probe>>

\* A request whose process has ended takes no further step.
RequestStep(w) ==
  /\ \/ Stop(w)
     \/ /\ phase # "down"
        /\ \/ \E e \in Exchange : BindingOf[e] = inflight[w] /\ Begin(w, e)
           \/ Reserve(w)
           \/ MarkSending(w)
           \/ \E receipt \in Receipt : SendReply(w, receipt)
           \/ Complete(w)
  /\ Follow(w)
  /\ UNCHANGED <<lifeVars, known, since, probe>>

\* Compaction or the purge, by whatever process
CompactStep ==
  /\ \E E \in SUBSET Exchange : Compact(E)
  /\ UNCHANGED <<lifeVars, known, inflight, since, probe>>

-------------------------------------------------------------------------------
Lifespan == Launch \/ Covered \/ BeginClose \/ ChannelClosed \/ ProviderClosed \/ Disposed

AppNext ==
  \/ Lifespan \/ Crash
  \/ Probe
  \/ \E w \in Caller :
       \/ \E b \in Binding : Arrive(w, b)
       \/ EndEarly(w)
       \/ RequestStep(w)
  \/ CompactStep

AppSpec == AppInit /\ [][AppNext]_appVars

-------------------------------------------------------------------------------
(***************************************************************************)
(* Properties                                                              *)
(***************************************************************************)

\* Every variable has its type.
AppTypeOK ==
  /\ OutTypeOK
  /\ phase \in Phases
  /\ {ready, ingress, routed} \subseteq BOOLEAN
  /\ provider \in Clients /\ channel \in Clients
  /\ known \in Seq(Binding) /\ Len(known) <= Maximum
  /\ inflight \in [Caller -> Binding \cup {NoBinding}]
  /\ since \in [Binding -> SUBSET Binding]
  /\ probe \in {"none", "ready"}

\* /ready says "ready" only while messages are taken and can be answered, although
\* the database probe it awaits may outlast the runtime it was asked about.
ReadyMeansServing ==
  [][probe' # probe /\ probe' = "ready" =>
       ingress /\ routed /\ channel = "open" /\ provider = "open"]_appVars

\* When the application is down nothing of the runtime is left open or bound,
\* wherever its start failed and whichever close raised.
NothingLeaks ==
  phase = "down" =>
    /\ provider # "open" /\ channel # "open"
    /\ known = << >>
    /\ ~ready /\ ~ingress /\ ~routed

\* A send that finds its recipient finds an open client: a request that outlives the
\* runtime is told UNAVAILABLE by the emptied registry and touches no closed client.
PostsUseAnOpenChannel ==
  \A w \in Caller : At(w, "send") /\ Knows(inflight[w]) => channel = "open"

\* A request of the running application can still reach its sender when its reply is
\* ready, however long the chat took, unless Maximum others have written since.
HandledSendersAreKnown ==
  \A w \in Caller : inflight[w] # NoBinding /\ phase = "up" =>
    Knows(inflight[w]) \/ Cardinality(since[inflight[w]]) >= Maximum

===============================================================================
