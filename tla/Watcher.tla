-------------------------------- MODULE Watcher --------------------------------
(***************************************************************************)
(* sdk/config/watcher.go with its user in app/cmd/service: one goroutine    *)
(* re-reads a config file on every tick and, under a mutex, hands a changed *)
(* configuration to every subscriber's one-slot channel.  Each client does  *)
(* what the service does: it applies the value of Get, then starts a        *)
(* goroutine that subscribes and applies whatever it receives, the zone of  *)
(* the environment standing in for a zone the file leaves out.              *)
(***************************************************************************)
EXTENDS Naturals, Sequences

CONSTANTS
    Settings, \* timeouts, retries and backoff of a configuration
    Zones,    \* zones a configuration may name
    NoZone,   \* the empty zone field
    EnvZone,  \* the zone of the environment
    Invalid,  \* file contents parse rejects (a file being written)
    Clients   \* goroutines that Get, then Subscribe

Config == [settings : Settings, zone : Zones \cup {NoZone}]

ASSUME WatcherAssumption ==
    /\ NoZone \notin Zones
    /\ EnvZone \in Zones
    /\ Invalid \notin Config

VARIABLES
    file,     \* the file's contents
    current,  \* w.current
    subs,     \* clients whose channel is in w.subs
    chan,     \* their channels
    closed,   \* clients whose channel has been closed
    stop,     \* w.stop is closed
    pc,       \* where loop is; it holds w.mu from "notify" to "resend"
    cfg,      \* what the loop parsed
    left,     \* clients the loop has still to notify
    at,       \* the client whose channel the loop found full, if any
    client,   \* where each client is
    applied,  \* currentCfg of the client
    gap       \* history: clients that missed a change between Get and Subscribe

loopVars == <<pc, cfg, left, at>>
vars == <<file, current, subs, chan, closed, stop, loopVars, client, applied, gap>>

Slot == {<<>>} \cup {<<v>> : v \in Config}

TypeOK ==
    /\ file \in Config \cup {Invalid}
    /\ current \in Config
    /\ subs \subseteq Clients
    /\ chan \in [Clients -> Slot]
    /\ closed \subseteq Clients
    /\ stop \in BOOLEAN
    /\ pc \in {"select", "parsed", "notify", "drain", "resend", "done"}
    /\ cfg \in Config
    /\ left \subseteq Clients
    /\ at \subseteq Clients
    /\ client \in [Clients -> {"new", "got", "listening", "ended"}]
    /\ applied \in [Clients -> Config]
    /\ gap \subseteq Clients

Locked == pc \in {"notify", "drain", "resend"}

\* The service never runs without a zone.
WithBaseline(v) == IF v.zone = NoZone THEN [v EXCEPT !.zone = EnvZone] ELSE v

\* NewWatcher has parsed the file once; the service's own default is applied.
Init ==
    /\ file \in Config
    /\ current = file
    /\ subs = {}
    /\ chan = [c \in Clients |-> <<>>]
    /\ closed = {}
    /\ stop = FALSE
    /\ pc = "select"
    /\ cfg = file
    /\ left = {} /\ at = {}
    /\ client = [c \in Clients |-> "new"]
    /\ \E v \in Config : v.zone = EnvZone /\ applied = [c \in Clients |-> v]
    /\ gap = {}

---------------------------------------------------------------------------
\* Somebody edits the file; a half-written one does not parse.
Edit(v) ==
    /\ file' = v
    /\ UNCHANGED <<current, subs, chan, closed, stop, loopVars, client, applied, gap>>

---------------------------------------------------------------------------
(* loop.  A tick on an invalid file changes nothing. *)

\* Mutant: the error of parse is ignored.
TickUnchecked ==
    /\ pc = "select"
    /\ cfg' = file
    /\ pc' = "parsed"
    /\ UNCHANGED <<file, current, subs, chan, closed, stop, left, at, client, applied, gap>>

Tick ==
    /\ pc = "select"
    /\ file # Invalid
    /\ cfg' = file
    /\ pc' = "parsed"
    /\ UNCHANGED <<file, current, subs, chan, closed, stop, left, at, client, applied, gap>>

Unchanged ==
    /\ pc = "parsed"
    /\ cfg = current
    /\ pc' = "select"
    /\ UNCHANGED <<file, current, subs, chan, closed, stop, cfg, left, at, client, applied, gap>>

\* The lock is taken and w.current replaced.
Change ==
    /\ pc = "parsed"
    /\ cfg # current
    /\ current' = cfg
    /\ left' = subs
    /\ pc' = "notify"
    /\ gap' = (gap \ subs) \cup {c \in Clients : client[c] = "got"}
    /\ UNCHANGED <<file, subs, chan, closed, stop, cfg, at, client, applied>>

Send(c) ==
    /\ pc = "notify"
    /\ c \in left
    /\ chan[c] = <<>>
    /\ chan' = [chan EXCEPT ![c] = <<cfg>>]
    /\ left' = left \ {c}
    /\ UNCHANGED <<file, current, subs, closed, stop, pc, cfg, at, client, applied, gap>>

\* Mutant: a full channel keeps its stale value.
KeepStale(c) ==
    /\ pc = "notify"
    /\ c \in left
    /\ chan[c] # <<>>
    /\ left' = left \ {c}
    /\ UNCHANGED <<file, current, subs, chan, closed, stop, pc, cfg, at, client, applied, gap>>

SendWouldBlock(c) ==
    /\ pc = "notify"
    /\ c \in left
    /\ chan[c] # <<>>
    /\ at' = {c}
    /\ pc' = "drain"
    /\ UNCHANGED <<file, current, subs, chan, closed, stop, cfg, left, client, applied, gap>>

\* Mutant: the second send does not drain first.
ResendAtOnce(c) ==
    /\ pc = "drain"
    /\ c \in at
    /\ pc' = "resend"
    /\ UNCHANGED <<file, current, subs, chan, closed, stop, cfg, left, at, client, applied, gap>>

\* The stale value is taken out, unless the subscriber was quicker.
Drain(c) ==
    /\ pc = "drain"
    /\ c \in at
    /\ chan' = [chan EXCEPT ![c] = <<>>]
    /\ pc' = "resend"
    /\ UNCHANGED <<file, current, subs, closed, stop, cfg, left, at, client, applied, gap>>

\* A bare send, with the lock held.
Resend(c) ==
    /\ pc = "resend"
    /\ c \in at
    /\ chan[c] = <<>>
    /\ chan' = [chan EXCEPT ![c] = <<cfg>>]
    /\ left' = left \ {c}
    /\ at' = {}
    /\ pc' = "notify"
    /\ UNCHANGED <<file, current, subs, closed, stop, cfg, client, applied, gap>>

Unlock ==
    /\ pc = "notify"
    /\ left = {}
    /\ pc' = "select"
    /\ UNCHANGED <<file, current, subs, chan, closed, stop, cfg, left, at, client, applied, gap>>

\* All channels are closed under the lock, and the loop returns.
Stop ==
    /\ pc = "select"
    /\ stop
    /\ closed' = subs
    /\ pc' = "done"
    /\ UNCHANGED <<file, current, subs, chan, stop, cfg, left, at, client, applied, gap>>

---------------------------------------------------------------------------
(* The clients *)

Get(c) ==
    /\ client[c] = "new"
    /\ ~Locked
    /\ applied' = [applied EXCEPT ![c] = WithBaseline(current)]
    /\ client' = [client EXCEPT ![c] = "got"]
    /\ UNCHANGED <<file, current, subs, chan, closed, stop, loopVars, gap>>

\* The goroutine evaluates range w.Subscribe().
Subscribe(c) ==
    /\ client[c] = "got"
    /\ ~Locked
    /\ subs' = subs \cup {c}
    /\ client' = [client EXCEPT ![c] = "listening"]
    /\ UNCHANGED <<file, current, chan, closed, stop, loopVars, applied, gap>>

\* Mutant: a received configuration is applied without the zone baseline.
ApplyRaw(c) ==
    /\ client[c] = "listening"
    /\ chan[c] # <<>>
    /\ applied' = [applied EXCEPT ![c] = Head(chan[c])]
    /\ chan' = [chan EXCEPT ![c] = <<>>]
    /\ UNCHANGED <<file, current, subs, closed, stop, loopVars, client, gap>>

Apply(c) ==
    /\ client[c] = "listening"
    /\ chan[c] # <<>>
    /\ applied' = [applied EXCEPT ![c] = WithBaseline(Head(chan[c]))]
    /\ chan' = [chan EXCEPT ![c] = <<>>]
    /\ UNCHANGED <<file, current, subs, closed, stop, loopVars, client, gap>>

End(c) ==
    /\ client[c] = "listening"
    /\ c \in closed /\ chan[c] = <<>>
    /\ client' = [client EXCEPT ![c] = "ended"]
    /\ UNCHANGED <<file, current, subs, chan, closed, stop, loopVars, applied, gap>>

\* Close, called once by the service's deferred calls.
Close ==
    /\ ~stop
    /\ stop' = TRUE
    /\ UNCHANGED <<file, current, subs, chan, closed, loopVars, client, applied, gap>>

---------------------------------------------------------------------------
LoopStep ==
    \/ Tick \/ Unchanged \/ Change \/ Unlock \/ Stop
    \/ \E c \in Clients : Send(c) \/ SendWouldBlock(c) \/ Drain(c) \/ Resend(c)

ClientStep(c) == Get(c) \/ Subscribe(c) \/ Apply(c) \/ End(c)

Next ==
    \/ \E v \in Config \cup {Invalid} : Edit(v)
    \/ LoopStep
    \/ \E c \in Clients : ClientStep(c)
    \/ Close

Spec == Init /\ [][Next]_vars

(***************************************************************************)
(* The loop's goroutine is scheduled and its ticker ticks; its select,      *)
(* which chooses at random, takes a closed stop in the end.  A client's     *)
(* goroutine is scheduled too, but CloseReturns does not need it.           *)
(***************************************************************************)
FairSpec == Spec /\ WF_vars(LoopStep) /\ SF_vars(Stop)

ClientsFairSpec == FairSpec /\ \A c \in Clients : WF_vars(ClientStep(c))

---------------------------------------------------------------------------
(* Properties *)

\* The bare send of watcher.go:148 never blocks, so the loop never sits on
\* the mutex that Get and Subscribe need.
ResendNeverBlocks == pc = "resend" => \A c \in at : chan[c] = <<>>

\* With the lock free and nothing in its channel, a client runs the current
\* configuration, unless a change fell between its Get and its Subscribe.
QuietClientIsCurrent ==
    ~Locked =>
        \A c \in Clients \ gap :
            client[c] \in {"got", "listening"} /\ chan[c] = <<>> =>
                applied[c] = WithBaseline(current)

\* A client never receives a configuration that is not the newest one: what
\* an unlocked channel holds is w.current.
PendingIsCurrent ==
    ~Locked => \A c \in Clients : chan[c] \in {<<>>, <<current>>}

\* Close returns even if no subscriber ever reads its channel again.
CloseReturns == stop ~> pc = "done"

\* "This lets services pick up updated timeouts/retries without restart"
\* (watcher.go:3): once the file is left alone and the watcher keeps running,
\* every client comes to run it.
ServicesPickUp ==
    \A c \in Clients : \A v \in Config :
        <>[](file = v /\ ~stop) => <>[](applied[c] = WithBaseline(v))

\* The same for clients that are scheduled and did not miss a change before
\* they subscribed.
ListenersPickUp ==
    (\A c \in Clients : WF_vars(ClientStep(c))) =>
        \A c \in Clients : \A v \in Config :
            <>[](file = v /\ ~stop /\ c \notin gap) => <>[](applied[c] = WithBaseline(v))
=============================================================================
