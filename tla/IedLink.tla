------------------------------ MODULE IedLink ------------------------------
(***************************************************************************)
(* The request/reply traffic between the SCADA daemon and one IED: the     *)
(* client object of sas/proto/mmsclient.lua, renewed with every connection *)
(* and numbering its requests from 1; get-model, subscribe and the         *)
(* periodic full read that pollIedClient and maybeResync send; and the     *)
(* control requests of HMI clients, forwarded and answered through         *)
(* engine.state.pendingRelays.                                             *)
(*                                                                         *)
(* The IED answers requests in order and at its own pace.  A connection is *)
(* lost with all that is under way on it, in the two ways CommSupervision  *)
(* distinguishes.  Reports are left out: they carry no request id.         *)
(***************************************************************************)
EXTENDS Naturals, Sequences

CONSTANTS
    Calls,          \* the control requests of HMI clients, each made once
    Nothing,        \* no call: the subject of the daemon's own requests
    ResyncInterval, \* cfg.resyncSec, in ticks
    RelayTimeout,   \* twice cfg.connectTimeoutSec, in ticks
    MaxSessions,    \* bound: connections made
    MaxReads        \* bound: full reads sent on one connection

ASSUME LinkAssumption ==
    /\ Nothing \notin Calls
    /\ Calls \cap {"nothing", "wait", "unreachable", "timeout"} = {}
    /\ ResyncInterval \in Nat /\ RelayTimeout \in Nat
    /\ MaxSessions \in Nat /\ MaxReads \in Nat

VARIABLES
    phase,      \* where the tick is: at the IEDs, the HMI clients or the relays
    conn,       \* iedEntry.client and its connection
    session,    \* which client object iedEntry.client is, counted from 1
    nextId,     \* client.nextId
    toIed,      \* requests under way
    fromIed,    \* replies under way
    replies,    \* client.replies of every client object there was
    modelId,    \* iedEntry.modelId, or NoId
    resyncId,   \* iedEntry.resyncId, or NoId
    sinceResync,\* ticks since iedEntry.lastResyncAt, or ResyncInterval if never
    relays,     \* engine.state.pendingRelays
    told,       \* what each caller was told
    executed,   \* history: the calls the IED has served
    received,   \* history: the calls whose reply has been received
    reads       \* history: full reads sent on this connection

wire == <<toIed, fromIed>>
ids == <<modelId, resyncId, sinceResync>>
linkVars == <<phase, conn, session, nextId, toIed, fromIed, replies, modelId, resyncId,
          sinceResync, relays, told, executed, received, reads>>

NoId == 0

Sessions == 1 .. MaxSessions

\* A request, and the reply to it.
Messages == [id : Nat, kind : {"get-model", "subscribe", "read", "control"},
             call : Calls \cup {Nothing}]

Relays == [call : Calls, session : Sessions, id : Nat, age : 0 .. RelayTimeout + 1]

Later(age) == IF age <= RelayTimeout THEN age + 1 ELSE age

Own(id, kind) == [id |-> id, kind |-> kind, call |-> Nothing]

LinkInit ==
    /\ phase = "ieds"
    /\ conn = "none"
    /\ session = 0
    /\ nextId = 1
    /\ toIed = <<>>
    /\ fromIed = <<>>
    /\ replies = [s \in Sessions |-> {}]
    /\ modelId = NoId
    /\ resyncId = NoId
    /\ sinceResync = ResyncInterval
    /\ relays = {}
    /\ told = [c \in Calls |-> "nothing"]
    /\ executed = {}
    /\ received = {}
    /\ reads = 0
-----------------------------------------------------------------------------
(* The IED and the network.                                                *)

\* serviceClients and dispatch of the IED, for one request.
IedServes ==
    /\ toIed # <<>>
    /\ toIed' = Tail(toIed)
    /\ fromIed' = Append(fromIed, Head(toIed))
    /\ executed' = executed \cup ({Head(toIed).call} \ {Nothing})
    /\ UNCHANGED <<phase, conn, session, nextId, replies, ids, relays, told, received, reads>>

ConnectionDies ==
    /\ conn = "up"
    /\ conn' \in {"broken", "dead"}
    /\ toIed' = <<>>
    /\ fromIed' = <<>>
    /\ UNCHANGED <<phase, session, nextId, replies, ids, relays, told, executed, received, reads>>
-----------------------------------------------------------------------------
(* tickIeds.                                                               *)

\* popReply on the client object of session s.
ReplyTo(arrived, s, id) == {m \in arrived[s] : m.id = id}

\* connectIed: the new client's first request is get-model.
Connect ==
    /\ phase = "ieds"
    /\ conn \in {"none", "dead"}
    /\ session < MaxSessions
    /\ phase' = "hmi"
    /\ conn' = "up"
    /\ session' = session + 1
    /\ toIed' = <<Own(1, "get-model")>>
    /\ fromIed' = <<>>
    /\ modelId' = 1
    /\ nextId' = 2
    /\ reads' = 0
    /\ UNCHANGED <<replies, resyncId, sinceResync, relays, told, executed, received>>

\* It is too early for another attempt, or the attempt fails.
StayDisconnected ==
    /\ phase = "ieds"
    /\ conn \in {"none", "dead"}
    /\ phase' = "hmi"
    /\ UNCHANGED <<conn, session, nextId, wire, replies, ids, relays, told, executed, received, reads>>

\* disconnectIed: modelId is forgotten, resyncId is not.
Disconnect ==
    /\ phase = "ieds"
    /\ conn = "broken"
    /\ phase' = "hmi"
    /\ conn' = "none"
    /\ modelId' = NoId
    /\ UNCHANGED <<session, nextId, wire, replies, resyncId, sinceResync, relays, told,
                   executed, received, reads>>

Send(kind) ==
    /\ toIed' = Append(toIed, Own(nextId, kind))
    /\ nextId' = nextId + 1

\* The model's reply, when it is there, is followed by subscribe (nobody ever
\* takes the reply to that).
LearnModel(arrived) ==
    /\ UNCHANGED <<resyncId, sinceResync, reads>>
    /\ \/ /\ ReplyTo(arrived, session, modelId) # {}
          /\ replies' = [arrived EXCEPT ![session] = @ \ ReplyTo(arrived, session, modelId)]
          /\ modelId' = NoId
          /\ Send("subscribe")
       \/ /\ ReplyTo(arrived, session, modelId) = {}
          /\ replies' = arrived
          /\ UNCHANGED <<modelId, toIed, nextId>>

\* maybeResync.  The reply to the id it waits for is taken whatever its kind.
MaybeResync(arrived) ==
    /\ UNCHANGED modelId
    /\ \/ /\ resyncId # NoId
          /\ LET reply == ReplyTo(arrived, session, resyncId)
             IN /\ replies' = [arrived EXCEPT ![session] = @ \ reply]
                /\ resyncId' = IF reply = {} THEN resyncId ELSE NoId
          /\ UNCHANGED <<toIed, nextId, sinceResync, reads>>
       \/ /\ resyncId = NoId
          /\ sinceResync >= ResyncInterval
          /\ reads < MaxReads
          /\ Send("read")
          /\ resyncId' = nextId
          /\ sinceResync' = 0
          /\ reads' = reads + 1
          /\ replies' = arrived
       \/ /\ resyncId = NoId
          /\ sinceResync < ResyncInterval \/ reads = MaxReads
          /\ replies' = arrived
          /\ UNCHANGED <<toIed, nextId, resyncId, sinceResync, reads>>

\* pollIedClient, with the first n replies under way received.
Poll ==
    /\ phase = "ieds"
    /\ conn = "up"
    /\ phase' = "hmi"
    /\ \E n \in 0 .. Len(fromIed) :
         LET arrived == [replies EXCEPT ![session] = @ \cup {fromIed[i] : i \in 1 .. n}]
         IN /\ fromIed' = SubSeq(fromIed, n + 1, Len(fromIed))
            /\ received' = received \cup ({fromIed[i].call : i \in 1 .. n} \ {Nothing})
            /\ IF modelId # NoId THEN LearnModel(arrived) ELSE MaybeResync(arrived)
    /\ UNCHANGED <<conn, session, relays, told, executed>>
-----------------------------------------------------------------------------
(* serviceHmiClients and relayControlReplies.                              *)

\* forwardControl, sent: lost if the connection is broken already.
Forward(c) ==
    /\ phase = "hmi"
    /\ told[c] = "nothing"
    /\ conn \in {"up", "broken"}
    /\ toIed' = IF conn = "up"
                THEN Append(toIed, [id |-> nextId, kind |-> "control", call |-> c])
                ELSE toIed
    /\ relays' = relays \cup {[call |-> c, session |-> session, id |-> nextId, age |-> 0]}
    /\ told' = [told EXCEPT ![c] = "wait"]
    /\ nextId' = nextId + 1
    /\ UNCHANGED <<phase, conn, session, fromIed, replies, ids, executed, received, reads>>

\* forwardControl, refused: no connection, or the send on it fails.
Refuse(c) ==
    /\ phase = "hmi"
    /\ told[c] = "nothing"
    /\ conn # "up"
    /\ conn' = IF conn = "broken" THEN "dead" ELSE conn
    /\ told' = [told EXCEPT ![c] = "unreachable"]
    /\ UNCHANGED <<phase, session, nextId, wire, replies, ids, relays, executed, received, reads>>

\* Variant: relays ask the client object of the connection there is now.
RelayReplyFromCurrent(relay) == ReplyTo(replies, session, relay.id)

RelayReply(relay) == ReplyTo(replies, relay.session, relay.id)

\* Variant: a relay whose connection is gone is never given up.
ExpiredUnlessLost(relay) == relay.age > RelayTimeout /\ relay.session = session

Expired(relay) == relay.age > RelayTimeout

\* relayControlReplies, and the time until the next tick.
RelayReplies ==
    /\ phase = "hmi"
    /\ phase' = "ieds"
    /\ LET answered == {r \in relays : RelayReply(r) # {}}
           expired == {r \in relays \ answered : Expired(r)}
           taken(s) == UNION {RelayReply(r) : r \in {a \in answered : a.session = s}}
       IN /\ told' = [c \in Calls |->
                IF \E r \in answered : r.call = c
                THEN (CHOOSE m \in RelayReply(CHOOSE r \in answered : r.call = c) : TRUE).call
                ELSE IF \E r \in expired : r.call = c THEN "timeout" ELSE told[c]]
          /\ relays' = {[r EXCEPT !.age = Later(@)] : r \in relays \ (answered \cup expired)}
          /\ replies' = [s \in Sessions |-> replies[s] \ taken(s)]
    /\ sinceResync' = IF sinceResync < ResyncInterval THEN sinceResync + 1 ELSE sinceResync
    /\ UNCHANGED <<conn, session, nextId, wire, modelId, resyncId, executed, received, reads>>

TickIeds == Connect \/ StayDisconnected \/ Disconnect \/ Poll

LinkNext ==
    \/ IedServes
    \/ ConnectionDies
    \/ TickIeds
    \/ \E c \in Calls : Forward(c) \/ Refuse(c)
    \/ RelayReplies

LinkSpec == LinkInit /\ [][LinkNext]_linkVars

\* Ticks come and go through both of their parts.
LinkFairSpec ==
    /\ LinkSpec
    /\ WF_linkVars(TickIeds)
    /\ WF_linkVars(RelayReplies)
-----------------------------------------------------------------------------
LinkTypeOK ==
    /\ phase \in {"ieds", "hmi"}
    /\ conn \in {"none", "up", "broken", "dead"}
    /\ session \in 0 .. MaxSessions
    /\ nextId \in Nat \ {0}
    /\ toIed \in Seq(Messages) /\ fromIed \in Seq(Messages)
    /\ replies \in [Sessions -> SUBSET Messages]
    /\ modelId \in Nat /\ resyncId \in Nat
    /\ sinceResync \in 0 .. ResyncInterval
    /\ relays \in SUBSET Relays
    /\ told \in [Calls -> {"nothing", "wait", "unreachable", "timeout"} \cup Calls]
    /\ executed \in SUBSET Calls /\ received \in SUBSET Calls
    /\ reads \in 0 .. MaxReads

\* A caller that gets a reply gets the IED's reply to its own call, although
\* the ids of a later connection repeat those of an earlier one; and a caller
\* that is told its call cannot be made is right.
AnswersTrue ==
    \A c \in Calls :
        /\ told[c] \in Calls => told[c] = c /\ c \in executed
        /\ told[c] = "unreachable" => c \notin executed

\* Every call is answered in the end, whatever becomes of the connection.
EveryCallAnswered ==
    \A c \in Calls : told[c] = "wait" ~> told[c] \in Calls \cup {"timeout"}

\* A caller is told that the reply did not come only if it did not come: the
\* reply is relayed once the client's poll picks it up.
TimeoutMeansSilence ==
    [][\A c \in Calls : told[c] = "wait" /\ told'[c] = "timeout" => c \notin received]_linkVars
=============================================================================
